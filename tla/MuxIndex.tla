------------------------------ MODULE MuxIndex ------------------------------
(***************************************************************************)
(* What a muxcompat router keeps (muxcompat/): routes that are lists of    *)
(* matchers, and the lookup index built from them.                         *)
(*                                                                         *)
(* Host, query, header, scheme and custom matchers only differ in what     *)
(* they look at: each is a requirement that a request meets or does not    *)
(* (custom matchers that change the match themselves are left out).  A     *)
(* wildcard with a pattern of its own is a typed one and stays within its  *)
(* segment; UseEncodedPath is off.                                         *)
(***************************************************************************)
EXTENDS PathTree, FiniteSets, FiniteSetsExt

CONSTANTS
    Begins(_, _),    \* Begins(value, text): the text is a prefix of the value
    IndexThreshold   \* fewer routes than this are scanned (4 in the code)

ASSUME IndexThresholdAssumption == IndexThreshold \in Nat

-----------------------------------------------------------------------------
(* Path and prefix templates *)

NoTemplate == [segs |-> << >>, kind |-> "none", strict |-> FALSE, on |-> 0]

(* on is the router the template was compiled for: the code compares       *)
(* templates by identity.                                                  *)
Template(kind, segs, strict, k) ==
    [segs |-> segs, kind |-> kind, strict |-> strict /\ kind = "path", on |-> k]

Slashed(path) == path # << >> /\ Last(path) = ""
WantsSlash(t) == t.segs # << >> /\ Last(t.segs) = Lit("")
Unslashed(t) == IF WantsSlash(t) THEN Front(t.segs) ELSE t.segs

(* A prefix need not end where a segment ends.                             *)
PrefixMatches(segs, path) ==
    \/ segs = << >>
    \/ /\ Len(path) >= Len(segs)
       /\ PathMatches(Front(segs), SubSeq(path, 1, Len(segs) - 1))
       /\ LET s == Last(segs)
              value == path[Len(segs)]
          IN IF s.kind = "static" THEN Begins(value, s.text)
                                  ELSE SegmentMatches(s, value)

TemplateMatches(t, path) ==
    CASE t.kind = "prefix" -> PrefixMatches(t.segs, path)
      [] t.kind = "path" /\ ~t.strict -> PathMatches(t.segs, path)
      [] t.kind = "path" /\ t.strict ->
           \/ PathMatches(Unslashed(t), path)
           \/ Slashed(path) /\ PathMatches(Unslashed(t), Front(path))

-----------------------------------------------------------------------------
(* Matchers and routes *)

PathMatcher(t)   == [kind |-> "path", template |-> t]
MethodMatcher(S) == [kind |-> "methods", methods |-> S]
Requirement(r)   == [kind |-> "requirement", needs |-> r]
Nested(k)        == [kind |-> "router", router |-> k]

(* Whether a matcher other than a nested router accepts the request.       *)
Holds(x, q) ==
    CASE x.kind = "path" -> TemplateMatches(x.template, q.path)
      [] x.kind = "methods" -> q.method \in x.methods
      [] x.kind = "requirement" -> x.needs \in q.meets

(* NewRoute: a route starts with its router's matchers and path template.  *)
NewRoute(conf) == [matchers |-> conf.matchers, path |-> conf.path,
                   strict |-> conf.strict, handler |-> FALSE,
                   buildOnly |-> FALSE, err |-> FALSE]

AddMatcher(rt, x) == IF rt.err THEN rt ELSE [rt EXCEPT !.matchers = Append(@, x)]

(* Path and PathPrefix: below the path the route already has.              *)
AddTemplate(rt, kind, segs, k) ==
    LET below == IF rt.path = NoTemplate THEN << >> ELSE Unslashed(rt.path)
        t == Template(kind, below \o segs, rt.strict, k)
    IN IF rt.err THEN rt ELSE [AddMatcher(rt, PathMatcher(t)) EXCEPT !.path = t]

(* One call of the route's configuration chain; "fails" is any call that   *)
(* records an error.                                                       *)
Configured(rt, c, k) ==
    CASE c.call \in {"path", "prefix"} -> AddTemplate(rt, c.call, c.segs, k)
      [] c.call = "methods" -> AddMatcher(rt, MethodMatcher(c.methods))
      [] c.call = "needs" -> AddMatcher(rt, Requirement(c.needs))
      [] c.call = "handler" -> [rt EXCEPT !.handler = @ \/ ~rt.err]
      [] c.call = "buildOnly" -> [rt EXCEPT !.buildOnly = TRUE]
      [] c.call = "fails" -> [rt EXCEPT !.err = TRUE]

Chained(conf, calls, k) ==
    FoldLeft(LAMBDA rt, c : Configured(rt, c, k), NewRoute(conf), calls)

-----------------------------------------------------------------------------
(* The lookup index *)

Active(rt) == ~rt.err /\ ~rt.buildOnly

PathFirst(rt) == rt.matchers # << >> /\ rt.path # NoTemplate
                 /\ Head(rt.matchers) = PathMatcher(rt.path)

(* classify: a plain path template, then at most one method filter.        *)
Fast(rt) ==
    /\ Active(rt)
    /\ PathFirst(rt)
    /\ rt.path.kind = "path" /\ ~rt.path.strict
    /\ \A i \in DOMAIN rt.path.segs : ~Checked(rt.path.segs[i])
    /\ \/ Len(rt.matchers) = 1
       \/ Len(rt.matchers) = 2 /\ rt.matchers[2].kind = "methods"

(* Deviation: a prefix of one segment is bucketed too.                     *)
BucketedUnaligned(rt) ==
    /\ Active(rt)
    /\ PathFirst(rt)
    /\ ~rt.path.strict
    /\ rt.path.segs # << >>
    /\ Head(rt.path.segs).kind = "static" /\ Head(rt.path.segs).text # ""

(* firstStaticSegment: a first segment without which the route fails on    *)
(* its first matcher.                                                      *)
Bucketed(rt) ==
    /\ Active(rt)
    /\ PathFirst(rt)
    /\ ~rt.path.strict
    /\ rt.path.segs # << >>
    /\ Head(rt.path.segs).kind = "static" /\ Head(rt.path.segs).text # ""
    /\ rt.path.kind = "prefix" => Len(rt.path.segs) > 1

Plain(segs) == \A i \in DOMAIN segs : segs[i].kind = "static"

(* Where the index files a route: "exact" and "tree" are fast, "bucket"    *)
(* and "always" are evaluated in full.  The methods are copied.            *)
Entry(rt, lane) ==
    [lane |-> lane, segs |-> rt.path.segs,
     first |-> IF lane = "bucket" THEN Head(rt.path.segs).text ELSE "",
     methods |-> {rt.matchers[i].methods :
                    i \in {j \in DOMAIN rt.matchers : rt.matchers[j].kind = "methods"}}]
SlowEntry(rt) == Entry(rt, IF Bucketed(rt) THEN "bucket" ELSE "always")

AddEntry(acc, e, tree) == [entries |-> Append(acc.entries, e), tree |-> tree]

(* A template the tree refuses is evaluated in full; the nodes its Insert  *)
(* made stay.                                                              *)
FiledInTree(acc, rt, w) ==
    AddEntry(acc, IF w.ok THEN Entry(rt, "tree") ELSE SlowEntry(rt), w.tree)

Filed(acc, rt) ==
    CASE ~Fast(rt) -> AddEntry(acc, SlowEntry(rt), acc.tree)
      [] Fast(rt) /\ Plain(rt.path.segs) -> AddEntry(acc, Entry(rt, "exact"), acc.tree)
      [] OTHER -> FiledInTree(acc, rt, Insert(acc.tree, rt.path.segs, Len(acc.entries) + 1))

IsFast(e) == e.lane \in {"exact", "tree"}

NoIndex == [count |-> -1, entries |-> << >>, tree |-> EmptyTree]

(* Without a fast route there is nothing to gain.                          *)
Useful(filed) ==
    IF \E i \in DOMAIN filed.entries : IsFast(filed.entries[i])
    THEN [count |-> Len(filed.entries), entries |-> filed.entries, tree |-> filed.tree]
    ELSE NoIndex

BuildIndex(rts) ==
    IF Len(rts) < IndexThreshold THEN NoIndex
    ELSE Useful(FoldLeft(Filed, [entries |-> << >>, tree |-> EmptyTree], rts))

(* Deviation: the routes come in the order the index finds them.           *)
CandidatesUnsorted(idx, path) ==
    LET lane(l) == SelectSeq([i \in DOMAIN idx.entries |-> i],
                             LAMBDA i : idx.entries[i].lane = l)
    IN SelectSeq(lane("exact"), LAMBDA i : PathMatches(idx.entries[i].segs, path))
       \o SetToSortSeq(Collect(idx.tree, path), <)
       \o lane("always")
       \o SelectSeq(lane("bucket"),
                    LAMBDA i : path # << >> /\ idx.entries[i].first = Head(path))

(* The positions the index offers for a path, in registration order.       *)
Candidates(idx, path) ==
    LET here(i) ==
          LET e == idx.entries[i]
          IN \/ e.lane = "exact" /\ PathMatches(e.segs, path)
             \/ e.lane = "always"
             \/ e.lane = "bucket" /\ path # << >> /\ e.first = Head(path)
    IN SetToSortSeq({i \in DOMAIN idx.entries : here(i)} \cup Collect(idx.tree, path),
                    <)

-----------------------------------------------------------------------------
(* A match in progress (RouteMatch) *)

NoRoute == [router |-> "none", at |-> 0]
Leaf(k, i) == [router |-> k, at |-> i]
Handler(by, what) == [by |-> by, what |-> what, through |-> << >>]
Nil == Handler(NoRoute, "nil")

(* vars and params map names to values; made says whether the code has     *)
(* allocated the map Vars, visited which routers looked for their index.   *)
Unmatched == [err |-> "none", route |-> NoRoute, handler |-> Nil,
              made |-> FALSE, vars |-> << >>, params |-> << >>, visited |-> {}]

Outcome(ok, m) == [ok |-> ok, match |-> m]
Unless(m, e) == IF m.err = e THEN [m EXCEPT !.err = "none"] ELSE m

(* setVar for each binding: a later one of the same name wins.             *)
Bound(f, bindings) ==
    FoldLeft(LAMBDA g, b : (b.name :> b.value) @@ g, f, bindings)
=============================================================================
