------------------------------ MODULE MuxMatch ------------------------------
(***************************************************************************)
(* How a muxcompat router and its routes evaluate a request (match in      *)
(* muxcompat/mux.go, Match and matchFast in route.go): functions from one  *)
(* RouteMatch to the next.                                                 *)
(*                                                                         *)
(* A nested router is a matcher of a route: Within is Match of the router  *)
(* one level down.                                                         *)
(***************************************************************************)
EXTENDS MuxIndex

CONSTANTS
    Within(_, _, _, _, _),
    setup, routes, index     \* the state of the routers, as in Mux

(* What Match and matchFast both do when every matcher accepted: a 405     *)
(* left by an earlier route is cleared.                                    *)
Claimed(rt, leaf, m) ==
    LET own == Handler(leaf, "route")
        c == IF m.err = "methodMismatch" /\ rt.handler
             THEN [m EXCEPT !.err = "none", !.handler = own] ELSE m
    IN [c EXCEPT !.route = IF @ = NoRoute THEN leaf ELSE @,
                 !.handler = IF @ = Nil /\ rt.handler THEN own ELSE @]

(* setMatch: variables, and the redirect of strictSlash.                   *)
Captured(rt, q, m) ==
    LET v == [m EXCEPT !.made = TRUE,
                       !.vars = Bound(@, Bindings(rt.path.segs, q.path))]
    IN IF rt.path.strict /\ Slashed(q.path) # WantsSlash(rt.path)
       THEN [v EXCEPT !.handler = Handler(m.route, "redirect")] ELSE v

-----------------------------------------------------------------------------
(* Route.Match *)

(* Deviation: a 405 of an earlier route survives one that got further.     *)
StepKeeping405(a, x, q, nested) ==
    LET cleared(m) == Unless(m, "notFound")
    IN CASE a.failed -> a
         [] ~a.failed /\ x.kind = "router" ->
              [a EXCEPT !.match = IF nested.ok THEN nested.match ELSE cleared(nested.match),
                        !.failed = ~nested.ok]
         [] ~a.failed /\ x.kind = "methods" /\ ~Holds(x, q) -> [a EXCEPT !.mismatch = TRUE]
         [] OTHER -> [a EXCEPT !.match = IF Holds(x, q) THEN @ ELSE cleared(@),
                               !.failed = ~Holds(x, q)]

(* One matcher, nested being what its router answers.  A failed method     *)
(* filter does not end the evaluation; any other failure does, and a route *)
(* that got further than the one that left an error clears it.             *)
Step(a, x, q, nested) ==
    LET refused == IF a.progressed THEN [a.match EXCEPT !.err = "none"]
                                   ELSE Unless(a.match, "notFound")
    IN CASE a.failed -> a
         [] ~a.failed /\ x.kind = "router" ->
              IF nested.ok THEN [a EXCEPT !.match = nested.match, !.progressed = TRUE]
              ELSE [a EXCEPT !.match = Unless(nested.match, "notFound"), !.failed = TRUE]
         [] ~a.failed /\ x.kind # "router" /\ Holds(x, q) -> [a EXCEPT !.progressed = TRUE]
         [] ~a.failed /\ x.kind = "methods" /\ ~Holds(x, q) -> [a EXCEPT !.mismatch = TRUE]
         [] OTHER -> [a EXCEPT !.match = refused, !.failed = TRUE]

Judged(rt, leaf, q, end) ==
    CASE end.failed -> Outcome(FALSE, end.match)
      [] ~end.failed /\ end.mismatch ->
           Outcome(FALSE, [end.match EXCEPT !.err = "methodMismatch"])
      [] OTHER -> Outcome(TRUE, Captured(rt, q, Claimed(rt, leaf, end.match)))

MatchRoute(rt, leaf, q, m, indexed) ==
    LET next(a, x) == Step(a, x, q, Within(x.router, q, a.match, FALSE, indexed))
        start == [match |-> m, progressed |-> FALSE, mismatch |-> FALSE, failed |-> FALSE]
    IN IF Active(rt) THEN Judged(rt, leaf, q, FoldLeft(next, start, rt.matchers))
                     ELSE Outcome(FALSE, m)

(* Deviation: a route reached through the index keeps an earlier 405.      *)
MatchFastKeeping405(e, rt, leaf, q, m, lazy) ==
    LET c == [m EXCEPT !.route = IF @ = NoRoute THEN leaf ELSE @,
                       !.handler = IF @ = Nil /\ rt.handler
                                   THEN Handler(leaf, "route") ELSE @]
    IN IF \E S \in e.methods : q.method \notin S
       THEN Outcome(FALSE, [m EXCEPT !.err = "methodMismatch"])
       ELSE Outcome(TRUE, [c EXCEPT !.params = Bound(<< >>, Extract(e.segs, q.path).params)])

(* Deviation: the parameters are always only noted.                        *)
MatchFastLazy(e, rt, leaf, q, m, lazy) ==
    LET bindings == Extract(e.segs, q.path).params
        c == Claimed(rt, leaf, m)
    IN IF \E S \in e.methods : q.method \notin S
       THEN Outcome(FALSE, [m EXCEPT !.err = "methodMismatch"])
       ELSE Outcome(TRUE, IF bindings = << >> THEN c
                          ELSE [c EXCEPT !.params = Bound(<< >>, bindings)])

(* matchFast: the index has proved the path.  For ServeHTTP the parameters *)
(* are only noted.                                                         *)
MatchFast(e, rt, leaf, q, m, lazy) ==
    LET bindings == Extract(e.segs, q.path).params
        c == Claimed(rt, leaf, m)
    IN CASE \E S \in e.methods : q.method \notin S ->
              Outcome(FALSE, [m EXCEPT !.err = "methodMismatch"])
         [] (\A S \in e.methods : q.method \in S) /\ lazy ->
              Outcome(TRUE, IF bindings = << >> THEN c
                            ELSE [c EXCEPT !.params = Bound(<< >>, bindings)])
         [] OTHER ->
              Outcome(TRUE, [c EXCEPT !.made = TRUE, !.vars = Bound(@, bindings)])

-----------------------------------------------------------------------------
(* Router.Match *)

CurrentIndex(k) ==
    IF index[k] # NoIndex /\ index[k].count = Len(routes[k]) THEN index[k]
    ELSE BuildIndex(routes[k])

(* The routes at the given positions, one after the other.                 *)
ScanOver(k, positions, q, m, indexed) ==
    FoldLeft(LAMBDA a, i : IF a.ok THEN a
                           ELSE MatchRoute(routes[k][i], Leaf(k, i), q, a.match, indexed),
             Outcome(FALSE, m), positions)

ScanFrom(k, i, q, m, indexed) ==
    ScanOver(k, [j \in 1 .. Len(routes[k]) - i + 1 |-> i + j - 1], q, m, indexed)

(* After a failure that leaves "not found" behind, all the later routes    *)
(* are scanned instead of the later candidates.                            *)
Resumed(k, i, q, r) ==
    IF ~r.ok /\ r.match.err = "notFound"
    THEN ScanFrom(k, i + 1, q, r.match, TRUE) @@ [scanned |-> TRUE]
    ELSE r @@ [scanned |-> FALSE]

TryCandidate(a, k, i, e, q, lazy) ==
    LET rt == routes[k][i]
    IN IF a.ok \/ a.scanned THEN a
       ELSE Resumed(k, i, q,
                    IF IsFast(e) THEN MatchFast(e, rt, Leaf(k, i), q, a.match, lazy)
                    ELSE MatchRoute(rt, Leaf(k, i), q, a.match, TRUE))

ScanIndex(k, idx, q, m, lazy) ==
    FoldLeft(LAMBDA a, i : TryCandidate(a, k, i, idx.entries[i], q, lazy),
             Outcome(FALSE, m) @@ [scanned |-> FALSE], Candidates(idx, q.path))

MatchRoutes(k, idx, q, m, lazy, indexed) ==
    IF indexed /\ idx # NoIndex THEN ScanIndex(k, idx, q, m, lazy)
                                ELSE ScanFrom(k, 1, q, m, indexed)

(* Middleware wraps a match without an error; the router's own handlers    *)
(* for misses count as matches to a router above.                          *)
Concluded(k, r) ==
    LET own(what) == [r.match EXCEPT !.handler = Handler(Leaf(k, 0), what)]
        lost(n) == [n EXCEPT !.err = "notFound"]
    IN CASE r.ok /\ r.match.err = "none" /\ setup[k].middleware ->
              Outcome(TRUE, [r.match EXCEPT !.handler.through = <<k>> \o @])
         [] r.ok /\ ~(r.match.err = "none" /\ setup[k].middleware) ->
              Outcome(TRUE, r.match)
         [] ~r.ok /\ r.match.err = "methodMismatch" ->
              IF setup[k].refuses THEN Outcome(TRUE, own("405"))
                                  ELSE Outcome(FALSE, r.match)
         [] OTHER ->
              IF setup[k].misses THEN Outcome(TRUE, lost(own("404")))
                                 ELSE Outcome(FALSE, lost(r.match))

MatchRouter(k, q, m, lazy, indexed) ==
    Concluded(k, MatchRoutes(k, CurrentIndex(k), q,
                             [m EXCEPT !.visited = @ \cup {k}], lazy, indexed))
=============================================================================
