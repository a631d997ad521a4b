-------------------------------- MODULE Mux --------------------------------
(***************************************************************************)
(* muxcompat's Router (muxcompat/mux.go, route.go): routes are tried in    *)
(* registration order, a route may hold a nested router, and each router   *)
(* answers from a lookup index that it builds at the first request and     *)
(* drops when it gets another route.                                       *)
(*                                                                         *)
(* One goroutine: registration must not overlap requests, and requests     *)
(* only replace an index by an equal one.                                  *)
(***************************************************************************)
EXTENDS MuxIndex

CONSTANTS
    Root, Inner,     \* the router New returns; the one Subrouter returns
    RootSetup,       \* [middleware, misses, refuses] of Root: whether it has
                     \* middleware and its own handlers for 404 and 405
    Setups,          \* what Inner's may be
    Chains,          \* the configuration chains routes of Root are registered with
    OpenChains,      \* those that end in Subrouter
    InnerChains,     \* those that routes of Inner are registered with
    Calls,           \* what may still be called on a route that exists
    Requests,        \* [path, method, meets]
    MaxRoutes,
    StrictAfter      \* bound: Root's number of routes when StrictSlash is called

ASSUME Root # Inner

VARIABLES
    setup,   \* per router: whether it has middleware and own handlers for misses
    conf,    \* per router: what it hands down to its routes (routeConf)
    routes,  \* per router: its routes in registration order
    index,   \* per router: its lookup index, or NoIndex
    parent   \* the position in Root of the route that holds Inner, 0 if none

vars == <<setup, conf, routes, index, parent>>

Routers == {Root, Inner}
NoConf == [matchers |-> << >>, path |-> NoTemplate, strict |-> FALSE]

-----------------------------------------------------------------------------
(* Router.Match of Inner, whose routes hold no router, and of Root *)

NoRouter(k, q, m, lazy, indexed) == Outcome(FALSE, m)
InInner == INSTANCE MuxMatch WITH Within <- NoRouter
MatchInner(k, q, m, lazy, indexed) == InInner!MatchRouter(k, q, m, lazy, indexed)

InRoot == INSTANCE MuxMatch WITH Within <- MatchInner
Match(q, lazy, indexed) == InRoot!MatchRouter(Root, q, Unmatched, lazy, indexed)

-----------------------------------------------------------------------------
(* Router.ServeHTTP *)

cleanPath(path) ==
    LET np == FoldLeft(CleanStep, << >>, path)
    IN IF np = << >> \/ Slashed(path) THEN Append(np, "") ELSE np

Answer(handler, m, values) ==
    [handler |-> handler, err |-> m.err, route |-> m.route, vars |-> values,
     visited |-> m.visited]

Answered(r) ==
    LET m == r.match
        answers == r.ok /\ m.handler # Nil
        error == IF m.err = "methodMismatch" THEN "405" ELSE "404"
    IN IF answers THEN Answer(m.handler, m, IF m.made THEN m.vars ELSE m.params)
                  ELSE Answer(Handler(NoRoute, error), m, << >>)

(* What a request gets; indexed is FALSE for noIndex in every router.      *)
Serve(q, indexed) ==
    IF cleanPath(q.path) # q.path
    THEN Answer(Handler(NoRoute, "clean"), Unmatched, << >>)
    ELSE Answered(Match(q, TRUE, indexed))

-----------------------------------------------------------------------------
(* CORSMethodMiddleware *)

GetMethods(rt) ==
    LET filters == SelectSeq(rt.matchers, LAMBDA x : x.kind = "methods")
    IN IF filters = << >> THEN {} ELSE Head(filters).methods

(* Deviation: whatever the other matchers say.                             *)
AllMethodsAnywhere(k, q) == UNION {GetMethods(routes[k][i]) : i \in DOMAIN routes[k]}

AllMethods(k, q) ==
    LET accepting(i) ==
          LET r == InRoot!MatchRoute(routes[k][i], Leaf(k, i), q, Unmatched, TRUE)
          IN r.ok \/ r.match.err = "methodMismatch"
    IN UNION {GetMethods(routes[k][i]) : i \in {j \in DOMAIN routes[k] : accepting(j)}}

-----------------------------------------------------------------------------
(* What the application does *)

Total == Len(routes[Root]) + Len(routes[Inner])
Nests(rt) == \E i \in DOMAIN rt.matchers : rt.matchers[i].kind = "router"

Init ==
    /\ setup = [k \in Routers |-> RootSetup]
    /\ conf = [k \in Routers |-> NoConf]
    /\ routes = [k \in Routers |-> << >>]
    /\ index = [k \in Routers |-> NoIndex]
    /\ parent = 0

Registered(k, rt) ==
    /\ Total < MaxRoutes
    /\ routes' = [routes EXCEPT ![k] = Append(@, rt)]
    /\ index' = [index EXCEPT ![k] = NoIndex]

(* One registration statement: NewRoute and the calls chained to it.       *)
AddRoute(k, calls) ==
    /\ Registered(k, Chained(conf[k], calls, k))
    /\ UNCHANGED <<setup, conf, parent>>

(* A statement whose chain ends in Subrouter, and the setup of the new     *)
(* router (Use, NotFoundHandler, MethodNotAllowedHandler: only a request   *)
(* reads them).                                                            *)
Subrouter(calls) ==
    LET rt == Chained(conf[Root], calls, Root)
    IN /\ parent = 0
       /\ Registered(Root, AddMatcher(rt, Nested(Inner)))
       /\ conf' = [conf EXCEPT ![Inner] = [matchers |-> rt.matchers, path |-> rt.path,
                                           strict |-> rt.strict]]
       /\ parent' = Len(routes[Root]) + 1
       /\ \E own \in Setups : setup' = [setup EXCEPT ![Inner] = own]

(* A call on a route kept in a variable.  Bounds: one method filter per    *)
(* route, and no call once requests have built the index or the route has  *)
(* a subrouter: neither is seen by the index or by the routes inside.      *)
Configure(k, i, c) ==
    LET rt == routes[k][i]
    IN /\ index[k] = NoIndex /\ ~Nests(rt)
       /\ GetMethods(rt) = {} \/ c.call # "methods"
       /\ Configured(rt, c, k) # rt
       /\ routes' = [routes EXCEPT ![k][i] = Configured(rt, c, k)]
       /\ UNCHANGED <<setup, conf, index, parent>>

(* StrictSlash(true), for the routes of Root still to come.                *)
StrictSlash ==
    /\ ~conf[Root].strict /\ Len(routes[Root]) = StrictAfter
    /\ conf' = [conf EXCEPT ![Root].strict = TRUE]
    /\ UNCHANGED <<setup, routes, index, parent>>

(* Bound: only while another route can be added, for a request leaves      *)
(* nothing but the index behind.                                           *)
ServeHTTP(q) ==
    LET visited == Serve(q, TRUE).visited
    IN /\ Total < MaxRoutes
       /\ index' = [k \in Routers |-> IF k \in visited THEN InRoot!CurrentIndex(k) ELSE index[k]]
       /\ UNCHANGED <<setup, conf, routes, parent>>

Next ==
    \/ \E calls \in Chains : AddRoute(Root, calls)
    \/ \E calls \in OpenChains : Subrouter(calls)
    \/ parent # 0 /\ \E calls \in InnerChains : AddRoute(Inner, calls)
    \/ \E k \in Routers : \E i \in DOMAIN routes[k], c \in Calls : Configure(k, i, c)
    \/ StrictSlash
    \/ \E q \in Requests : ServeHTTP(q)

Spec == Init /\ [][Next]_vars

-----------------------------------------------------------------------------
(* The ordered scan, as a rule *)

Clean == {q \in Requests : cleanPath(q.path) = q.path}
RouteAt(l) == routes[l.router][l.at]
Leaves ==
    {l \in [router : Routers, at : 1 .. MaxRoutes] :
       l.at <= Len(routes[l.router]) /\ ~Nests(RouteAt(l))}

Accepted(rt, q) ==
    Active(rt) /\ \A x \in ToSet(rt.matchers) : x.kind # "router" => Holds(x, q)
Refused(rt, q) ==
    /\ Active(rt) /\ ~Accepted(rt, q)
    /\ \A x \in ToSet(rt.matchers) : x.kind \in {"router", "methods"} \/ Holds(x, q)

(* Some matcher accepted before one that is no method filter refused.      *)
Abandoned(rt, q) ==
    LET ends == {n \in DOMAIN rt.matchers :
                   rt.matchers[n].kind # "methods" /\ ~Holds(rt.matchers[n], q)}
    IN /\ Active(rt) /\ ends # {}
       /\ \E p \in DOMAIN rt.matchers :
            Holds(rt.matchers[p], q) /\ \A n \in ends : p < n

Eligible(q) ==
    {l \in Leaves : /\ Accepted(RouteAt(l), q)
                    /\ l.router = Inner => Accepted(routes[Root][parent], q)}
Before(l, n) ==
    LET top(x) == IF x.router = Root THEN x.at ELSE parent
    IN top(l) < top(n) \/ (top(l) = top(n) /\ l.at < n.at)
First(q) == CHOOSE l \in Eligible(q) : \A n \in Eligible(q) \ {l} : Before(l, n)

MiddlewareOf(l) ==
    SelectSeq(IF l.router = Root THEN <<Root>> ELSE <<Root, Inner>>,
              LAMBDA k : setup[k].middleware)

-----------------------------------------------------------------------------
(* Properties *)

(* The index and the ordered scan "produce identical results" (comment on  *)
(* matchRoutes): handler, middleware, route, variables and error agree for *)
(* every request, through ServeHTTP and through Match.                     *)
IndexAgreesWithScan ==
    \A q \in Requests :
      LET served(indexed) == [Serve(q, indexed) EXCEPT !.visited = {}]
          matched(indexed) == [Match(q, FALSE, indexed) EXCEPT !.match.visited = {}]
      IN served(TRUE) = served(FALSE) /\ matched(TRUE) = matched(FALSE)

(* "dispatches requests to the first one that matches" (Router): the       *)
(* handler and CurrentRoute are those of the first route, depth first,     *)
(* whose matchers all accept, and no such route is passed over unless the  *)
(* nested router reports a miss that it answers itself.                    *)
FirstMatchWins ==
    \A q \in Clean : \A a \in {Serve(q, TRUE)} :
      LET own == setup[Inner].misses \/ setup[Inner].refuses
      IN IF a.handler.what \in {"route", "redirect"}
         THEN a.route = First(q) /\ a.handler.by = First(q)
         ELSE Eligible(q) = {} \/ (parent # 0 /\ own /\ a.err # "none")

(* The method error is reported only where some route refused nothing but  *)
(* the method; and, with one router, exactly where none accepts the        *)
(* request and none after the last such route got further and then failed  *)
(* (comment in Route.Match).                                               *)
RefusalIsJust ==
    \A q \in Clean :
      LET refused == Serve(q, TRUE).err = "methodMismatch"
          rts == routes[Root]
      IN /\ refused => \E k \in Routers : \E i \in DOMAIN routes[k] : Refused(routes[k][i], q)
         /\ parent = 0 =>
              (refused <=> /\ Eligible(q) = {}
                           /\ \E i \in DOMAIN rts :
                                /\ Refused(rts[i], q)
                                /\ \A j \in DOMAIN rts : j > i => ~Abandoned(rts[j], q))

(* "Middleware runs outermost first ... and only wraps handlers of routes  *)
(* that matched" (Use): the middleware of each router above the route,     *)
(* once, and none around any kind of error handler.                        *)
MiddlewareWrapsMatches ==
    \A q \in Clean : \A a \in {Serve(q, TRUE)} :
      a.handler.through =
           IF a.handler.what \in {"route", "redirect"} THEN MiddlewareOf(a.route) ELSE << >>

(* Vars gives the handler the variables of its route's own template, the   *)
(* enclosing prefix included, whether they were captured at once or noted  *)
(* by the index and put in a map later.                                    *)
VariablesAreTheRoutes ==
    \A q \in Clean : \A a \in {Serve(q, TRUE)} :
      a.handler.what = "route" =>
           a.vars = Bound(<< >>, Bindings(RouteAt(a.route).path.segs, q.path))

(* What CORSMethodMiddleware announces for a request is every method under *)
(* which a route with a method filter would accept it, and no other.       *)
AnnouncedMethodsAreServed ==
    \A q \in Clean :
      AllMethods(Root, q) =
        {method \in {r.method : r \in Requests} :
           \E i \in DOMAIN routes[Root] :
             /\ GetMethods(routes[Root][i]) # {}
             /\ Accepted(routes[Root][i], [q EXCEPT !.method = method])}
=============================================================================
