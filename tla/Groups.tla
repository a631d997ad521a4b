------------------------------- MODULE Groups -------------------------------
(***************************************************************************)
(* Groups, mounts and middleware (group.go, mount.go): how the prefixes,   *)
(* hosts and middleware of nested groups reach the routes, and what the    *)
(* table of RouteTable then answers.                                       *)
(*                                                                         *)
(* A text is a sequence of "/" and of what stands between slashes.  Groups *)
(* and routes are referred to by the order of their creation, middleware   *)
(* by the order of the calls that added it; group 0 is the one that Router *)
(* and Builder make for a call of their own.  Calls come one at a time, as *)
(* the documentation demands, but a Mount is two of them.                  *)
(***************************************************************************)
EXTENDS RouteTable

CONSTANTS
    GroupPaths,  \* what Group may be given
    HostLists,   \* what Host and WithHost may be given
    Priorities,  \* what WithPriority may be given
    Patterns,    \* what Handle may be given
    Methods,     \* with which methods
    MountPoints, \* what Mount may be given
    Placeholder, \* the wildcard each "{...}" in a text stands for
    MaxGroups,   \* bound: groups created
    MaxUses,     \* bound: middleware added
    Budget       \* bound: groups, middleware, registrations and their
                 \* options together, the last two count as two each

ASSUME TextsAssumption == GroupPaths \cup Patterns \cup MountPoints \subseteq Seq(STRING)

VARIABLES
    groups,     \* every Group: parent, prefix, hosts, own middleware
    routerMw,   \* Router.mw
    builderMw,  \* Builder.mw
    scopes,     \* history: what each middleware was added to
    under,      \* Route.group of each route, and its own middleware
    mounting,   \* the second half of a Mount that is under way, with its options
    mounts,     \* history: the prefix of each Mount and its routes
    live,       \* whether a router owns the builder (adopt)
    compiled    \* the chains of the router's table, NotCompiled if dropped

groupVars == <<groups, routerMw, builderMw, scopes, under>>
vars == <<tableVars, groupVars, mounting, mounts, live, compiled>>

NotCompiled == << >>        \* a table is <<[chains, misses]>>
Inherited == [form |-> Malformed, text |-> << >>]   \* no WithHost

(* The options of a registration that decide which requests it answers.    *)
Options == [hosts : HostLists \cup {<<Inherited>>}, priority : Priorities \cup {DefaultPriority}]

-----------------------------------------------------------------------------
(* Texts *)

StartsInSlash(text) == text # << >> /\ Head(text) = "/"
EndsInSlash(text) == text # << >> /\ Last(text) = "/"

JoinPrefix(prefix, pattern) ==
    IF prefix = << >> THEN pattern
    ELSE IF pattern \in {<< >>, <<"/">>} THEN prefix
    ELSE (CASE EndsInSlash(prefix) /\ StartsInSlash(pattern) -> Front(prefix)
            [] ~EndsInSlash(prefix) /\ ~StartsInSlash(pattern) -> Append(prefix, "/")
            [] OTHER -> prefix)
         \o pattern

(* parsePattern: no segments at all without a leading slash.               *)
Segment(t) == IF t \in DOMAIN Placeholder THEN Placeholder[t] ELSE Lit(t)

TemplateStep(segs, t) ==
    IF t = "/" THEN Append(segs, Lit("")) ELSE Append(Front(segs), Segment(t))

TemplateOf(text) ==
    IF StartsInSlash(text) THEN FoldLeft(TemplateStep, << >>, text) ELSE << >>

TrimSlashes(text) ==
    LET named == {i \in DOMAIN text : text[i] # "/"}
    IN IF named = {} THEN << >> ELSE SubSeq(text, 1, Max(named))

MountParam == "{mount...}"

(* Deviation: slashes at the end of the prefix are left there.             *)
MountPatternsUntrimmed(prefix) ==
    LET rooted == IF StartsInSlash(prefix) THEN prefix ELSE <<"/">> \o prefix
    IN [self |-> rooted, sub |-> rooted \o <<"/", MountParam>>]

MountPatterns(prefix) ==
    LET trimmed == TrimSlashes(prefix)
        rooted == IF trimmed = << >> \/ StartsInSlash(trimmed) THEN trimmed
                                                              ELSE <<"/">> \o trimmed
    IN [self |-> IF rooted = << >> THEN <<"/">> ELSE rooted,
        sub |-> rooted \o <<"/", MountParam>>]

-----------------------------------------------------------------------------
(* Groups and what compile makes of them *)

Root == [parent |-> 0, prefix |-> << >>, hosts |-> << >>, own |-> << >>, declares |-> FALSE]
GroupAt(g) == IF g = 0 THEN Root ELSE groups[g]
Groups == 0 .. Len(groups)

(* Deviation: a group's own middleware goes around that of its ancestors.  *)
chainToInsideOut ==
    LET to[g \in Groups] == IF g = 0 THEN << >> ELSE groups[g].own \o to[groups[g].parent]
    IN to

chainTo ==
    LET to[g \in Groups] == IF g = 0 THEN << >> ELSE to[groups[g].parent] \o groups[g].own
    IN to

compile ==
    [chains |-> [i \in DOMAIN routes |->
                   routerMw \o builderMw \o chainTo[under[i].group] \o under[i].own],
     misses |-> routerMw \o builderMw]

(* The middleware that is added next.                                      *)
NextMw == Len(scopes) + 1
Urgent == {i \in DOMAIN routes : routes[i].priority # DefaultPriority}
Hosted == {i \in DOMAIN under : under[i].withHost}
Spent == Len(groups) + Len(scopes)
         + 2 * (Len(routes) + errs + Cardinality(Urgent) + Cardinality(Hosted))
MoreCalls == Spent < Budget
Added(scope) == NextMw <= MaxUses /\ scopes' = Append(scopes, scope)
Brings(own, scope) == IF own = << >> THEN UNCHANGED scopes ELSE Added(scope)
OfRouter == [kind |-> "router", of |-> 0]
OfBuilder == [kind |-> "builder", of |-> 0]
OfGroup(g) == [kind |-> "group", of |-> g]
OfRoute(i) == [kind |-> "route", of |-> i]

-----------------------------------------------------------------------------
Init ==
    /\ TableInit
    /\ groups = << >> /\ routerMw = << >> /\ builderMw = << >>
    /\ scopes = << >> /\ under = << >>
    /\ mounting = << >> /\ mounts = << >>
    /\ live \in BOOLEAN /\ compiled = NotCompiled

NewGroup(p, prefix, own) ==
    /\ MoreCalls /\ Len(groups) < MaxGroups
    /\ Brings(own, OfGroup(Len(groups) + 1))
    /\ groups' = Append(groups,
         [parent |-> p, prefix |-> JoinPrefix(GroupAt(p).prefix, prefix),
          hosts |-> GroupAt(p).hosts, own |-> own, declares |-> FALSE])
    /\ UNCHANGED <<tableVars, routerMw, builderMw, under, mounting, mounts, live, compiled>>

(* Deviation: a host group starts over at the root.                        *)
HostUnprefixed(p, hosts) ==
    /\ MoreCalls /\ Len(groups) < MaxGroups
    /\ groups' = Append(groups, [parent |-> p, prefix |-> << >>, hosts |-> hosts,
                                 own |-> << >>, declares |-> TRUE])
    /\ UNCHANGED <<tableVars, routerMw, builderMw, scopes, under, mounting, mounts,
                   live, compiled>>

Host(p, hosts) ==
    /\ MoreCalls /\ Len(groups) < MaxGroups
    /\ groups' = Append(groups, [parent |-> p, prefix |-> GroupAt(p).prefix, hosts |-> hosts,
                                 own |-> << >>, declares |-> TRUE])
    /\ UNCHANGED <<tableVars, routerMw, builderMw, scopes, under, mounting, mounts,
                   live, compiled>>

RouterUse ==
    /\ live /\ MoreCalls /\ Added(OfRouter)
    /\ routerMw' = Append(routerMw, NextMw)
    /\ compiled' = NotCompiled
    /\ UNCHANGED <<tableVars, groups, builderMw, under, mounting, mounts, live>>

(* Builder.Use drops no table: it is for builders no router owns yet.      *)
BuilderUse ==
    /\ ~live /\ MoreCalls /\ Added(OfBuilder)
    /\ builderMw' = Append(builderMw, NextMw)
    /\ UNCHANGED <<tableVars, groups, routerMw, under, mounting, mounts, live, compiled>>

(* invalidate is there once a router owns the builder; before, there is no *)
(* table to drop.                                                          *)
GroupUse(g) ==
    /\ MoreCalls /\ Added(OfGroup(g))
    /\ groups' = [groups EXCEPT ![g].own = Append(@, NextMw)]
    /\ compiled' = NotCompiled
    /\ UNCHANGED <<tableVars, routerMw, builderMw, under, mounting, mounts, live>>

Accepted == routes' # routes

(* The registration that a group makes of a call to it.                    *)
Declared(g, method, text, opts) ==
    [method |-> method, segs |-> TemplateOf(JoinPrefix(GroupAt(g).prefix, text)),
     hosts |-> IF opts.hosts = <<Inherited>> THEN GroupAt(g).hosts ELSE opts.hosts,
     priority |-> opts.priority, name |-> NoName]

(* Deviation: invalidate is not called.                                    *)
RegisteredUnseen(g, method, text, opts, own) ==
    /\ Handle(Declared(g, method, text, opts))
    /\ under' = IF Accepted
                THEN Append(under, [group |-> g, own |-> own, withHost |-> opts.hosts # <<Inherited>>])
                ELSE under
    /\ UNCHANGED compiled

(* Group.Handle.  A refused call leaves the table alone, only Router.Handle *)
(* drops it all the same.                                                  *)
Registered(g, method, text, opts, own) ==
    /\ Handle(Declared(g, method, text, opts))
    /\ under' = IF Accepted
                THEN Append(under, [group |-> g, own |-> own, withHost |-> opts.hosts # <<Inherited>>])
                ELSE under
    /\ compiled' = IF Accepted \/ g = 0 THEN NotCompiled ELSE compiled

HandleIn(g, method, text, opts, own) ==
    /\ MoreCalls
    /\ Registered(g, method, text, opts, own)
    /\ own # << >> => Accepted
    /\ Brings(own, OfRoute(Len(routes) + 1))
    /\ UNCHANGED <<groups, routerMw, builderMw, mounting, mounts, live>>

(* Both halves of a Mount get its options.                                 *)
MountSelf(g, prefix, opts) ==
    /\ MoreCalls /\ mounting = << >>
    /\ Registered(g, MethodAny, MountPatterns(prefix).self, opts, << >>)
    /\ mounting' = IF Accepted
                   THEN <<[group |-> g, sub |-> MountPatterns(prefix).sub, opts |-> opts]>>
                   ELSE << >>
    /\ mounts' = IF Accepted THEN Append(mounts, [self |-> Len(routes'), sub |-> NoRoute])
                             ELSE mounts
    /\ UNCHANGED <<groups, routerMw, builderMw, scopes, live>>

MountSub ==
    /\ mounting # << >>
    /\ Registered(mounting[1].group, MethodAny, mounting[1].sub, mounting[1].opts, << >>)
    /\ mounting' = << >>
    /\ mounts' = IF Accepted THEN [mounts EXCEPT ![Len(mounts)].sub = Len(routes')]
                             ELSE mounts
    /\ UNCHANGED <<groups, routerMw, builderMw, scopes, live>>

(* Deviation: Swap asks its callback only, not the builder, for an error.  *)
InstallUnchecked ==
    /\ ~live /\ mounting = << >>
    /\ live' = TRUE /\ compiled' = <<compile>>
    /\ UNCHANGED <<tableVars, groupVars, mounting, mounts>>

(* Swap, once its callback has returned.                                   *)
Install ==
    /\ ~live /\ mounting = << >> /\ errs = 0
    /\ live' = TRUE /\ compiled' = <<compile>>
    /\ UNCHANGED <<tableVars, groupVars, mounting, mounts>>

(* The next request compiles what was dropped.                             *)
Recompile ==
    /\ live /\ compiled = NotCompiled
    /\ compiled' = <<compile>>
    /\ UNCHANGED <<tableVars, groupVars, mounting, mounts, live>>

Next ==
    \/ \E g \in Groups, prefix \in GroupPaths, own \in {<< >>, <<NextMw>>} :
          NewGroup(g, prefix, own)
    \/ \E g \in Groups, hosts \in HostLists : Host(g, hosts)
    \/ \E g \in Groups \ {0} : GroupUse(g)
    \/ \E g \in Groups, m \in Methods, text \in Patterns,
          opts \in Options, own \in {<< >>, <<NextMw>>} :
          HandleIn(g, m, text, opts, own)
    \/ \E g \in Groups, prefix \in MountPoints, opts \in Options : MountSelf(g, prefix, opts)
    \/ RouterUse \/ BuilderUse \/ MountSub \/ Install \/ Recompile

GroupSpec == Init /\ [][Next]_vars

-----------------------------------------------------------------------------
(* Properties.                                                             *)

(* Groups form a tree, every route is in one of them, and a compiled table *)
(* has a chain for every route.                                            *)
TypeOK ==
    /\ \A g \in DOMAIN groups : groups[g].parent \in 0 .. g - 1
    /\ DOMAIN under = DOMAIN routes
    /\ \A i \in DOMAIN under : under[i].group \in Groups
    /\ \A t \in ToSet(compiled) : live /\ DOMAIN t.chains = DOMAIN routes

(* The groups around route i, itself included: those whose set contains,   *)
(* with a group, its parent.                                               *)
Around(i) ==
    LET closed == {S \in SUBSET Groups : under[i].group \in S
                                          /\ \A g \in S : GroupAt(g).parent \in S}
    IN {g \in Groups : \A S \in closed : g \in S}

Covers(scope, i) ==
    CASE scope.kind \in {"router", "builder"} -> TRUE
      [] scope.kind = "group" -> scope.of \in Around(i)
      [] scope.kind = "route" -> scope.of = i

(* How far inside a scope is; a group is older than the groups inside it.  *)
Depth(scope) ==
    CASE scope.kind = "router" -> <<0, 0>> [] scope.kind = "builder" -> <<1, 0>>
      [] scope.kind = "group" -> <<2, scope.of>> [] scope.kind = "route" -> <<3, 0>>

WrappedBy(chain, covering) ==
    /\ ToSet(chain) = covering
    /\ \A x, y \in DOMAIN chain : x < y =>
         \/ Outranks(Depth(scopes[chain[y]]), Depth(scopes[chain[x]]))
         \/ scopes[chain[y]] = scopes[chain[x]] /\ chain[x] < chain[y]

(* A request passes exactly the middleware whose scope covers its route,   *)
(* from the widest scope to the narrowest and within one in the order of   *)
(* the calls, wherever those came among the registrations (group.go, the   *)
(* comments on Group and Group.Use); a miss passes the router's and the    *)
(* builder's.                                                              *)
MiddlewareFollowsScope ==
    \A t \in ToSet(compiled) :
      /\ \A i \in DOMAIN routes :
           WrappedBy(t.chains[i], {m \in DOMAIN scopes : Covers(scopes[m], i)})
      /\ WrappedBy(t.misses, {m \in DOMAIN scopes : scopes[m].kind \in {"router", "builder"}})

(* What a group or mount prefix stands for: its segments, a trailing slash *)
(* aside.                                                                  *)
SegmentsOf(segs) == IF segs # << >> /\ Last(segs) = Lit("") THEN Front(segs) ELSE segs

(* A route's template begins with the prefix of every group around it, on  *)
(* a segment boundary, and its hosts are those declared nearest to it:     *)
(* nothing moves a route out of its group (group.go, Group.Host).          *)
Nearest(i) == {g \in Around(i) : GroupAt(g).declares}

RoutesStayInTheirGroups ==
    \A i \in DOMAIN routes :
      /\ \A g \in Around(i) :
           IsPrefix(SegmentsOf(TemplateOf(GroupAt(g).prefix)), routes[i].segs)
      /\ under[i].withHost \/
           routes[i].hosts = IF Nearest(i) = {} THEN << >>
                             ELSE groups[Max(Nearest(i))].hosts

(* A complete Mount answers every request at or below its prefix, on its   *)
(* hosts and whatever the method, unless another route overrules it, and   *)
(* no request outside, not even "/apiary" for "/api" (mount.go, the        *)
(* comment on Router.Mount).  What overrules a route: a lower priority of  *)
(* the pattern, at equal priority a more specific pattern, and in one      *)
(* pattern the host that goes first, or on one host the method itself.     *)
Below(prefix, path) ==
    Len(path) >= Len(prefix) /\ PathMatches(prefix, SubSeq(path, 1, Len(prefix)))

Owns(self, q) ==
    Below(SegmentsOf(routes[self].segs), q.path) /\ Admitting(routes[self], q) # {}

Overrules(i, j, q) ==
    LET x == routes[i].segs
        y == routes[j].segs
        g == BestHost(routes, i, q)
        h == BestHost(routes, j, q)
    IN \/ PriorityOf(routes, i) < PriorityOf(routes, j)
       \/ PriorityOf(routes, i) = PriorityOf(routes, j) /\ MoreSpecific(x, y)
       \/ SamePattern(x, y) /\ g # h /\ HostBefore(routes, i, g, h)
       \/ SamePattern(x, y) /\ g = h
            /\ MethodRank(routes[i].method, q.method) > MethodRank(routes[j].method, q.method)

MountKeeps(self, sub, found, q) ==
    /\ Owns(self, q) /\ found \notin {self, sub} =>
         /\ found # NoRoute
         /\ \A half \in {self, sub} : Serves(routes[half], q) => Overrules(found, half, q)
    /\ found \in {self, sub} =>
         /\ Owns(self, q)
         /\ \A i \in DOMAIN routes : Serves(routes[i], q) => ~Overrules(i, found, q)

MountsOwnTheirSubtree ==
    \A M \in ToSet(mounts) : M.sub # NoRoute =>
      \A q \in Arrived : MountKeeps(M.self, M.sub, Find(q).route, q)

(* What is assumed of the constants to prove it.  Nested[n] are prefixes   *)
(* of groups inside n others; every call that a group makes is one of      *)
(* Calls, and no text is taken for the blank behind a slash.               *)
PrefixesNest(Nested) ==
    /\ << >> \in Nested[0]
    /\ \A n \in 1 .. MaxGroups : \A p \in Nested[n - 1] :
         p \in Nested[n] /\ \A t \in GroupPaths : JoinPrefix(p, t) \in Nested[n]

Texts == Patterns \cup UNION {{MountPatterns(p).self, MountPatterns(p).sub} : p \in MountPoints}

CallsUnder(prefix) ==
    [method : Methods \cup {MethodAny}, segs : {TemplateOf(JoinPrefix(prefix, t)) : t \in Texts},
     hosts : HostLists \cup {<< >>}, priority : Priorities \cup {DefaultPriority},
     name : {NoName}]

CallsListed(Nested) == \A p \in Nested[MaxGroups] : CallsUnder(p) \subseteq Calls

TextsAreNamed ==
    /\ Segment(MountParam).kind = "catchAll"
    /\ \A text \in GroupPaths \cup MountPoints : \A i \in DOMAIN text :
         text[i] # "/" => Segment(text[i]) # Lit("")

(* A table with half a Mount in it, its other half refused and the error   *)
(* ignored, is never installed by Swap.                                    *)
NoHalfMountInstalled ==
    [][live' # live => \A M \in ToSet(mounts) : M.sub # NoRoute]_vars
=============================================================================
