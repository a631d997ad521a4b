----------------------------- MODULE RouteTable -----------------------------
(***************************************************************************)
(* The route table: registration (Group.handle in group.go, the entries    *)
(* and host variants of table.go) and lookup (table.find, table.allowed).  *)
(*                                                                         *)
(* A registration call is a record of what Handle was given: method,       *)
(* template, host patterns, priority and name.  A request has a path, a    *)
(* method, a Host header and the host that its target names, which is      *)
(* seldom there; what the two ask for is there for RoutingRule only.       *)
(* Entries and routes are referred to by their position in Builder.entries *)
(* and Builder.routes.                                                     *)
(***************************************************************************)
EXTENDS RoutingRule, Integers

CONSTANTS
    Calls,      \* the registration calls that may be made
    Requests,   \* the requests the table is asked about
    MaxRoutes,  \* bound: registrations accepted
    MaxErrs,    \* bound: registrations refused
    SpecDepth   \* specDepth of route.go: segments compared for specificity

(* What is registered.  parsePattern gives no wildcard a check, and only a *)
(* catch-all a type.                                                       *)
Seg == [kind : {"static", "param"}, text : STRING, type : {""}]
       \cup [kind : {"catchAll"}, text : STRING, type : {"..."}]
Form == [kind : STRING, labels : Seq(Seq(STRING)), name : STRING, port : Seq(STRING)]
Registration == [method : STRING, segs : Seq(Seg), priority : Int, name : STRING,
                 hosts : Seq([form : Form, text : Seq(STRING)])]

ASSUME CallsAssumption == Calls \subseteq Registration
ASSUME BoundAssumption == MaxErrs \in Nat /\ SpecDepth \in Nat

VARIABLES
    static,     \* Builder.static: entry of each fully static template
    tree,       \* Builder.tree, over the other templates
    entries,    \* Builder.entries
    routes,     \* Builder.routes
    errs        \* how many errors Builder.errs holds

tableVars == <<static, tree, entries, routes, errs>>

MethodAny == "*"
DefaultPriority == 0
NoRoute == 0

-----------------------------------------------------------------------------
(* Templates *)

(* A static template is itself a path.                                     *)
AsPath(segs) == [i \in DOMAIN segs |-> segs[i].text]

Wildcards(segs) == {i \in DOMAIN segs : segs[i].kind # "static"}
Names(segs) == {segs[i].text : i \in Wildcards(segs)}

(* parsePattern: there is a leading slash, names are unique and a          *)
(* catch-all comes last.  (A template without the slash has no segments.)  *)
WellFormed(segs) ==
    /\ segs # << >>
    /\ \A i, j \in Wildcards(segs) : i # j => segs[i].text # segs[j].text
    /\ \A i \in DOMAIN segs : segs[i].kind = "catchAll" => i = Len(segs)

(* patternKey: what is left of a template without its parameter names.     *)
Key(segs) == [i \in DOMAIN segs |-> Label(segs[i])]

SameNames(segs, other) ==
    \A i \in Wildcards(segs) : segs[i].text = other[i].text

(* specificity: one rank per position, the first difference decides.       *)
Rank(segs, i) ==
    IF i > Len(segs) THEN 2
    ELSE CASE segs[i].kind = "static" -> 5
           [] segs[i].kind = "param" -> IF Checked(segs[i]) THEN 4 ELSE 3
           [] segs[i].kind = "catchAll" -> 1
Specificity(segs) == [i \in 1 .. SpecDepth |-> Rank(segs, i)]

-----------------------------------------------------------------------------
(* Entries and their host variants *)

EveryHost == Pattern("any", NoName, << >>, << >>, NoPort)

(* An unconstrained route and an explicit "*" are the same variant, and    *)
(* that variant has no port.                                               *)
HostOf(p) == IF p.kind = "any" /\ p.name = NoName THEN EveryHost ELSE p

Compiled(call) == CompileHosts([i \in DOMAIN call.hosts |-> call.hosts[i].text])

HostsOf(call) ==
    IF call.hosts = << >> THEN <<EveryHost>>
    ELSE LET pats == Compiled(call).pats
         IN [i \in DOMAIN pats |-> HostOf(pats[i])]

Bucket(h) ==
    CASE h = EveryHost -> "plain"
      [] h.kind = "exact" /\ h.port # NoPort -> "ported"
      [] h.kind = "exact" /\ h.port = NoPort -> "exact"
      [] OTHER -> "wild"

Buckets == {"ported", "exact", "wild", "plain"}
NoVariants == [b \in Buckets |-> << >>]

(* eachVariant, in the order resolve consults them.                        *)
Variants(e) ==
    e.hosts["ported"] \o e.hosts["exact"] \o e.hosts["wild"] \o e.hosts["plain"]
HasHosts(e) == \E v \in ToSet(Variants(e)) : v.host # EveryHost

(* lookupVariant: whether a variant exists and already has the method.     *)
Taken(e, h, method) ==
    \E v \in ToSet(Variants(e)) : v.host = h /\ method \in DOMAIN v.byMethod

(* insertVariant: by decreasing score, then by registration.               *)
InsertVariant(vs, v) ==
    InsertBehind(vs, {i \in DOMAIN vs : ~Outranks(Score(v.host), Score(vs[i].host))}, v)

(* variantFor(h).byMethod[method] = rt                                     *)
File(e, h, method, rt) ==
    LET vs == e.hosts[Bucket(h)]
        filed == IF \E v \in ToSet(vs) : v.host = h
                 THEN [i \in DOMAIN vs |->
                         IF vs[i].host = h
                         THEN [vs[i] EXCEPT !.byMethod = With(@, method, rt)]
                         ELSE vs[i]]
                 ELSE InsertVariant(vs, [host |-> h, byMethod |-> [m \in {method} |-> rt]])
    IN [e EXCEPT !.hosts[Bucket(h)] = filed]

-----------------------------------------------------------------------------
(* Registration *)

TableInit ==
    /\ static = << >> /\ tree = EmptyTree
    /\ entries = << >> /\ routes = << >> /\ errs = 0

EntryFor(segs) == {i \in DOMAIN entries : Key(entries[i].segs) = Key(segs)}

HostNames(call) == {p.name : p \in ToSet(Compiled(call).pats)} \ {NoName}

(* Deviation: hosts that cannot be read are no reason to refuse.           *)
ValidUnread(call) ==
    /\ WellFormed(call.segs)
    /\ HostNames(call) \cap Names(call.segs) = {}
    /\ call.name = NoName \/ \A r \in ToSet(routes) : r.name # call.name
    /\ \A i \in EntryFor(call.segs) :
         /\ SameNames(entries[i].segs, call.segs)
         /\ \A h \in ToSet(HostsOf(call)) : ~Taken(entries[i], h, call.method)

(* The checks of handle that come before anything is changed.              *)
Valid(call) ==
    /\ WellFormed(call.segs)
    /\ Compiled(call).ok
    /\ HostNames(call) \cap Names(call.segs) = {}
    /\ call.name = NoName \/ \A r \in ToSet(routes) : r.name # call.name
    /\ \A i \in EntryFor(call.segs) :
         /\ SameNames(entries[i].segs, call.segs)
         /\ \A h \in ToSet(HostsOf(call)) : ~Taken(entries[i], h, call.method)

Filed(e, call) ==
    FoldLeft(LAMBDA acc, h : File(acc, h, call.method, Len(routes) + 1),
             e, HostsOf(call))

Record(call) == routes' = Append(routes, call)

Refuse == errs' = errs + 1 /\ errs < MaxErrs /\ UNCHANGED <<static, entries, routes>>

(* An entry is as urgent as the most urgent of its routes.                 *)
Urged(e, priority) ==
    [e EXCEPT !.priority = IF priority < e.priority THEN priority ELSE e.priority]

(* A template the table already has: the entry gains a route and, if the   *)
(* call asks for it, urgency.                                              *)
AddToEntry(call) ==
    /\ Len(routes) < MaxRoutes /\ Valid(call)
    /\ \E i \in EntryFor(call.segs) :
         entries' = [entries EXCEPT ![i] = Urged(Filed(@, call), call.priority)]
    /\ Record(call)
    /\ UNCHANGED <<static, tree, errs>>

NewEntry(call) ==
    Append(entries, Filed([segs |-> call.segs, priority |-> call.priority,
                           hosts |-> NoVariants], call))

(* Deviation: a static route is recorded but not indexed.                  *)
AddStaticUnindexed(call) ==
    /\ Len(routes) < MaxRoutes /\ Valid(call)
    /\ EntryFor(call.segs) = {} /\ Wildcards(call.segs) = {}
    /\ entries' = NewEntry(call)
    /\ Record(call)
    /\ UNCHANGED <<static, tree, errs>>

AddStatic(call) ==
    /\ Len(routes) < MaxRoutes /\ Valid(call)
    /\ EntryFor(call.segs) = {} /\ Wildcards(call.segs) = {}
    /\ static' = With(static, AsPath(call.segs), Len(entries) + 1)
    /\ entries' = NewEntry(call)
    /\ Record(call)
    /\ UNCHANGED <<tree, errs>>

(* Deviation: the entry is listed before the tree has taken it.            *)
AddToTreeEagerly(call) ==
    /\ Valid(call)
    /\ EntryFor(call.segs) = {} /\ Wildcards(call.segs) # {}
    /\ LET ins == Insert(tree, call.segs, Len(entries) + 1)
       IN /\ tree' = ins.tree
          /\ entries' = NewEntry(call)
          /\ \/ /\ ins.ok /\ Len(routes) < MaxRoutes
                /\ Record(call)
                /\ UNCHANGED <<static, errs>>
             \/ /\ ~ins.ok /\ errs < MaxErrs
                /\ errs' = errs + 1 /\ UNCHANGED <<static, routes>>

(* The tree has the last word: it refuses a template that names a position *)
(* differently from one that shares the way there.                         *)
AddToTree(call) ==
    /\ Valid(call)
    /\ EntryFor(call.segs) = {} /\ Wildcards(call.segs) # {}
    /\ LET ins == Insert(tree, call.segs, Len(entries) + 1)
       IN /\ tree' = ins.tree
          /\ \/ /\ ins.ok /\ Len(routes) < MaxRoutes
                /\ entries' = NewEntry(call)
                /\ Record(call)
                /\ UNCHANGED <<static, errs>>
             \/ ~ins.ok /\ Refuse

RefuseInvalid(call) == ~Valid(call) /\ Refuse /\ UNCHANGED tree

Handle(call) ==
    AddToEntry(call) \/ AddStatic(call) \/ AddToTree(call) \/ RefuseInvalid(call)

TableSpec == TableInit /\ [][\E call \in Calls : Handle(call)]_tableVars

-----------------------------------------------------------------------------
(* Lookup *)

(* A request as find sees it.                                              *)
Arrive(q) == RequestAuthority(q.authority, q.target) @@ q
Arrived == {Arrive(q) : q \in Requests}

(* Deviation: GET routes do not answer HEAD.                               *)
RouteInWithoutHead(v, method) ==
    CASE method \in DOMAIN v.byMethod -> v.byMethod[method]
      [] OTHER -> IF MethodAny \in DOMAIN v.byMethod
                  THEN v.byMethod[MethodAny] ELSE NoRoute

(* hostVariant.route: the method itself, then HEAD by GET, then any.       *)
RouteIn(v, method) ==
    CASE method \in DOMAIN v.byMethod -> v.byMethod[method]
      [] method \notin DOMAIN v.byMethod /\ method = "HEAD"
           /\ "GET" \in DOMAIN v.byMethod -> v.byMethod["GET"]
      [] OTHER -> IF MethodAny \in DOMAIN v.byMethod
                  THEN v.byMethod[MethodAny] ELSE NoRoute

(* pathEntry.resolve: the first variant that accepts the host and serves   *)
(* the method; hostOK says that one accepted the host at all.              *)
Resolve(e, q) ==
    LET vs == Variants(e)
        accepts(v) == Matches(v.host, q.host, q.port)
        i == SelectInSeq(vs, LAMBDA v : accepts(v) /\ RouteIn(v, q.method) # NoRoute)
    IN [hostOK |-> ~HasHosts(e) \/ \E v \in ToSet(vs) : accepts(v),
        route |-> IF i = 0 THEN NoRoute ELSE RouteIn(vs[i], q.method),
        params |-> IF i = 0 THEN << >> ELSE Captures(vs[i].host, q.host)]

(* candidateLess; an entry's position is the order of its registration.    *)
Precedes(x, y) ==
    LET ex == entries[x]
        ey == entries[y]
    IN \/ ex.priority < ey.priority
       \/ /\ ex.priority = ey.priority
          /\ \/ Outranks(Specificity(ex.segs), Specificity(ey.segs))
             \/ Specificity(ex.segs) = Specificity(ey.segs) /\ x < y

Miss(pathMatched) == [route |-> NoRoute, params |-> << >>, pathMatched |-> pathMatched]
Hit(route, params) == [route |-> route, params |-> params, pathMatched |-> TRUE]

(* A candidate answers if it has a route for the host and method, and its  *)
(* parameters can be extracted.                                            *)
Usable(i, q) == Resolve(entries[i], q).route # NoRoute /\ Extract(entries[i].segs, q.path).ok

Answer(i, q) == Hit(Resolve(entries[i], q).route,
                    Resolve(entries[i], q).params
                      \o Extract(entries[i].segs, q.path).params)

(* sortCandidates and the loop over them: the first that answers.          *)
Foremost(usable) == CHOOSE i \in usable : \A j \in usable \ {i} : Precedes(i, j)

(* Deviation: any candidate makes a miss a 405, whatever its host.         *)
FirstInOnAnyHost(candidates, q) ==
    LET usable == {i \in candidates : Usable(i, q)}
    IN IF usable # {} THEN Answer(Foremost(usable), q) ELSE Miss(candidates # {})

FirstIn(candidates, q) ==
    LET usable == {i \in candidates : Usable(i, q)}
    IN IF usable # {} THEN Answer(Foremost(usable), q)
       ELSE Miss(\E i \in candidates : Resolve(entries[i], q).hostOK)

Seed(path) == IF path \in DOMAIN static THEN {static[path]} ELSE {}
Candidates(path) == Seed(path) \cup Collect(tree, path)

SlowPath(q) == FirstIn(Candidates(q.path), q)

(* Deviation: the most specific pattern has the last word.                 *)
IfServedIsFinal(found, params) ==
    <<IF found.route = NoRoute THEN Miss(TRUE)
      ELSE Hit(found.route, found.params \o params)>>

(* A static hit or the tree's own best match answers at once, unless it    *)
(* does not serve the host and method; a path the tree does not match is a *)
(* miss.  << >> when nothing is decided.                                   *)
IfServed(found, params) ==
    IF found.route = NoRoute THEN << >>
    ELSE <<Hit(found.route, found.params \o params)>>

FromTree(best, q) ==
    IF best.ok THEN IfServed(Resolve(entries[best.value], q), best.params)
    ELSE <<Miss(FALSE)>>

FastPath(q) ==
    IF q.path \in DOMAIN static
    THEN IfServed(Resolve(entries[static[q.path]], q), << >>)
    ELSE IF Size(tree) > 0 THEN FromTree(Lookup(tree, q.path), q) ELSE << >>

(* Deviation: the fast paths are always open.                              *)
HasPriorityNever == FALSE

(* Priorities can put any candidate first, so a table with one has no fast *)
(* path.                                                                   *)
HasPriority == \E e \in ToSet(entries) : e.priority # DefaultPriority

OrElse(decided, other) == IF decided # << >> THEN Head(decided) ELSE other

(* table.find.                                                             *)
Find(q) == OrElse(IF HasPriority THEN << >> ELSE FastPath(q), SlowPath(q))

(* Deviation: the Allow header lists the methods of every host.            *)
AllowedOnAnyHost(q) ==
    LET methods == (UNION {DOMAIN v.byMethod :
                             v \in UNION {ToSet(Variants(entries[i])) :
                                            i \in Candidates(q.path)}})
                   \ {MethodAny}
    IN IF "GET" \in methods THEN methods \cup {"HEAD"} ELSE methods

(* table.allowed: the methods of every route of the path on this host.     *)
Allowed(q) ==
    LET on == {v \in UNION {ToSet(Variants(entries[i])) :
                              i \in Candidates(q.path)} :
                 Matches(v.host, q.host, q.port)}
        methods == (UNION {DOMAIN v.byMethod : v \in on}) \ {MethodAny}
    IN IF "GET" \in methods THEN methods \cup {"HEAD"} ELSE methods

-----------------------------------------------------------------------------
(* Properties.                                                             *)

(* The table's parts refer to each other: every template has one entry,    *)
(* found in one place of the static map or the tree, which hold nothing    *)
(* else; an entry holds only routes of its own template, and every route   *)
(* stays filed.                                                            *)
Reachable(i) ==
    LET segs == entries[i].segs
    IN IF Wildcards(segs) = {}
       THEN AsPath(segs) \in DOMAIN static /\ static[AsPath(segs)] = i
       ELSE Key(segs) \in DOMAIN tree /\ i \in ToSet(tree[Key(segs)].values)

FiledAs(i, m, r) ==
    \E v \in ToSet(Variants(entries[i])) : m \in DOMAIN v.byMethod /\ v.byMethod[m] = r

TableOK ==
    /\ \A i, j \in DOMAIN entries : Key(entries[i].segs) = Key(entries[j].segs) => i = j
    /\ \A i \in DOMAIN entries : Reachable(i)
    /\ Len(entries) = Cardinality(DOMAIN static) + Size(tree)
    /\ \A i \in DOMAIN entries : \A v \in ToSet(Variants(entries[i])) :
         \A m \in DOMAIN v.byMethod :
           /\ routes[v.byMethod[m]].method = m
           /\ Key(routes[v.byMethod[m]].segs) = Key(entries[i].segs)
    /\ \A r \in DOMAIN routes : \E i \in DOMAIN entries : FiledAs(i, routes[r].method, r)
    /\ errs \in 0 .. MaxErrs

(* Static map, tree, fast paths, slow path and host buckets together pick  *)
(* the route the rule picks, and capture what it captures, whatever the    *)
(* order of registration.                                                  *)
IsBest(found, best, q) ==
    found.route = best /\ found.params = ParamsOf(routes, best, q)

FindsBestRoute == \A q \in Arrived : IsBest(Find(q), BestRoute(routes, q), q)

(* A request that no route serves is a 405 when some route has its path    *)
(* and host, and a 404 when none has.                                      *)
MissIsClassified ==
    \A q \in Arrived : Find(q).pathMatched <=> OnSomeRoute(routes, q)

(* The Allow header of a 405 lists exactly the methods that would have     *)
(* been served, and is never empty.                                        *)
Is405(found) == found.route = NoRoute /\ found.pathMatched

AllowIsExact ==
    \A q \in Arrived : Is405(Find(q)) =>
      Allowed(q) = ServedMethods(routes, q) /\ ServedMethods(routes, q) # {}

(* The last registration took requests only for itself, unless it made a   *)
(* pattern that had routes more urgent, and cost no request its answer.    *)
Urges ==
    LET earlier == Siblings(routes, Len(routes)) \ {Len(routes)}
    IN earlier # {} /\ \A i \in earlier : Last(routes).priority < routes[i].priority

StillAnswers(found, before) ==
    /\ before # NoRoute => found.route # NoRoute
    /\ found.route \in {before, Len(routes)} \/ Urges

AdditionsOnlyClaim ==
    routes # << >> =>
      \A q \in Arrived : StillAnswers(Find(q), BestRoute(Front(routes), q))

(* A refused registration leaves the table, the nodes of the tree          *)
(* included, exactly as it was (group.go, the comment before the duplicate *)
(* checks).                                                                *)
RefusedChangesNothing ==
    [][errs' # errs => UNCHANGED <<static, tree, entries, routes>>]_tableVars

(* What the table keeps of a pattern accepts what its form admits.  (Not   *)
(* so for a "*" with a port, which the table forgets.)                     *)
FormsRead(call, q) ==
    Compiled(call).ok =>
      \A h \in ToSet(call.hosts) :
        Matches(HostOf(ParseHostPattern(h.text)[1]), q.host, q.port) <=> FormAdmits(h.form, q.asked)

HostsRead(q) == \A call \in Calls : FormsRead(call, q)

(* Of the patterns that accept the request's host, those of one form are   *)
(* one, and they rank as their forms do and capture what these capture.    *)
Readings ==
    {<<EveryHost, Unconstrained>>}
    \cup UNION {{<<HostOf(ParseHostPattern(h.text)[1]), h.form>> : h \in ToSet(c.hosts)} :
                 c \in {c \in Calls : Compiled(c).ok}}

RankAlike(x, y) ==
    /\ x[1] = y[1] <=> x[2] = y[2]
    /\ Outranks(Score(x[1]), Score(y[1])) <=> Outranks(FormScore(x[2]), FormScore(y[2]))
    /\ Score(x[1]) = Score(y[1]) <=> FormScore(x[2]) = FormScore(y[2])

RanksRead(q) ==
    LET met == {x \in Readings : Matches(x[1], q.host, q.port)}
    IN \A x, y \in met :
         RankAlike(x, y) /\ Captures(x[1], q.host) = FormCaptures(x[2], q.asked)

(* No template is longer than what is compared of it.                      *)
WithinDepth == \A call \in Calls : Len(call.segs) <= SpecDepth

(* What a request says.                                                    *)
Asks(q) ==
    {"path", "method", "host", "port", "asked"} \subseteq DOMAIN q /\ q.path \in Seq(STRING)

(* Only documented forms are taken, and each is compiled into a pattern    *)
(* that accepts the hosts the form stands for, in any case, and captures   *)
(* what the form names (host.go, the comment on ValidateHost).             *)
MeansItsForm(h, q) ==
    LET parsed == ParseHostPattern(h.text)
    IN /\ parsed # << >> /\ h.form # Malformed
       /\ Matches(parsed[1], q.host, q.port) <=> FormAdmits(h.form, q.asked)
       /\ FormAdmits(h.form, q.asked) =>
            Captures(parsed[1], q.host) = FormCaptures(h.form, q.asked)

PatternsMeanTheirForms ==
    routes # << >> =>
      \A h \in ToSet(Last(routes).hosts) : \A q \in Arrived : MeansItsForm(h, q)

(* A route all of whose host patterns name a port is not served to a       *)
(* request on another port (host.go, the comment on ValidateHost).         *)
PortRespected ==
    \A q \in Arrived :
      LET i == Find(q).route
      IN i # NoRoute /\ routes[i].hosts # << >> =>
           \E f \in FormsOf(routes[i]) : f.port \in {NoPort, q.asked.port}
=============================================================================
