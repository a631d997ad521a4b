------------------------------- MODULE MuxURL -------------------------------
(***************************************************************************)
(* Building URLs for the routes of a muxcompat router and a subrouter      *)
(* (muxcompat/route.go, regexp.go), and what those routes make of the URLs *)
(* they built.                                                             *)
(*                                                                         *)
(* A route is built by a chain of calls in any order, each with the        *)
(* template as written; the templates themselves are in MuxTemplate.       *)
(***************************************************************************)
EXTENDS MuxTemplate, FiniteSetsExt

CONSTANTS
    Root, Inner,  \* the router New returns; the one Subrouter returns
    Calls,        \* the calls a route may get
    Transform(_, _), \* what the function of a BuildVarsFunc call does to values
    Given,        \* the values URL, URLHost and URLPath are given
    Escapes,      \* what the escapes in a query stand for
    Texts,        \* texts to match templates with
    MaxRoutes,    \* bound: routes in both routers
    MaxCalls      \* bound: calls in all

VARIABLES
    conf,    \* per router: what it hands down to its routes (routeConf)
    routes,  \* per router: its routes
    names,   \* namedRoutes, shared by both routers: name to route
    calls    \* history: the calls so far

vars == <<conf, routes, names, calls>>

Routers == {Root, Inner}
NoName == "none"

(* host and path are sequences of at most one template.                    *)
EmptyConf ==
    [host |-> << >>, path |-> << >>, queries |-> << >>, matchers |-> << >>,
     strict |-> FALSE, scheme |-> "", fns |-> << >>]
NewRouteOf(c) == c @@ [err |-> FALSE, name |-> NoName, nests |-> FALSE]
ConfOf(rt) == [f \in DOMAIN EmptyConf |-> rt[f]]

-----------------------------------------------------------------------------
(* addRegexpMatcher *)

TrimRight(text) == SubSeq(text, 1, SelectLastInSeq(text, LAMBDA c : c # "/"))

OnPath(kind) == kind \in {"path", "prefix"}
Whole(rt, tpl, kind) ==
    IF OnPath(kind) /\ rt.path # << >> THEN TrimRight(rt.path[1].raw) \o tpl ELSE tpl

NamesOf(t) == {t.vars[j].name : j \in DOMAIN t.vars}
UniqueVars(ts, t) == \A o \in ToSet(ts) : NamesOf(o) \cap NamesOf(t) = {}

(* Deviation: a host template is compared with the queries only.           *)
ClashesButPath(rt, t) ==
    ~UniqueVars(rt.queries, t) \/ (t.kind # "host" /\ ~UniqueVars(rt.host, t))

(* A query template is not compared with the path.                         *)
Clashes(rt, t) ==
    \/ ~UniqueVars(rt.queries, t)
    \/ t.kind = "host" /\ ~UniqueVars(rt.path, t)
    \/ t.kind # "host" /\ ~UniqueVars(rt.host, t)

Failed(rt) == [rt EXCEPT !.err = TRUE]
AddMatcher(rt, x) == IF rt.err THEN rt ELSE [rt EXCEPT !.matchers = Append(@, x)]

(* Only the latest host and path template are captured from and built.     *)
Installed(rt, t) ==
    [AddMatcher(rt, [kind |-> "template", template |-> t]) EXCEPT
       !.host = IF t.kind = "host" THEN <<t>> ELSE @,
       !.path = IF OnPath(t.kind) THEN <<t>> ELSE @,
       !.queries = IF t.kind = "query" THEN Append(@, t) ELSE @]

(* A capturing group panics, and the route is as it was.                   *)
AddTemplate(rt, tpl, kind) ==
    LET t == Parse(Whole(rt, tpl, kind), kind, rt.strict)
        unrooted == OnPath(kind) /\ tpl # << >> /\ Head(tpl) # "/"
    IN IF rt.err THEN rt
       ELSE IF unrooted THEN Failed(rt)
       ELSE IF t.error = "captures" THEN rt
       ELSE IF t.error = "refused" \/ Clashes(rt, t) THEN Failed(rt)
       ELSE Installed(rt, t)

(* One call of a route's chain.  Schemes and BuildVarsFunc ask for no      *)
(* error; an odd number of Queries arguments is one.                       *)
Configured(rt, c) ==
    CASE c.call \in {"host", "path", "prefix", "query"} ->
           FoldLeft(LAMBDA r, tpl : AddTemplate(r, tpl, c.call), rt, c.texts)
      [] c.call = "schemes" ->
           [AddMatcher(rt, [kind |-> "schemes", schemes |-> ToSet(c.schemes)])
              EXCEPT !.scheme = Head(c.schemes)]
      [] c.call = "vars" -> [rt EXCEPT !.fns = Append(@, c.fn)]
      [] c.call = "name" -> IF rt.name # NoName THEN Failed(rt)
                            ELSE [rt EXCEPT !.name = IF rt.err THEN @ ELSE c.name]
      [] c.call = "odd" -> Failed(rt)

-----------------------------------------------------------------------------
(* What a route reads from a request *)

(* findFirstQueryKey: the first decodable pair with the key.               *)
PairsOf(raw) ==
    FoldLeft(LAMBDA ps, c : IF c \in {"&", ";"} THEN Append(ps, << >>)
                            ELSE Append(Front(ps), Append(Last(ps), c)),
             << << >> >>, raw)
Decodable(text) == "%" \notin ToSet(text)
Unescape(text) ==
    [i \in DOMAIN text |-> IF text[i] \in DOMAIN Escapes THEN Escapes[text[i]] ELSE text[i]]

QueryValue(t, raw) ==
    LET key == Cut(t.raw, "=")[1]
        hit(p) == p # << >> /\ Decodable(p) /\ Unescape(Cut(p, "=")[1]) = key
        found == SelectSeq(PairsOf(raw), hit)
    IN IF found = << >> THEN << >>
       ELSE Append(key, "=") \o Unescape(Cut(Head(found), "=")[2])

(* A host template without a colon is matched without the port.            *)
MentionsPort(t) == \E i \in DOMAIN t.source : ":" \in ToSet(t.source[i].written)

Read(t, q) ==
    CASE t.kind = "host" -> IF MentionsPort(t) THEN q.host ELSE Cut(q.host, ":")[1]
      [] t.kind = "query" -> QueryValue(t, q.query)
      [] OTHER -> q.path

Holds(x, q) == IF x.kind = "schemes" THEN q.scheme \in x.schemes
               ELSE TemplateMatch(x.template, Read(x.template, q))

Matches(rt, q) == ~rt.err /\ \A x \in ToSet(rt.matchers) : Holds(x, q)

Templates(rt) == rt.host \o rt.path \o rt.queries

(* setMatch: the variables, and the redirect of strictSlash.               *)
Vars(rt, q) ==
    FoldLeft(LAMBDA f, t : Extract(t, Read(t, q)) @@ f, << >>, Templates(rt))

EndsInSlash(text) == text # << >> /\ Last(text) = "/"

(* Deviation: the slash is looked for in the trimmed template.             *)
RedirectedAsTrimmed(t, path) ==
    t.strict /\ EndsInSlash(path) # EndsInSlash(Last(t.source).written)

Redirected(t, path) == t.strict /\ EndsInSlash(path) # EndsInSlash(t.raw)

RedirectPath(path) == IF EndsInSlash(path) THEN Front(path) ELSE Append(path, "/")

-----------------------------------------------------------------------------
(* URL, URLHost, URLPath *)

NoURL == [ok |-> FALSE]
Built(ts, values) == FlattenSeq([i \in DOMAIN ts |-> Build(ts[i], values)])
AllBuildable(ts, values) == \A t \in ToSet(ts) : Buildable(t, values)

BuiltQuery(ts, values) ==
    FlattenSeq([i \in DOMAIN ts |-> (IF i = 1 THEN << >> ELSE <<"&">>) \o Build(ts[i], values)])

Scheme(rt) == IF rt.scheme = "" THEN "http" ELSE rt.scheme

Rendered(rt, values) ==
    IF rt.host \o rt.path = << >> \/ ~AllBuildable(Templates(rt), values) THEN NoURL
    ELSE [ok |-> TRUE, scheme |-> IF rt.host = << >> THEN "" ELSE Scheme(rt),
          host |-> Built(rt.host, values), path |-> Built(rt.path, values),
          query |-> BuiltQuery(rt.queries, values)]

(* prepareVars: the functions run in the order of their calls.             *)
Prepared(rt, values) == FoldLeft(LAMBDA v, fn : Transform(fn, v), values, rt.fns)

URL(rt, values) == IF rt.err THEN NoURL ELSE Rendered(rt, Prepared(rt, values))

URLHost(rt, values) ==
    IF rt.err \/ rt.host = << >> \/ ~AllBuildable(rt.host, Prepared(rt, values)) THEN NoURL
    ELSE [ok |-> TRUE, scheme |-> Scheme(rt), host |-> Built(rt.host, Prepared(rt, values))]

URLPath(rt, values) ==
    IF rt.err \/ rt.path = << >> \/ ~AllBuildable(rt.path, Prepared(rt, values)) THEN NoURL
    ELSE [ok |-> TRUE, path |-> Built(rt.path, Prepared(rt, values))]

-----------------------------------------------------------------------------
Init ==
    /\ conf = [k \in Routers |-> EmptyConf]
    /\ routes = [k \in Routers |-> << >>]
    /\ names = << >>
    /\ calls = 0

Counted == calls < MaxCalls /\ calls' = calls + 1
Exists(k) == k = Inner => \E i \in DOMAIN routes[Root] : routes[Root][i].nests
Open(k) == routes[k] # << >> /\ ~Last(routes[k]).nests
Leaf(k, i) == [router |-> k, at |-> i]

NewRoute(k) ==
    /\ Exists(k) /\ calls < MaxCalls
    /\ Len(routes[Root]) + Len(routes[Inner]) < MaxRoutes
    /\ routes' = [routes EXCEPT ![k] = Append(@, NewRouteOf(conf[k]))]
    /\ UNCHANGED <<conf, names, calls>>

(* Deviation: an error does not keep the name out of namedRoutes.          *)
ConfigureNamingAll(k, c) ==
    LET n == Len(routes[k])
    IN /\ Open(k) /\ Counted
       /\ routes' = [routes EXCEPT ![k][n] = Configured(@, c)]
       /\ names' = IF c.call = "name" THEN (c.name :> Leaf(k, n)) @@ names ELSE names
       /\ UNCHANGED conf

(* A call on the route created last, unless it has a subrouter.            *)
Configure(k, c) ==
    LET n == Len(routes[k])
        named == routes'[k][n].name # routes[k][n].name
    IN /\ Open(k) /\ Counted
       /\ routes' = [routes EXCEPT ![k][n] = Configured(@, c)]
       /\ names' = IF named THEN (c.name :> Leaf(k, n)) @@ names ELSE names
       /\ UNCHANGED conf

Subrouter ==
    LET n == Len(routes[Root])
    IN /\ Open(Root) /\ ~Exists(Inner)
       /\ conf' = [conf EXCEPT ![Inner] = ConfOf(routes[Root][n])]
       /\ routes' = [routes EXCEPT ![Root][n].nests = TRUE]
       /\ UNCHANGED <<names, calls>>

StrictSlash(k) ==
    /\ Exists(k) /\ ~conf[k].strict /\ Counted
    /\ conf' = [conf EXCEPT ![k].strict = TRUE]
    /\ UNCHANGED <<routes, names>>

Next ==
    \/ \E k \in Routers : NewRoute(k) \/ StrictSlash(k) \/ \E c \in Calls : Configure(k, c)
    \/ Subrouter

Spec == Init /\ [][Next]_vars

-----------------------------------------------------------------------------
(* Properties *)

Leaves == {rt \in UNION {ToSet(routes[k]) : k \in Routers} : ~rt.nests}

(* A name leads to a route that bears it, and every name borne leads       *)
(* somewhere, whatever failed on the way.                                  *)
TypeOK ==
    /\ \A n \in DOMAIN names : routes[names[n].router][names[n].at].name = n
    /\ \A rt \in UNION {ToSet(routes[k]) : k \in Routers} :
         rt.name # NoName => rt.name \in DOMAIN names

TemplatesOf(rt, kinds) ==
    {x.template : x \in {y \in ToSet(rt.matchers) : y.kind = "template"
                                                    /\ y.template.kind \in kinds}}

(* Whether the matchers a route inherits and its own ask for one host, one *)
(* scheme, paths that extend each other and different query keys, and no   *)
(* name is used twice: otherwise a route cannot match the URLs it builds,  *)
(* or reads a variable in another place than where it was put.             *)
Consistent(rt) ==
    /\ Cardinality(TemplatesOf(rt, {"host"})) <= 1
    /\ Cardinality({x \in ToSet(rt.matchers) : x.kind = "schemes"}) <= 1
    /\ TemplatesOf(rt, {"path"}) \subseteq ToSet(rt.path)
    /\ \A t \in TemplatesOf(rt, {"prefix"}) : IsPrefix(t.raw, rt.path[1].raw)
    /\ IsInjective([i \in DOMAIN rt.queries |-> Cut(rt.queries[i].raw, "=")[1]])
    /\ IsInjective(LET vs == FlattenSeq([i \in DOMAIN Templates(rt) |-> Templates(rt)[i].vars])
                   IN [i \in DOMAIN vs |-> vs[i].name])

(* A relative URL is followed from a page with the route's scheme.         *)
Followed(rt, u) == [scheme |-> Scheme(rt), host |-> u.host, path |-> u.path, query |-> u.query]

(* A URL that a route builds (URL, "builds a URL for the route from the    *)
(* given key/value pairs") matches the route without a redirect, and the   *)
(* variables it gives the handler build the same URL again; URLHost and    *)
(* URLPath ("builds only the host part", "only the path part") give its    *)
(* parts.                                                                  *)
BuiltURLsLeadBack ==
    \A rt \in {r \in Leaves : Consistent(r)} : \A values \in Given :
      \A u \in {URL(rt, values)} : u.ok =>
        LET q == Followed(rt, u)
        IN /\ Matches(rt, q)
           /\ \A t \in ToSet(rt.path) : ~Redirected(t, q.path)
           /\ Rendered(rt, Vars(rt, q)) = u
           /\ rt.host # << >> => URLHost(rt, values).host = u.host
           /\ rt.path # << >> => URLPath(rt, values).path = u.path

(* Comparing with Static instead of running the regular expression         *)
(* (comment on Literal) changes no answer, and nothing matches that does   *)
(* not begin with Static.                                                  *)
ShortcutsAreExact ==
    \A rt \in Leaves : \A t \in ToSet(Templates(rt)), text \in Texts :
      /\ TemplateMatch(t, text) = (Complete(t, text) # {})
      /\ Complete(t, text) # {} => IsPrefix(t.static, text)

(* A strict-slash redirect leads to the form the template is written in,   *)
(* which the route serves ("redirected to the template's form").  Not so   *)
(* where a pattern like ".*" matched nothing: "/a/" is redirected to "/a", *)
(* which "/a/{z:.*}" does not match, and "/" to itself.                    *)
SlashRedirectsSettle ==
    \A rt \in Leaves : \A t \in ToSet(rt.path), path \in Texts :
      LET form == RedirectPath(path)
      IN /\ TemplateMatch(t, path) /\ Redirected(t, path)
         /\ << >> \notin Range(Extract(t, path))
         => /\ TemplateMatch(t, form) /\ ~Redirected(t, form)
            /\ EndsInSlash(form) = EndsInSlash(t.raw)

(* A variable has one place in a route, or its place in the path is        *)
(* overwritten by that in a later query (uniqueVars).                      *)
VariablesHaveOnePlace ==
    \A rt \in Leaves : \A i, j \in DOMAIN Templates(rt) :
      LET t == Templates(rt)[i]
          o == Templates(rt)[j]
          places(x) == {m \in DOMAIN rt.matchers :
                          rt.matchers[m] = [kind |-> "template", template |-> x]}
      IN i < j /\ NamesOf(t) \cap NamesOf(o) # {} =>
           /\ OnPath(t.kind) /\ o.kind = "query"
           /\ Max(places(t)) < Max(places(o))
=============================================================================
