# njia in TLA+

njia is an HTTP request router in Go: a route table built from path templates
and host patterns, hot-reloadable while it serves, and `muxcompat`, a drop-in
replacement for gorilla/mux. This directory models it in TLA+. TLC checks the
models on small instances. TLAPS proves, for every size, the safety of the
table's life cycle and its refinement of an atomic router, the soundness of the
route table, which route a lookup finds and how it classifies a miss, the
middleware, prefixes and hosts of groups, what a mount owns, and what clients are
told by redirects and misses.

The code is the reference. `PROJECT.json` maps each definition to the lines it
stands for, and lists runs, mutants, findings, hazards and theorems.

## 1. The system

| Component | State | Operations | Module |
|---|---|---|---|
| Router (`router.go`) | `r.b` (current Builder), `r.mw`, `r.tbl` (atomic pointer to the compiled table), `r.mu` | requests (`ServeHTTP`, `Lookup`, `Routes`, ...), `Use`, `Handle`, `Group`/`Host`/`Err`, `Swap` | `Router`, `AtomicRouter`, `Dispatch` |
| Builder, Group (`group.go`) | entries, routes, errors, names, middleware, an `invalidate` hook; a group's parent, prefix, hosts, middleware | `Group`, `Host`, `Use`, `Handle`, `compile` | `Groups` (nesting, middleware), `RouteTable` (entries), `Router` (the table's life) |
| table (`table.go`) | static map, tree, host variants per path entry, compiled handler chains | `find`, `allowed` | `RouteTable` |
| specificity, priority (`route.go`) | none | `specificity`, `WithPriority` | `RouteTable`, `RoutingRule` |
| prefix tree (`internal/tree`) | nodes, ordered wildcard and catch-all edges | `Insert`, `Lookup`, `Collect`, `Extract` | `PathTree` |
| host patterns (`host.go`) | none | parse, match, capture, rank; the host of a request | `Hosts`, `HostForms` |
| templates, parameters (`params.go`) | the match in the request context | `parsePattern`, accessors | `Templates`, `RouteTable` (the checks) |
| misses (`router.go`) | options | clean-path and trailing-slash redirects, 405, 404 | `Dispatch` |
| Mount (`mount.go`) | none | two registrations | `Groups` |
| muxcompat (`muxcompat/`) | ordered routes, subrouters, lazily built lookup index, names | `Match`, index building, route configuration, `URL`, `URLHost`, `URLPath` | `MuxIndex`, `MuxMatch`, `Mux`, `MuxURL` |
| `internal/template`, `muxcompat/regexp.go` | none | templates to regular expressions: parse, match, extract, build | `MuxTemplate`, `MuxURL`; on whole segments `Templates`, `MuxIndex` |
| `internal/difftest` | none | test harness | not modelled |

### How the parts interact

* A registration on the Router runs under `r.mu`, changes the current Builder
  and clears `r.tbl`. A registration on a Group changes the Builder without the
  mutex and clears `r.tbl` through the Builder's `invalidate` hook. The hook
  stays with a Builder for good.
* The next request finds `r.tbl` nil, takes the mutex, looks again and compiles.
  `compile` writes each route's handler chain into `hostVariant.served`, maps
  that belong to the *Builder*. Every table compiled from that Builder shares
  them, and lookups read them without a lock.
* `Swap` runs a callback on a fresh Builder without the mutex, checks its
  errors, then takes the mutex, adopts the Builder, compiles and installs.
* A lookup tries the static map, then the tree's first match, then all
  candidates in order. A miss is answered through the router's middleware, at
  the far end of which everything is worked out again.
* A route keeps a pointer to the group it was registered on; `compile` walks from
  there to the root, so middleware added to any group around a route reaches it.
  A `Mount` is two registrations, and the second may be refused.
* muxcompat is a second router beside the first; it shares the prefix tree. A
  request evaluates a router's routes in order, or those its index offers; a
  nested router is one of a route's matchers and reports through the same
  `RouteMatch`, which carries error, handler, route and variables from route to
  route.

### What is hard about it

1. Lock-free readers against a compile that rewrites shared maps in place: the
   double-checked load in `table()` is what keeps them apart.
2. Invalidation: four places drop the table, one (`Builder.Use`) does not, and a
   replaced Builder still can.
3. Reload against requests in flight, and a half-built table against everybody.
4. Middleware constructors are user code run under the mutex; they may panic.
5. Route selection has two fast paths and a slow path that must agree, whatever
   the order of registration, with refused registrations in between.
6. Redirects compose with each other and with middleware that rewrites the
   request.
7. muxcompat's index skips routes whose evaluation would have changed the shared
   `RouteMatch`; skipping must not be observable, nor must the index be stale.

8. A template is compiled into several things (regular expression, reverse
   template, checks of single variables, shortcuts) that must mean the same, and
   is looked at as written and as trimmed by strict slashes.
9. Prefixes, hosts and middleware come from nested groups in any order of calls,
   with three rules: join, replace, wrap.

`PROJECT.json` lists each hazard at its line with the properties aimed at it.

## 2. Modules

**`Router`** is the life of the compiled table. Each goroutine has a program
counter (`pc`), the call it is in (`job`), the Builder the call owns (`work`),
the table it loaded or compiled (`tab`), and, for a request, what that table
promised when it was loaded (`view`, a history variable) and the answer
(`got`). One action is one step between points where another goroutine can be
seen: `LoadHit`/`LoadMiss` are the first atomic load of `table()`,
`RecheckHit`/`RecheckMiss` the load under the mutex, `CompileRoute` writes one
entry of `served`, `InstallServe`/`InstallSwap` store the pointer and unlock,
`Find` is the lookup's unlocked read, `Drop` and `Invalidate` clear the pointer.
A middleware list is its length, because the code only appends; a route is one
(pattern, host, method) triple. Two constants say which registrations may happen
with requests in flight (`Online`) and which only with none (`Offline`); the
documented use is `Online = {}` (router.go: "Registering routes while requests
are in flight is not [safe]: use Swap").

`Unshared` lets one call at a time touch a Builder: registration happens from one
goroutine at a time, also through groups, which take no mutex.

**`AtomicRouter`** is what the Router promises, without mutex, pointer or shared
maps: one configuration at a time, changed in single steps (it grows, or `Swap`
replaces it by one never in force before), and each request answered from the
one configuration in force when it looked. `Router` implements it under the
mapping `config <- Config` (the live table, or the one the next request would
compile), `held <- view`, `reply <- got`.

**`Templates`, `PathTree`, `Hosts`, `RouteTable`** are registration and lookup. A path is the
sequence of its segments, `"/a/"` being `<<"a", "">>`; host patterns and the
authority of a request (its `Host` header or, if that is empty, the host its target
names) are texts, read as the code reads them; a tree node is named by the
labels that lead to it. `AddToEntry`,
`AddStatic`, `AddToTree` and `RefuseInvalid` are the outcomes of `Group.handle`;
`Find`, `FastPath`, `SlowPath`, `Resolve`, `RouteIn`, `Allowed` are the
functions of `table.go`.

**`HostForms`** is what the comment on `ValidateHost` promises of the forms of a
host pattern, stated on the labels of a host. A registration in the runs carries
the form beside its text, a request its labels beside its header;
`PatternsMeanTheirForms` compares.

**`RoutingRule`** is the reference: which route serves a request, stated on the
list of registered routes, with no tree, index, bucket or fast path.

**`Groups`** puts nested groups, mounts and middleware on top of `RouteTable`. A
text is a sequence of slashes and of what is between them, so that `JoinPrefix`
and `MountPatterns` do what `joinPrefix` and `mountPatterns` do. A group is its
parent, prefix, hosts and own middleware; a registration or a mount may bring hosts
(`WithHost`) and a priority (`WithPriority`), which are its `Options`; a middleware is the number of the call
that added it, and `scopes` remembers to what. `chainTo` and `compile` build the
chains, `MountSelf` and `MountSub` are the two halves of a `Mount`. The builder
is the router's from the start, or a free one that `Install` (`Swap`) takes over
and before that has `Builder.Use`.

**`Dispatch`** composes `RouteTable` with `ServeHTTP`: options, redirects, 405,
404, middleware that passes on a rewritten path, and a client that follows
redirects as HTTP clients do (a 301 turns POST into GET). `http.Redirect` and
the client are external.

**`MuxIndex`** has what a muxcompat router keeps: templates, matchers, routes
as the configuration calls leave them (`Configured`), and the index
(`Fast` is `classify`, `Bucketed` is `firstStaticSegment`, `Filed` and
`BuildIndex` are `buildIndex`), on the same `PathTree` as the native router.
Host, query, header, scheme and custom matchers are requirements a request meets
or does not. A lane of an index entry stands for the map or slice the code files
it in.

**`MuxMatch`** is how one router evaluates a request: `MatchRoute`, `MatchFast`,
`MatchRoutes` and `MatchRouter` are `Route.Match`, `matchFast`, `matchRoutes` and
`match`, each a function from one `RouteMatch` to the next. It is a constant
module; its parameter `Within` is `Match` of the router one level down.

**`Mux`** is the application's router: it instantiates `MuxMatch` for the
subrouter (`InInner`, no router below) and for the root (`InRoot`, with the
subrouter below), so nested routers need no recursion. `Serve` is `ServeHTTP`.
Actions register a route, open the one subrouter, call another method on a route,
switch strict slashes on, and serve a request, which leaves the index behind.
`Eligible` and `First` restate first-match-wins on the list of routes, and
`Refused` and `Abandoned` when a method error survives.

**`MuxTemplate`** is `internal/template` on characters: `Parse` with its errors,
`Match`, `Extract`, `Build` and the shortcuts. A regular expression is the
sequence of its pieces, `Readings` the ways to read a text with it and
`Greediest` the one Go's engine takes; a pattern written in a template is a
repeated class of characters.

**`MuxURL`** is how muxcompat routes are put together from host, path, prefix and
query templates, schemes, names and `BuildVarsFunc`s, what they read from a
request, and the URLs they build. `AddTemplate` is `addRegexpMatcher`, `Prepared`
is `prepareVars`; a subrouter inherits its route's configuration. A capturing
group panics in the code and leaves the route as it was in the model.

**`MCRouter`, `MCRouteTable`, `MCGroups`, `MCDispatch`, `MCMux`, `MCMuxURL`** give the constants their values for
TLC.

The theorems are in **`RouterProofs`** (about `Router`, the refinement at its
end), **`RouteTableProofs`** (registration), **`LookupProofs`** (what lookup offers
and misses, on top of it) and **`BestRouteProofs`** (which route it finds, on top of
that), **`GroupsProofs`** (about `Groups`), **`MountProofs`** (mounts, on top of
`GroupsProofs` and `BestRouteProofs`) and **`DispatchProofs`** (on top of
`LookupProofs`); **`Induction`** has the lemmas on numbers, folds and trees they
share.

Definitions that start with the comment "Deviation:" are what the neighbouring
definition would be with a plausible mistake in it. No specification uses them;
they serve to show that each property can fail (`mutants` in `PROJECT.json`).

## 3. What TLC checks

| Run | Instance | What it shows |
|---|---|---|
| `router` | 3 goroutines, 2 builders, 2 routes, lists of length 1 | `Coherent` (nothing added is missing from the live table), `NoMapRace`, `NoNilHandler`, `AnswersOwnTable`, `UnderConstructionHidden` and the refinement `ImplementsAtomicRouter` in every interleaving of the documented use |
| `router_live` | 2 goroutines, panicking middleware, retained builders, fairness | `RequestsAnswered`, `SwapsReturn`, no half-compiled table, and `IInv`, the proofs' invariant |
| `router_stale` | 2 goroutines | disagreement, see section 4 |
| `route_table` | 32 registration calls, 54 requests, 3 routes, 1 refusal | `TableOK`: one entry for each template, reachable in exactly one place, and every route filed in it; lookup agrees with `RoutingRule`; 404 against 405; `Allow` is exact; a new route only claims requests for itself, unless it makes its pattern more urgent; a refused one changes nothing; host patterns mean what their documented forms say |
| `groups` | 2 groups, 2 middleware, 3 routes, 1 refusal, 44 requests, a host and a priority as options | `MiddlewareFollowsScope`, `RoutesStayInTheirGroups`, `NoHalfMountInstalled`; `MountsOwnTheirSubtree`: what is at or below a mount is answered by it or by a route that overrules it (`Overrules`: priority, then specificity; in one pattern host, then method), and it answers nothing else |
| `dispatch` | 6 calls, 18 requests, all 8 option sets, 3 routes | `MethodSurvives`, `LocationIsClean`, `LoopsOnlyBetweenForms`, `NoFalseMiss`, `RefusedMethodIsUnserved`, `MiddlewareIsTransparent` |
| `route_port`, `dispatch_loop` | 2 routes | disagreements, see section 4 |
| `mux` | 9 kinds of route, 2 kinds of subrouter with 3 kinds of route, 13 requests, 3 routes | `IndexAgreesWithScan`, `FirstMatchWins`, `RefusalIsJust`, `MiddlewareWrapsMatches`, `VariablesAreTheRoutes`, `AnnouncedMethodsAreServed` |
| `mux_leftover` | as `mux`, a subrouter behind a method filter | disagreement, see section 4 |
| `mux_url` | 2 routes, a router and its subrouter, 3 calls of 18 kinds, 10 sets of values | `BuiltURLsLeadBack`, `ShortcutsAreExact`, `SlashRedirectsSettle`, `VariablesHaveOnePlace` |
| `mux_url_query` | 1 route, 2 calls, values with an ampersand | disagreement, see section 4 |

*Bounds.* Three goroutines are the fewest in which one compiles, one holds an
older table and one changes the configuration. Two builders give a swap and its
victim.
Two routes let `compile` be half-way. Lists of length 1 tell a chain made before
a `Use` from one made after it. Three routes let two patterns compete while a
third is a dead end, or two hosts compete in one entry beside a third pattern;
the calls were chosen so that every overlap of static, wildcard and catch-all,
every kind of host and every kind of refusal occurs. In `groups`, two groups are nested or side by side, two middleware show
order within a scope and between scopes, and two routes and a mount compete;
`Budget` limits how much of each there is at once, options included. In `mux_url` three calls give a route a host, a
path and a query, or a prefix handed to a subrouter and a path there, with
strict slashes before or after.
`MaxUse`, `MaxRoutes`, `MaxErrs` only bound the state space. `SpecDepth` is 20 in
the code and here 4, in `groups` 6, no less than the length of any template used. In `mux` three
routes are a method filter that leaves a 405, a route that clears it or keeps
it, and one that matches; or a subrouter whose two routes get an index.
`IndexThreshold` is 2 (4 in the code), so that both an unindexed and an indexed
router occur. `StrictAfter` puts strict slashes between two registrations. The
nine kinds of route cover every lane of the index and a clash of wildcard names
in its tree.

*Fairness* (`Router!Fairness`). A goroutine inside a call keeps running: weak
fairness of its own steps, which the Go scheduler gives. Getting the mutex is
strongly fair: `sync.Mutex` hands itself to a waiter after 1 ms (starvation
mode). Nothing is assumed of clients or of a Swap callback, which may never
return, and `CompilePanic` is never obliged to happen.

`route_table`, `groups`, `dispatch`, `mux` and `mux_url` switch deadlock checking off: registration ends at
its bound, and a client stops once it has an answer. The `Router` runs keep it.

## 4. Where the code and its documentation disagree

Each is a run that TLC finds violated, with the quoted line in `findings`:

* `router_stale`: registering on a group of a replaced builder clears the live
  table; the comment on `Swap` says it has no effect on it.
* `route_port`: the host pattern `*:port` loses its port.
* `dispatch_loop`: a trailing-slash redirect does not require that only the
  other form is registered; with `POST /a` and `GET /a/`, any other method
  bounces between the two for ever.
* `mux_leftover`: a muxcompat subrouter behind a method filter leaves its own
  not-found handler in the match when the filter refuses the request; after a
  further route has cleared the error, it answers in place of the route that
  matches.
* `mux_url_query`: a query value is put into a built URL unescaped, and read back
  cut off at an ampersand.

Met while modelling, and no run because nothing the repository says is
refuted, because a test settles it, or because the model leaves the case out:

* The comment on `mountPatterns` (`mount.go`) says that a catch-all matches at least
  one segment. `collect` (`tree.go`) says the opposite and does it: "/files/{rest...}"
  answers "/files", as `router_test.go` expects.
* A strict-slash template that ends in a variable which may be empty is
  redirected to a form it does not match (`/a/{z:.*}`: "/a/" to "/a"; "/" to
  itself). `SlashRedirectsSettle` excludes it.
* A route reads its URLs back only if its matchers agree (`Consistent`): a second
  host or path template, or a query with the key of another, is matched but not
  built. `Path("")` below the prefix "/a/" is "/a", which the prefix refuses.
* `Build` checks a pattern with alternatives more loosely than the route matches it.
* A host template with `(?:` in a pattern counts as one that mentions a port.
* `Router.Use` while serving makes a recompile rewrite the chains of a table a
  request holds; the documentation excludes that use only for routes.

## 5. What is proved

Every theorem holds for all values of the constants that meet the assumptions
named with it. "Under" names a further hypothesis, stated in the theorem.

| Theorem | Property | Under |
|---|---|---|
| **`RouterProofs`**: `Invariance` | `IInv` | `DocumentedUse` (no registration while requests are in flight), as all of this module |
| `TypeCorrect` | `TypeOK` | |
| `LookupsNeverRace` | `NoMapRace` | |
| `HandlersAreCompiled` | `NoNilHandler`, panics included | |
| `RequestsKeepTheirTable` | `AnswersOwnTable` | |
| `LiveTableIsCurrent` | `Coherent` | constructors do not panic, no `Builder` is used after its `Swap` |
| `ConstructionIsHidden` | `UnderConstructionHidden` | |
| `RouterIsAtomic` | `ImplementsAtomicRouter` | `Refines`: `DocumentedUse`, constructors do not panic |
| `RefinementInvariance` | `RInv`, what the refinement needs | `Refines` |
| **`RouteTableProofs`**: `TableInvariance` | `TableInv`, which is inductive | |
| `TableIsSound` | `TableOK` | |
| `RefusalsChangeNothing` | `RefusedChangesNothing` | |
| **`LookupProofs`**: `CandidatesAreExact` | `CandidatesAreMatches`: static map and tree offer a path exactly the entries whose template matches it | |
| `MissesAreClassified` | `MissIsClassified` | `Readable`: every call's host patterns are read as their forms mean |
| `AllowHeadersAreExact` | `AllowIsExact` | `Readable` |
| **`BestRouteProofs`**: `OrderIsKept` | `OrderInv`, which is inductive beside `TableInv` | |
| `FastPathsAgree` | `FastPathsChangeNothing`: both fast paths answer as the slow path | `Readable`, `WithinDepth`: no template exceeds the segments compared |
| `BestRouteIsFound` | `FindsBestRoute` | the same, and `RanksRead`: host patterns rank and capture as their forms do |
| `AdditionsAreHarmless` | `AdditionsOnlyClaim` | the same |
| **`GroupsProofs`**: `GroupsTypeCorrect` | `TypeOK` | |
| `HalfMountsAreRefused` | `NoHalfMountInstalled` | |
| `ChainsFollowScopes` | `MiddlewareFollowsScope` | |
| `PlacesInvariance` | `RoutesInv`, which is inductive | |
| `RoutesKeepTheirGroups` | `RoutesStayInTheirGroups` | |
| **`MountProofs`**: `MountsOwnWhatIsBelow` | `MountsOwnTheirSubtree` | what `BestRouteIsFound` is under, and `ConstantsNest` |
| **`DispatchProofs`**: `RedirectsKeepTheMethod` | `MethodSurvives` | |
| `LocationsAreClean` | `LocationIsClean` | `RewritesPaths`: middleware makes a path of a path |
| `MiddlewareChangesNoAnswer` | `MiddlewareIsTransparent` | `RewritesNothing`: middleware passes the path on as it is |
| `RefusedMethodsAreUnserved` | `RefusedMethodIsUnserved` | `RewritesNothing`, `HostsAreRead`: the part of `Readable` about hosts, for the clients' requests |
| `NoMissIsFalse` | `NoFalseMiss` | the same |
| `CirclesAreBetweenForms` | `LoopsOnlyBetweenForms` | the same |

The assumptions are on constants only. `ConstantsAssumption`,
`SentinelAssumption` and `MarkerAssumption` of `Router`: markers such as `NoTable`
are not tables. `CallsAssumption`, `BoundAssumption`, `TextsAssumption` and
`RequestsAssumption`: registrations, bounds, prefixes and requests have their
types. TLC evaluates each in the runs. The hypotheses `RewritesPaths` and
`RewritesNothing` are about router middleware, which is the application's: the
first is met by every middleware that leaves a request with a path, the second
by all that do not rewrite it. TLC checks both properties with middleware that
leaves paths alone, which meets both hypotheses; `LocationsAreClean` and
`RedirectsKeepTheMethod` also hold of middleware that rewrites.

`Readable` and `RanksRead` are what `PatternsMeanTheirForms` is about: a host pattern, read
character by character as `host.go` does, accepts the hosts that its form, stated
on labels, admits; of two that accept one host, the scores compare as those of
their forms, equal forms give equal patterns, and each captures what its form
names. They are statements about the constants `Calls` and `Requests`
alone, and TLC evaluates them for all calls and requests of `route_table`
(`AllRead` in `MCRouteTable`). They do not hold of a `*` with a port, the
disagreement of section 4. Calls without hosts meet them whatever the request.

`WithinDepth` is the code's limit: `specificity` looks at 20 segments
(`SpecDepth`). Two longer templates rank equal on the slow path, while the tree
still tells them apart, so without it `FastPathsAgree` and `BestRouteIsFound` are
false. `AllRead` has it too.

`ConstantsNest` ties the constants of `Groups` to those of the table, about which
`Readable` and `WithinDepth` speak: the prefixes of groups nest (`PrefixesNest`),
whatever a group registers under one of them, with any of the hosts and priorities
there are, is among `Calls` (`CallsListed`), and
no text is read as the blank behind a slash (`TextsAreNamed`). In the run `groups`,
`Calls` is what the groups can register (`SomeCalls`), and TLC evaluates all of
these hypotheses together (`MountsAssumption` in `MCGroups`).

### Router

None of the properties is inductive. `NoMapRace` needs to know that a request
compiles only when the pointer is nil *and* that nobody then still looks up in a
table of the same builder (`FreshInv`). That holds because the pointer only
becomes nil in a registration, which excludes requests (`DisciplineInv`), and
because a Swap only compiles a builder no table has come from yet (`ServedInv`,
`WorkInv`). `AnswersOwnTable` needs that the maps a request was promised have not
been touched since (`ViewInv`), which is `NoMapRace` along a whole request.
`Coherent` needs what `compile` has written so far (`CompileInv`) and that the
mutex is held by exactly the goroutine that writes (`LockInv`, `JobInv`). `IInv`
is the conjunction; it was checked by TLC (`router_live`) before it was proved,
one lemma per action.

The refinement maps initial states to initial states (`AbstractInit`) and every
step to a step of `AtomicRouter` or to none (`AbstractNext`). Taking a table is the
abstract look, the lookup the abstract answer; `Config` moves where a table is
dropped, swapped, or missing while something is registered, and every other step
leaves it (`Same`): above all, installing what a request has compiled puts
in force exactly what was in force. Beside `IInv` this needs `RInv`: what a
request was promised and answered (`PromiseInv`), that the live table belongs to
the builder in force or to one that a Swap is about to replace (`InForceInv`), and
that no chain is ahead of the middleware it was compiled from (`GrowthInv`). It
fails if a constructor panics: `Swap` has then adopted a builder whose table is
not the live one.

### RouteTable

`TreeInv` says that tree nodes hang together and that edges and nodes agree, and
`WalkInv` carries it through `Insert`'s walk, step by step. Two names for one
wildcard clash only at a node that was there before the walk, so a walk that is
refused has made nothing: this is `RefusedChangesNothing`, and it also shows that
the code's plain "return the error" half-way through `Insert` needs no undo.
`TableInv` adds that a template has one entry, that the static map or the tree
leads to it and to no other (by counting what both hold), and that each route is
filed in its template's entry under its own method. The last is not obvious: a
route with several hosts is filed in several variants, a later route of the same
template is filed beside it, and would displace it had it not been refused as a
duplicate when it shares a host and the method.

### Lookup

`Collect` and `Lookup` are functions on pairs of what is left of the path and a
node. By induction on what is left, what they give at a node is said by the
nodes below it whose labels fit (`CollectRuns`, `LookupRuns`: the functions exist
and can be unfolded; `CollectedNodes`, `LookupAgrees`: what they give). With
`TableInv` a node that fits and holds an entry is the template of that entry, and
a template matches a path just when its labels fit (`KeyFits`). So the candidates
are exact, and `Lookup` gives one of them whenever there is one (`LookupFinds`),
whose parameters can be extracted (`ExtractFacts`). Resolving a candidate finds a
route just when one filed in it serves host and method (`ResolveFacts`,
`RouteIsOffered`). All three ways through `find` then end in a route that serves
the request, or show that none does (`FindFacts`), which settles
`MissIsClassified`, and `AllowIsExact` by asking for each method in turn.

### The best route

`TableInv` does not say in what order things are kept. `OrderInv` adds: an entry
has the template and the lowest priority of its routes; entries stand in the
order of their first routes; the variants of an entry are ranked (`Ranked`), by
bucket and score, equal ones by their first route; and tree nodes of one wildcard
have one name (`NamesKept`). Inserting a variant into its bucket, an insertion
sort with ties behind, is what makes the third inductive (`RouteInOrder`,
`OrderIsKept`).

Specificity then is a comparison of node names: `Outranks` on the code's 20 ranks
is `Ahead`, more specific at the first label that differs (`AheadIs`), and so is
`MoreSpecific` of the rule. `Lookup` tries the static child, then the parameter,
then the catch-all, and backs up; by induction on what is left of the path, the
entry it gives is ahead of every other node that fits and holds an entry
(`LookupIsBest`). So without priorities both fast paths begin with the candidate
that `Precedes` all others, and where that one does not serve the request they
hand over to the slow path: `FastPathsAgree`.

The slow path takes the first candidate that resolves, in an order that is total
because no two entries rank and stand alike. Within an entry, `Resolve` takes the
first variant that accepts the host and has a route: in the order of the variants
(`VariantsOver`) that is the best host of each route that serves (`BestHostIs`),
and within a variant the method decides (`RouteInBest`, `BestOfEntry`). Between
entries, priority, specificity and place of a route are those of its entry
(`PriorityIs`, `AheadIs`, `PlacesAre`, together `Across`). So the route that is
found is to be preferred to every other that serves the request and none is to be
preferred to it (`SlowIsBest`): the rule's choice exists and is unique.

For `AdditionsOnlyClaim` the same is used backwards. What the rule compares of two
earlier routes, the first sibling, the first under a host and the lowest
priority, does not change with a route behind them unless that one `Urges`
(`PreferenceStays`), so if the new route is not the best the best is what it was.

### Groups

`GInv` has the types, the tree of groups (a parent is older than its children)
and the halves of a mount: a mount whose second half is missing is under way or
has left an error, and an error keeps `Install` from happening. `MwInv` says of
each middleware list that it holds the calls made for its scope, in order.
`chainTo` is a recursion up the tree. That it defines a chain at all, and that
the chain holds exactly the calls of the scopes around the group, widest first,
is by induction on the group (`TreeFoldExists`, `ChainHolds`); `MInv` is then
inductive, because a compiled table is dropped by whatever would outdate it.

For `RoutesStayInTheirGroups` the invariant speaks of texts: the prefix of a group
goes on from its parent's on a slash (`Extends`, which is transitive), whatever
of the two already had one, and the text of a route from that of its group. A
template is read off a text token by token, and reading on past a prefix never
changes the segments the prefix has (`StepGoesOn`), except a blank one at its
end. Hosts are those of the nearest group around that declares some, read off
the same tree. TLC cannot enumerate `Extends`; what it yields is checked in `groups`.

### Mounts

`mountPatterns` gives two texts, and `JoinPrefix` sets both behind the prefix of a
group. Whatever slashes that prefix and the mount point end in, the second
template is the first, without the blank of a trailing slash, and a catch-all
(`TemplateHangs`, `JoinedHangs`). So together they match the paths at or below the
prefix and no others (`MountMatches`). `MountsInv` adds to the invariants of table,
order and groups that every complete mount is such a pair of routes, on the same
hosts and for every method (`PairsInv`); that a mount half-way remembers the text
and the options of its second half is what makes this inductive.

A request on the mount's hosts, at or below its prefix, is then served by one of
the two (`PairServes`), so a route is found, and it is the rule's choice
(`BestRouteIsFound`'s argument, under `OrderInv`). The rule prefers one route to
another by priority, then specificity, then age, and within a pattern by host,
method and age. Age never decides here: two patterns that match one path are equally
specific only if they are the same (`NoTie`, for ranks tell kinds apart,
`RankTells`), routes of one pattern share its priority (`PatternPriority`), and a
method has one route per host and pattern. So a route that is preferred to another
overrules it (`PreferredOverrules`): if a third route answers what a half of the
mount serves, it overrules that half, and if the mount answers, nothing that serves
the request overrules it (`FoundOverrules`).

### Dispatch

`cleanPath` is a fold over the segments; by induction on how many have been read,
what has been kept has no empty and no dot segment, and a path without them is
left as it is. So the target of every redirect is clean, the other slash form
included, and `PathInv` is inductive. `MethodInv` is: 301 answers only GET and HEAD.
Transparency is by comparing the answer before and behind middleware for each
way a request can go.

What clients are told builds on the lookup: `AnswersAre` lists, for each kind of
answer, what it says of the routes, and `ClientInv` has the table's invariant
beside what a client has sent. A 405 lists only methods that would have been
served, so not the one refused. A client for whom only the other slash form
answers is guided there (`GuidedInv`): to the clean form of the form it means,
then to the other one, which serves it, so it is never told of a miss. A redirect
to where the client has been cannot be a clean-path one, for it leads to a clean
path from one that is not; `TurnsInv` says of every request that was redirected
from a clean path that its other form has routes, so both ends of a circle have
routes, and none on the near side serves the method.

### Induction

The provers take no induction rule with an operator as a parameter. `Induction`
gets by with sets: a set of numbers has a least member, because inclusion of
finite sets is well-founded (`FiniteSetTheorems`); hence induction stated of a
set, and from it that folds and recursions up a tree exist and can be unfolded.

### Left to TLC

* The two liveness properties, `RequestsAnswered` and `SwapsReturn`; nothing about
  `ENABLED` or fairness.
* `PatternsMeanTheirForms`: texts read character by character, for the texts
  enumerated. It is what `Readable` assumes of others.
* Everything about `Mux` and `MuxURL`: a `RouteMatch` carried through two levels of
  routers by folds over `MuxMatch`, and templates read by a set of readings on
  characters.

## 6. Not modelled

* Typed wildcards in the tree: no pattern of package njia has one, and a
  muxcompat route with one is kept out of the tree.
* In muxcompat: `UseEncodedPath`, `SkipClean`, `Walk`, custom matchers that
  change the match, routes without a handler, more than one subrouter, a route configured after
  requests have built the index (the index is then stale: with that bound
  removed TLC refutes `IndexAgreesWithScan`) and concurrent requests, which
  store equal indexes.
* Concurrency and groups at once: `Router` has one group per builder, `Groups`
  one call at a time.
* Registering on a router a free builder that is then used further: the second
  half of `Router`'s story, not repeated in `Groups`.
* Data races as such: a lookup during a compile is stated as `NoMapRace` and
  excluded by it, not given an outcome.
* The request context and its accessors, error texts, metadata, `RouteInfo`,
  `String`.
* A `Mount` with `WithMiddleware` or `WithName` (the second half of the latter is
  refused: its name is taken).
* A `Builder.Use` on a builder that a `Swap` has installed, which drops no table:
  `Coherent` is checked and proved without it.
* The table a handler chain captured at its install, should another be live by the
  time the request comes to its end: `Dispatch` has one table.
* In muxcompat, the condition that `CORSMethodMiddleware` sets its header only if
  `OPTIONS` is among the methods; and routes are told apart by value and router where
  the code compares pointers to templates.
* Patterns in templates beyond one repeated class of characters (alternatives,
  optional groups, anchors); the differential test harness.

## 7. Plan

Done: the route table's life (`Router`, `AtomicRouter`, `RouterProofs`),
selection (`PathTree`, `Hosts`, `HostForms`, `RouteTable`, `RoutingRule`), groups
and mounts (`Groups`), answers to misses (`Dispatch`), muxcompat's matching and
index (`MuxIndex`, `MuxMatch`, `Mux`) and its URLs (`MuxTemplate`, `MuxURL`).

Proved: the table's life and its refinement, the route table, its lookup and the
choice among routes, groups, mounts, redirects and misses (section 5).

Next, in this order:

1. Proofs: `TypeOK` and `VariablesHaveOnePlace` of `MuxURL`;
   `VariablesAreTheRoutes` of `Mux`.
2. muxcompat: two subrouters and two levels, a reused `RouteMatch`, custom
   matchers that leave an error, concurrent index builds.
