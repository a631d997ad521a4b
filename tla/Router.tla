------------------------------- MODULE Router -------------------------------
(***************************************************************************)
(* The life of a router's compiled table (router.go, group.go, table.go).  *)
(*                                                                         *)
(* A Router holds a Builder (the registrations), a list of middleware and  *)
(* an atomic pointer to the table compiled from both.  Registration drops  *)
(* the table; the next request compiles it again under the router's mutex; *)
(* Swap builds a second Builder off to the side and installs it.  Requests *)
(* load the pointer without a lock and keep the table they loaded.         *)
(*                                                                         *)
(* What a table is made of is only partly its own: the handler chains a    *)
(* request runs live in maps of the Builder (hostVariant.served) that      *)
(* every table compiled from that Builder shares, and that compile         *)
(* rewrites in place, one entry at a time.  Chains, not routing, are what  *)
(* this module is about: a route stands for one (pattern, host, method),   *)
(* and a middleware list for its length, because the code only ever        *)
(* appends to one.                                                         *)
(***************************************************************************)
EXTENDS Integers, FiniteSets

CONSTANTS
    Procs,      \* goroutines: request handlers, reloaders, registrars
    Builders,   \* the Builders that can exist at once
    First,      \* the Builder of New, or the one a zero Router creates
    Routes,     \* the (pattern, host, method) triples one can register
    Online,     \* kinds of registration done while requests are in flight
    Offline,    \* kinds of registration done only while none is
    MaxUse,     \* bound: length of every middleware list
    MayPanic,   \* whether a middleware constructor may panic in compile
    Free, NoTable, NoBuilder, NoChain, NoView, NoAnswer

Kinds == {"handle", "routerUse", "groupHandle", "groupUse", "builderUse",
          "stale"}

ASSUME ConstantsAssumption ==
    /\ First \in Builders
    /\ Online \subseteq Kinds /\ Offline \subseteq Kinds
    /\ MaxUse \in Nat /\ MayPanic \in BOOLEAN
    /\ Free \notin Procs
    /\ NoBuilder \notin Builders

(* The middleware a compiled handler is wrapped in: how many of the        *)
(* router's, of the builder's and of the group's, outermost first.         *)
Chain == [router : Nat, builder : Nat, group : Nat]

(* What a table owns: the Builder whose maps it shares, and the table-wide *)
(* middleware that answers the requests no route serves.                   *)
Table == [of : Builders, router : Nat, builder : Nat]

ASSUME SentinelAssumption ==
    NoTable \notin Table /\ NoChain \notin Chain

VARIABLES
    rmw,        \* r.mw: length of the router's middleware list
    b,          \* r.b
    tbl,        \* r.tbl, the atomic pointer
    mu,         \* r.mu: its holder, or Free
    bmw,        \* Builder.mw, per builder
    own,        \* Group.own of the builder's one group
    entries,    \* routes registered in the builder
    served,     \* hostVariant.served: the chain compiled for each route
    errs,       \* whether Builder.errs is not empty
    adopted,    \* builders whose invalidate hook clears r.tbl
    pc, job,    \* where each goroutine is, and in which call
    work,       \* the builder the call is building, compiling or changing
    todo,       \* the routes compile has still to write
    tab,        \* the table the call has compiled or loaded
    view,       \* history: what that table promised when it was loaded
    got         \* the answer of a request

routerVars  == <<rmw, b, tbl, mu>>
builderVars == <<bmw, own, entries, served, errs, adopted>>
requestVars == <<tab, view, got>>
procVars    == <<pc, job, work, todo>>
vars == <<routerVars, builderVars, procVars, requestVars>>

Unregistered == [r \in Routes |-> NoChain]

(* Deviation: a zero Router is not given a builder.                        *)
builderNeverCreated == b

(* The builder registration goes to: a zero Router creates its own on      *)
(* first use.                                                              *)
builder == IF b = NoBuilder THEN First ELSE b

(* The chain compile builds for a route of builder g.                      *)
chainOf(g) == [router |-> rmw, builder |-> bmw[g], group |-> own[g]]

(* The configuration a request that loads the table now is served under:   *)
(* the live table, or the one the next request would compile.              *)
Config ==
    IF tbl # NoTable
    THEN [of |-> tbl.of, router |-> tbl.router, builder |-> tbl.builder,
          chains |-> served[tbl.of]]
    ELSE [of |-> builder, router |-> rmw, builder |-> bmw[builder],
          chains |-> [r \in Routes |-> IF r \in entries[builder]
                                       THEN chainOf(builder) ELSE NoChain]]

Init ==
    /\ rmw = 0 /\ b \in {NoBuilder, First} /\ tbl = NoTable /\ mu = Free
    /\ bmw = [g \in Builders |-> 0]
    /\ own = [g \in Builders |-> 0]
    /\ entries = [g \in Builders |-> {}]
    /\ served = [g \in Builders |-> Unregistered]
    /\ errs = [g \in Builders |-> FALSE]
    /\ adopted = {b} \cap Builders
    /\ pc = [p \in Procs |-> "idle"]
    /\ job = [p \in Procs |-> "none"]
    /\ work = [p \in Procs |-> NoBuilder]
    /\ todo = [p \in Procs |-> {}]
    /\ tab = [p \in Procs |-> NoTable]
    /\ view = [p \in Procs |-> NoView]
    /\ got = [p \in Procs |-> NoAnswer]

Goto(p, l) == pc' = [pc EXCEPT ![p] = l]

Return(p) ==
    /\ Goto(p, "idle")
    /\ job' = [job EXCEPT ![p] = "none"]
    /\ work' = [work EXCEPT ![p] = NoBuilder]

-----------------------------------------------------------------------------
(* Requests: ServeHTTP, Lookup, LookupInto, Routes and Route all start     *)
(* with table().                                                           *)

(* The caller keeps to the Router's documented use: no request starts      *)
(* while a registration that is not allowed online is under way.           *)
Begin(p) ==
    /\ pc[p] = "idle"
    /\ \A q \in Procs : job[q] \in Kinds => job[q] \in Online
    /\ Goto(p, "load")
    /\ job' = [job EXCEPT ![p] = "serve"]
    /\ UNCHANGED <<routerVars, builderVars, work, todo, requestVars>>

(* The request holds the table in tbl: nothing looks at the pointer again. *)
Pin(p) ==
    /\ tab' = [tab EXCEPT ![p] = tbl]
    /\ view' = [view EXCEPT ![p] = Config]
    /\ Goto(p, "find")
    /\ UNCHANGED <<routerVars, builderVars, job, work, todo, got>>

LoadHit(p) == pc[p] = "load" /\ tbl # NoTable /\ Pin(p)

LoadMiss(p) ==
    /\ pc[p] = "load" /\ tbl = NoTable
    /\ Goto(p, "lock")
    /\ UNCHANGED <<routerVars, builderVars, job, work, todo, requestVars>>

(* Somebody else compiled it while this request waited for the mutex.      *)
RecheckHit(p) == pc[p] = "lock" /\ mu = Free /\ tbl # NoTable /\ Pin(p)

(* Deviation: table() takes the mutex and compiles without looking again.  *)
RecheckMissBlindly(p) ==
    /\ pc[p] = "lock" /\ mu = Free
    /\ mu' = p
    /\ b' = builder
    /\ adopted' = adopted \cup {builder}
    /\ work' = [work EXCEPT ![p] = builder]
    /\ todo' = [todo EXCEPT ![p] = entries[builder]]
    /\ Goto(p, "compile")
    /\ UNCHANGED <<rmw, tbl, bmw, own, entries, served, errs, job, requestVars>>

RecheckMiss(p) ==
    /\ pc[p] = "lock" /\ mu = Free /\ tbl = NoTable
    /\ mu' = p
    /\ b' = builder
    /\ adopted' = adopted \cup {builder}
    /\ work' = [work EXCEPT ![p] = builder]
    /\ todo' = [todo EXCEPT ![p] = entries[builder]]
    /\ Goto(p, "compile")
    /\ UNCHANGED <<rmw, tbl, bmw, own, entries, served, errs, job, requestVars>>

(* compile writes one chain into the builder's shared maps ...             *)
CompileRoute(p) ==
    /\ pc[p] = "compile"
    /\ \E r \in todo[p] :
         /\ served' = [served EXCEPT ![work[p]][r] = chainOf(work[p])]
         /\ todo' = [todo EXCEPT ![p] = @ \ {r}]
    /\ UNCHANGED <<routerVars, bmw, own, entries, errs, adopted, pc, job, work,
                   requestVars>>

(* Deviation: the table is handed out while routes are still to be chained. *)
CompileDoneEarly(p) ==
    /\ pc[p] = "compile"
    /\ tab' = [tab EXCEPT ![p] = [of |-> work[p], router |-> rmw,
                                  builder |-> bmw[work[p]]]]
    /\ todo' = [todo EXCEPT ![p] = {}]
    /\ Goto(p, "install")
    /\ UNCHANGED <<routerVars, builderVars, job, work, view, got>>

(* ... and returns a table around them.                                    *)
CompileDone(p) ==
    /\ pc[p] = "compile" /\ todo[p] = {}
    /\ tab' = [tab EXCEPT ![p] = [of |-> work[p], router |-> rmw,
                                  builder |-> bmw[work[p]]]]
    /\ Goto(p, "install")
    /\ UNCHANGED <<routerVars, builderVars, job, work, todo, view, got>>

(* Deviation: the unlock is not deferred.                                  *)
CompilePanicKeepsLock(p) ==
    /\ MayPanic
    /\ pc[p] = "compile" /\ todo[p] # {}
    /\ rmw + bmw[work[p]] + own[work[p]] > 0
    /\ todo' = [todo EXCEPT ![p] = {}]
    /\ tab' = [tab EXCEPT ![p] = NoTable]
    /\ Return(p)
    /\ UNCHANGED <<rmw, b, tbl, mu, builderVars, view, got>>

(* Deviation: compile stores the table first and fills it afterwards.      *)
CompilePanicPublishes(p) ==
    /\ MayPanic
    /\ pc[p] = "compile" /\ todo[p] # {}
    /\ rmw + bmw[work[p]] + own[work[p]] > 0
    /\ tbl' = [of |-> work[p], router |-> rmw, builder |-> bmw[work[p]]]
    /\ mu' = Free
    /\ todo' = [todo EXCEPT ![p] = {}]
    /\ Return(p)
    /\ UNCHANGED <<rmw, b, builderVars, tab, view, got>>

(* A middleware constructor panics, while a route's chain is built or      *)
(* while install builds the table's own: the deferred unlock runs, the     *)
(* call is abandoned, and what compile wrote so far stays written.         *)
CompilePanic(p) ==
    /\ MayPanic
    /\ \/ pc[p] = "compile" /\ todo[p] # {}
          /\ rmw + bmw[work[p]] + own[work[p]] > 0
       \/ pc[p] = "install" /\ tab[p].router + tab[p].builder > 0
    /\ mu' = Free
    /\ todo' = [todo EXCEPT ![p] = {}]
    /\ tab' = [tab EXCEPT ![p] = NoTable]
    /\ Return(p)
    /\ UNCHANGED <<rmw, b, tbl, builderVars, view, got>>

(* install stores the table; the deferred unlock follows at once.          *)
InstallServe(p) ==
    /\ pc[p] = "install" /\ job[p] = "serve"
    /\ tbl' = tab[p]
    /\ mu' = Free
    /\ view' = [view EXCEPT ![p] = [of |-> work[p], router |-> tab[p].router,
                                    builder |-> tab[p].builder,
                                    chains |-> served[work[p]]]]
    /\ work' = [work EXCEPT ![p] = NoBuilder]
    /\ Goto(p, "find")
    /\ UNCHANGED <<rmw, b, builderVars, job, todo, tab, got>>

(* Deviation: the lookup follows r.b instead of the table it has.          *)
FindInCurrentBuilder(p) ==
    /\ pc[p] = "find"
    /\ \E r \in Routes :
         got' = [got EXCEPT ![p] =
              IF r \in entries[builder]
              THEN [route |-> r, hit |-> TRUE, chain |-> served[builder][r]]
              ELSE [route |-> r, hit |-> FALSE,
                    chain |-> [router |-> tab[p].router,
                               builder |-> tab[p].builder, group |-> 0]]]
    /\ Goto(p, "reply")
    /\ UNCHANGED <<routerVars, builderVars, job, work, todo, tab, view>>

(* find and route: the lookup reads the builder's maps with no lock.  A    *)
(* route that is registered answers with its served chain, anything else   *)
(* goes through the table's own middleware.                                *)
Find(p) ==
    /\ pc[p] = "find"
    /\ \E r \in Routes :
         LET g == tab[p].of
         IN got' = [got EXCEPT ![p] =
              IF r \in entries[g]
              THEN [route |-> r, hit |-> TRUE, chain |-> served[g][r]]
              ELSE [route |-> r, hit |-> FALSE,
                    chain |-> [router |-> tab[p].router,
                               builder |-> tab[p].builder, group |-> 0]]]
    /\ Goto(p, "reply")
    /\ UNCHANGED <<routerVars, builderVars, job, work, todo, tab, view>>

Reply(p) ==
    /\ pc[p] = "reply"
    /\ Return(p)
    /\ tab' = [tab EXCEPT ![p] = NoTable]
    /\ view' = [view EXCEPT ![p] = NoView]
    /\ got' = [got EXCEPT ![p] = NoAnswer]
    /\ UNCHANGED <<routerVars, builderVars, todo>>

-----------------------------------------------------------------------------
(* Swap: any goroutine, at any time.                                       *)

(* Deviation: Swap adopts the builder before the callback has run.         *)
SwapBeginAdopts(p) ==
    /\ pc[p] = "idle"
    /\ \E g \in Builders \ (adopted \cup {First}) :
         /\ \A q \in Procs : work[q] # g
         /\ work' = [work EXCEPT ![p] = g]
         /\ adopted' = adopted \cup {g}
    /\ job' = [job EXCEPT ![p] = "swap"]
    /\ Goto(p, "build")
    /\ UNCHANGED <<routerVars, bmw, own, entries, served, errs, todo, requestVars>>

SwapBegin(p) ==
    /\ pc[p] = "idle"
    /\ \E g \in Builders \ (adopted \cup {First}) :
         /\ \A q \in Procs : work[q] # g
         /\ work' = [work EXCEPT ![p] = g]
    /\ job' = [job EXCEPT ![p] = "swap"]
    /\ Goto(p, "build")
    /\ UNCHANGED <<routerVars, builderVars, todo, requestVars>>

(* Group.handle: a route that is malformed, duplicates another or clashes   *)
(* with one is recorded as an error and leaves the table as it was.        *)
Register(g, r) ==
    /\ r \notin entries[g]
    /\ entries' = [entries EXCEPT ![g] = @ \cup {r}]
    /\ UNCHANGED errs

Refuse(g) ==
    /\ errs' = [errs EXCEPT ![g] = TRUE]
    /\ UNCHANGED entries

(* The callback registers on the fresh builder; nothing is invalidated,    *)
(* because no router has adopted it yet.                                   *)
BuildHandle(p) ==
    /\ pc[p] = "build"
    /\ Refuse(work[p]) \/ \E r \in Routes : Register(work[p], r)
    /\ UNCHANGED <<routerVars, bmw, own, served, adopted, procVars, requestVars>>

BuildUse(p) ==
    /\ pc[p] = "build"
    /\ \/ /\ bmw[work[p]] < MaxUse
          /\ bmw' = [bmw EXCEPT ![work[p]] = @ + 1]
          /\ UNCHANGED own
       \/ /\ own[work[p]] < MaxUse
          /\ own' = [own EXCEPT ![work[p]] = @ + 1]
          /\ UNCHANGED bmw
    /\ UNCHANGED <<routerVars, entries, served, errs, adopted, procVars,
                   requestVars>>

(* The callback returned an error, or panicked, or the builder recorded an *)
(* error: Swap gives up and the builder is garbage.                        *)
SwapReject(p) ==
    /\ pc[p] = "build"
    /\ Return(p)
    /\ LET g == work[p]
       IN /\ bmw' = [bmw EXCEPT ![g] = 0]
          /\ own' = [own EXCEPT ![g] = 0]
          /\ entries' = [entries EXCEPT ![g] = {}]
          /\ errs' = [errs EXCEPT ![g] = FALSE]
    /\ UNCHANGED <<routerVars, served, adopted, todo, requestVars>>

SwapAccept(p) ==
    /\ pc[p] = "build" /\ ~errs[work[p]]
    /\ Goto(p, "swapLock")
    /\ UNCHANGED <<routerVars, builderVars, job, work, todo, requestVars>>

(* Deviation: Swap compiles and installs without the mutex.                *)
SwapAdoptUnlocked(p) ==
    /\ pc[p] = "swapLock"
    /\ b' = work[p]
    /\ adopted' = adopted \cup {work[p]}
    /\ todo' = [todo EXCEPT ![p] = entries[work[p]]]
    /\ Goto(p, "compile")
    /\ UNCHANGED <<rmw, tbl, mu, bmw, own, entries, served, errs, job, work,
                   requestVars>>

SwapAdopt(p) ==
    /\ pc[p] = "swapLock" /\ mu = Free
    /\ mu' = p
    /\ b' = work[p]
    /\ adopted' = adopted \cup {work[p]}
    /\ todo' = [todo EXCEPT ![p] = entries[work[p]]]
    /\ Goto(p, "compile")
    /\ UNCHANGED <<rmw, tbl, bmw, own, entries, served, errs, job, work,
                   requestVars>>

InstallSwap(p) ==
    /\ pc[p] = "install" /\ job[p] = "swap"
    /\ tbl' = tab[p]
    /\ mu' = Free
    /\ Return(p)
    /\ tab' = [tab EXCEPT ![p] = NoTable]
    /\ UNCHANGED <<rmw, b, builderVars, todo, view, got>>

-----------------------------------------------------------------------------
(* Registration on the live router.                                        *)

MayStart(p, k) ==
    /\ pc[p] = "idle"
    /\ \/ k \in Online
       \/ k \in Offline /\ \A q \in Procs : job[q] # "serve"

(* A Builder is not safe for concurrent registration: one call at a time   *)
(* touches it.                                                             *)
Unshared(g) == \A q \in Procs : work[q] # g

Start(p, k, g, l) ==
    /\ job' = [job EXCEPT ![p] = k]
    /\ work' = [work EXCEPT ![p] = g]
    /\ Goto(p, l)

(* Router.Use appends under the mutex, then drops the table.               *)
Use(p) ==
    /\ MayStart(p, "routerUse") /\ mu = Free /\ rmw < MaxUse
    /\ mu' = p
    /\ rmw' = rmw + 1
    /\ Start(p, "routerUse", NoBuilder, "drop")
    /\ UNCHANGED <<b, tbl, builderVars, todo, requestVars>>

(* Router.Group, Host, Err and Errs only look, but on a zero Router they   *)
(* create the builder.                                                     *)
Obtain(p) ==
    /\ pc[p] = "idle" /\ mu = Free
    /\ b' = builder
    /\ adopted' = adopted \cup {builder}
    /\ UNCHANGED <<rmw, tbl, mu, bmw, own, entries, served, errs, procVars,
                   requestVars>>

(* Router.Handle registers under the mutex and drops the table whether or  *)
(* not the registration succeeded.                                         *)
Handle(p) ==
    /\ MayStart(p, "handle") /\ mu = Free /\ Unshared(builder)
    /\ mu' = p
    /\ b' = builder
    /\ adopted' = adopted \cup {builder}
    /\ Refuse(builder) \/ \E r \in Routes : Register(builder, r)
    /\ Start(p, "handle", builder, "drop")
    /\ UNCHANGED <<rmw, tbl, bmw, own, served, todo, requestVars>>

(* Deviation: a change under the mutex does not drop the table ...         *)
DropNothing(p) ==
    /\ pc[p] = "drop"
    /\ mu' = Free
    /\ Return(p)
    /\ UNCHANGED <<rmw, b, tbl, builderVars, todo, requestVars>>

(* ... or leaves the mutex locked.                                         *)
DropKeepsLock(p) ==
    /\ pc[p] = "drop"
    /\ tbl' = NoTable
    /\ Return(p)
    /\ UNCHANGED <<rmw, b, mu, builderVars, todo, requestVars>>

Drop(p) ==
    /\ pc[p] = "drop"
    /\ tbl' = NoTable
    /\ mu' = Free
    /\ Return(p)
    /\ UNCHANGED <<rmw, b, builderVars, todo, requestVars>>

(* Groups and retained builders reach the builder without the mutex.       *)
GroupKind(g, k) == IF g = b THEN k ELSE "stale"

GroupHandle(p) ==
    \E g \in adopted :
      /\ MayStart(p, GroupKind(g, "groupHandle")) /\ Unshared(g)
      /\ \/ Refuse(g) /\ UNCHANGED procVars
         \/ /\ \E r \in Routes : Register(g, r)
            /\ Start(p, GroupKind(g, "groupHandle"), g, "invalidate")
            /\ UNCHANGED todo
      /\ UNCHANGED <<routerVars, bmw, own, served, adopted, requestVars>>

GroupUse(p) ==
    \E g \in adopted :
      /\ MayStart(p, GroupKind(g, "groupUse")) /\ Unshared(g)
      /\ own[g] < MaxUse
      /\ own' = [own EXCEPT ![g] = @ + 1]
      /\ Start(p, GroupKind(g, "groupUse"), g, "invalidate")
      /\ UNCHANGED <<routerVars, bmw, entries, served, errs, adopted, todo,
                     requestVars>>

(* The hook every adopted builder keeps for good: it clears the router's   *)
(* pointer, whichever builder the router has now.                          *)
Invalidate(p) ==
    /\ pc[p] = "invalidate"
    /\ tbl' = NoTable
    /\ Return(p)
    /\ UNCHANGED <<rmw, b, mu, builderVars, todo, requestVars>>

(* Builder.Use on a builder kept from a Swap callback calls no hook.       *)
BuilderUse(p) ==
    \E g \in adopted \ {First} :
      /\ MayStart(p, GroupKind(g, "builderUse")) /\ Unshared(g)
      /\ bmw[g] < MaxUse
      /\ bmw' = [bmw EXCEPT ![g] = @ + 1]
      /\ UNCHANGED <<routerVars, own, entries, served, errs, adopted, procVars,
                     requestVars>>

-----------------------------------------------------------------------------
Request(p) ==
    \/ LoadHit(p) \/ LoadMiss(p) \/ RecheckHit(p) \/ RecheckMiss(p)
    \/ CompileRoute(p) \/ CompileDone(p) \/ CompilePanic(p)
    \/ InstallServe(p) \/ Find(p) \/ Reply(p)

Swap(p) ==
    \/ BuildHandle(p) \/ BuildUse(p)
    \/ SwapReject(p) \/ SwapAccept(p) \/ SwapAdopt(p) \/ InstallSwap(p)

Registration(p) ==
    \/ Use(p) \/ Obtain(p) \/ Handle(p) \/ Drop(p)
    \/ GroupHandle(p) \/ GroupUse(p) \/ Invalidate(p) \/ BuilderUse(p)

Next ==
    \E p \in Procs :
      Begin(p) \/ Request(p) \/ SwapBegin(p) \/ Swap(p) \/ Registration(p)

Spec == Init /\ [][Next]_vars

(* What the scheduler and the mutex owe: a goroutine inside a call keeps   *)
(* running, and sync.Mutex hands itself to a waiter in the end (its        *)
(* starvation mode).  A Swap callback owes nothing: it may never return.   *)
Fairness ==
    \A p \in Procs :
      /\ WF_vars(LoadHit(p) \/ LoadMiss(p))
      /\ WF_vars(CompileRoute(p) \/ CompileDone(p))
      /\ WF_vars(InstallServe(p) \/ InstallSwap(p))
      /\ WF_vars(Find(p) \/ Reply(p))
      /\ WF_vars(Drop(p) \/ Invalidate(p))
      /\ SF_vars(RecheckHit(p) \/ RecheckMiss(p))
      /\ SF_vars(SwapAdopt(p))

FairSpec == Spec /\ Fairness

-----------------------------------------------------------------------------
(* Properties.                                                             *)

PCs == {"idle", "load", "lock", "compile", "install", "find", "reply",
        "build", "swapLock", "drop", "invalidate"}

View == [of : Builders, router : Nat, builder : Nat,
         chains : [Routes -> Chain \cup {NoChain}]]

Answer == [route : Routes, hit : BOOLEAN, chain : Chain \cup {NoChain}]

ASSUME MarkerAssumption == NoView \notin View /\ NoAnswer \notin Answer

(* Every variable has the shape the code gives it.                         *)
TypeOK ==
    /\ rmw \in Nat
    /\ b \in Builders \cup {NoBuilder}
    /\ tbl \in Table \cup {NoTable}
    /\ mu \in Procs \cup {Free}
    /\ bmw \in [Builders -> Nat]
    /\ own \in [Builders -> Nat]
    /\ entries \in [Builders -> SUBSET Routes]
    /\ served \in [Builders -> [Routes -> Chain \cup {NoChain}]]
    /\ errs \in [Builders -> BOOLEAN]
    /\ adopted \subseteq Builders
    /\ pc \in [Procs -> PCs]
    /\ job \in [Procs -> Kinds \cup {"none", "serve", "swap"}]
    /\ work \in [Procs -> Builders \cup {NoBuilder}]
    /\ todo \in [Procs -> SUBSET Routes]
    /\ tab \in [Procs -> Table \cup {NoTable}]
    /\ view \in [Procs -> View \cup {NoView}]
    /\ got \in [Procs -> Answer \cup {NoAnswer}]

(* While no registration is under way, the live table is the one the       *)
(* router's builder and middleware would compile to now: nothing that was  *)
(* added, by Use on any level or by a route, is missing from it.           *)
Coherent ==
    (mu = Free /\ tbl # NoTable /\ \A p \in Procs : job[p] \notin Kinds) =>
      /\ tbl.of = b
      /\ tbl.router = rmw /\ tbl.builder = bmw[b]
      /\ \A r \in entries[b] : served[b][r] = chainOf(b)

(* The maps a lookup reads without a lock belong to a builder nobody is    *)
(* registering on or compiling: requests and compiles never race.          *)
NoMapRace ==
    \A p, q \in Procs : pc[q] = "find" => work[p] # tab[q].of

(* A table a request can look routes up in has a handler for every route   *)
(* it can find: compile is never published half-way, even when it panics.  *)
NoNilHandler ==
    \A p \in Procs : pc[p] = "find" =>
      \A r \in entries[tab[p].of] : served[tab[p].of][r] # NoChain

(* Requests already in flight finish against the table they started with:  *)
(* the answer is the one that table promised when the request loaded it.   *)
AnswersOwnTable ==
    \A p \in Procs : pc[p] = "reply" =>
      LET promised == view[p].chains[got[p].route]
      IN IF promised # NoChain
         THEN got[p].hit /\ got[p].chain = promised
         ELSE ~got[p].hit /\ got[p].chain = [router |-> view[p].router,
                                             builder |-> view[p].builder,
                                             group |-> 0]

(* Until Swap adopts it, what the callback builds can be seen by nobody.   *)
UnderConstructionHidden ==
    \A p \in Procs : pc[p] \in {"build", "swapLock"} =>
      /\ work[p] \notin adopted
      /\ tbl # NoTable => tbl.of # work[p]
      /\ \A q \in Procs : tab[q] # NoTable => tab[q].of # work[p]

(* Registering on a group of a replaced builder leaves the live table      *)
(* alone (router.go, the comment on Swap).                                 *)
StaleHasNoEffect ==
    [][\A p \in Procs : job[p] = "stale" /\ job'[p] # "stale" => tbl' = tbl]_vars

(* The router is an AtomicRouter.  A builder counts as replaced once it    *)
(* was adopted and is neither the one in force nor the one being adopted.  *)
Abstract == INSTANCE AtomicRouter WITH
    config <- Config,
    replaced <- (adopted \cup {First}) \ {Config.of, b},
    held <- view,
    reply <- got

(* Requests and reconfigurations happen one at a time, in some order that  *)
(* their real-time order respects: the detailed router implements the      *)
(* atomic one.                                                             *)
ImplementsAtomicRouter == Abstract!Spec

(* Every request is answered, or dies in a panicking middleware            *)
(* constructor: none waits for the mutex or for a reload for ever.         *)
RequestsAnswered ==
    \A p \in Procs : job[p] = "serve" ~> pc[p] \in {"reply", "idle"}

(* A Swap whose callback has returned without error returns.               *)
SwapsReturn == \A p \in Procs : pc[p] = "swapLock" ~> pc[p] = "idle"

-----------------------------------------------------------------------------
(* The inductive invariant behind NoMapRace, NoNilHandler and Coherent     *)
(* when the documented discipline is kept.                                 *)

DocumentedUse == Online = {}

Registering == \E p \in Procs : job[p] \in Kinds

Installing(p) == pc[p] \in {"compile", "install"}

(* The mutex has one holder, and it is where its code says it is.          *)
LockInv ==
    \A p \in Procs : mu = p <=> pc[p] \in {"compile", "install", "drop"}

JobInv ==
    \A p \in Procs :
      /\ pc[p] = "idle" <=> job[p] = "none"
      /\ pc[p] \in {"load", "lock", "find", "reply"} => job[p] = "serve"
      /\ pc[p] \in {"build", "swapLock"} => job[p] = "swap"
      /\ Installing(p) => job[p] \in {"serve", "swap"}
      /\ pc[p] \in {"drop", "invalidate"} => job[p] \in Kinds

DisciplineInv ==
    \A p, q \in Procs : job[p] = "serve" => job[q] \notin Kinds

(* Which builder each call works on, and that it has it to itself.         *)
WorkInv ==
    /\ b \in adopted \cup {NoBuilder}
    /\ \A p \in Procs :
         /\ pc[p] \in {"idle", "load", "lock", "find", "reply"} =>
              work[p] = NoBuilder
         /\ Installing(p) => work[p] = b /\ b # NoBuilder
         /\ pc[p] \in {"build", "swapLock"} =>
              work[p] \in Builders \ (adopted \cup {First})
         /\ pc[p] \in {"drop", "invalidate"} =>
              work[p] \in adopted \cup {NoBuilder}
    /\ \A p, q \in Procs :
         p # q /\ work[p] = work[q] => work[p] = NoBuilder

(* Tables belong to adopted builders; only the installer holds one that is *)
(* not live yet.                                                           *)
TableInv ==
    /\ tbl # NoTable => tbl.of \in adopted
    /\ \A p \in Procs :
         /\ tab[p] # NoTable => tab[p].of \in adopted
         /\ pc[p] = "find" => tab[p] # NoTable
         /\ pc[p] = "install" =>
              tab[p] = [of |-> work[p], router |-> rmw, builder |-> bmw[work[p]]]

(* A request compiles only a table nobody reads, Swap only a builder       *)
(* nobody has seen.                                                        *)
FreshInv ==
    /\ \A p \in Procs : Installing(p) =>
         /\ job[p] = "serve" => tbl = NoTable
         /\ job[p] = "swap" /\ tbl # NoTable => tbl.of # work[p]
    /\ \A q \in Procs : pc[q] = "find" /\ tbl = NoTable => tab[q].of # builder

(* Chains are only ever written for registered routes of adopted builders. *)
ServedInv ==
    /\ \A g \in Builders, r \in Routes :
         served[g][r] # NoChain => g \in adopted /\ r \in entries[g]
    /\ \A p \in Procs : Installing(p) => todo[p] \subseteq entries[work[p]]

(* What a request was promised is what its table's maps still hold.        *)
ViewInv ==
    \A p \in Procs : pc[p] = "find" =>
      view[p] = [of |-> tab[p].of, router |-> tab[p].router,
                 builder |-> tab[p].builder, chains |-> served[tab[p].of]]

Compiled(g) == \A r \in entries[g] : served[g][r] # NoChain

(* The chains compile has written so far are the current ones.             *)
CompileInv ==
    \A p \in Procs : Installing(p) =>
      /\ pc[p] = "install" => todo[p] = {}
      /\ \A r \in entries[work[p]] \ todo[p] :
           served[work[p]][r] = chainOf(work[p])

LiveInv ==
    tbl # NoTable /\ ~Registering => Compiled(tbl.of)

CoherentInv ==
    (~MayPanic /\ "builderUse" \notin Offline /\ tbl # NoTable /\ ~Registering
       /\ \A p \in Procs : ~(Installing(p) /\ job[p] = "swap")) =>
      /\ tbl.of = b
      /\ tbl.router = rmw /\ tbl.builder = bmw[b]
      /\ \A r \in entries[b] : served[b][r] = chainOf(b)

IInv ==
    /\ TypeOK /\ LockInv /\ JobInv /\ DisciplineInv /\ WorkInv /\ TableInv
    /\ FreshInv /\ ServedInv /\ ViewInv /\ CompileInv /\ LiveInv /\ CoherentInv
    /\ NoMapRace /\ NoNilHandler /\ AnswersOwnTable

(* What the refinement needs besides, where constructors do not panic.     *)

(* Only a request that has its table holds a promise, and only one that    *)
(* has looked up an answer.                                                *)
PromiseInv ==
    \A p \in Procs :
      /\ view[p] # NoView <=> pc[p] \in {"find", "reply"}
      /\ got[p] # NoAnswer <=> pc[p] = "reply"

(* The live table is of the builder in force, or of the one a Swap that    *)
(* holds the mutex is about to replace, and only a pending drop lets it    *)
(* lag behind the router's middleware.                                     *)
InForceInv ==
    tbl # NoTable =>
      /\ tbl.of = b \/ \E p \in Procs : Installing(p) /\ job[p] = "swap"
      /\ tbl.router = rmw \/ \E p \in Procs : pc[p] = "drop"

(* No table and no chain is ahead of the middleware it was compiled from.  *)
GrowthInv ==
    /\ tbl # NoTable => tbl.router <= rmw /\ tbl.builder <= bmw[tbl.of]
    /\ \A g \in Builders, r \in Routes : served[g][r] # NoChain =>
         /\ served[g][r].router <= rmw /\ served[g][r].builder <= bmw[g]
         /\ served[g][r].group <= own[g]

RInv == PromiseInv /\ InForceInv /\ GrowthInv
=============================================================================
