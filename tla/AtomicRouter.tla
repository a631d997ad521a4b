---------------------------- MODULE AtomicRouter ----------------------------
(***************************************************************************)
(* What Router promises, without mutex, pointer or shared maps (the        *)
(* comments on Router, Use and Swap in router.go): the router has one      *)
(* configuration at a time, it changes in single steps, and a request is   *)
(* answered from the one configuration that was in force when it looked.   *)
(***************************************************************************)
EXTENDS Integers

CONSTANTS Procs, Builders, Routes, NoChain, NoView, NoAnswer

Chain == [router : Nat, builder : Nat, group : Nat]

Configs == [of : Builders, router : Nat, builder : Nat,
            chains : [Routes -> Chain \cup {NoChain}]]

VARIABLES
    config,     \* the configuration in force
    replaced,   \* the builders whose configuration a Swap has replaced
    held,       \* the configuration each request is served from
    reply       \* the answer of each request

vars == <<config, replaced, held, reply>>

Init ==
    /\ \E g \in Builders :
         config = [of |-> g, router |-> 0, builder |-> 0,
                   chains |-> [r \in Routes |-> NoChain]]
    /\ replaced = {}
    /\ held = [p \in Procs |-> NoView]
    /\ reply = [p \in Procs |-> NoAnswer]

(* Registration only adds: a route stays, and so does the middleware.      *)
Grow(c, d) ==
    /\ d.of = c.of
    /\ d.router >= c.router /\ d.builder >= c.builder
    /\ \A r \in Routes : c.chains[r] # NoChain =>
         /\ d.chains[r] # NoChain
         /\ d.chains[r].router >= c.chains[r].router
         /\ d.chains[r].builder >= c.chains[r].builder
         /\ d.chains[r].group >= c.chains[r].group

(* Swap puts a builder never live before in place of the current one, and  *)
(* keeps the router's own middleware.                                      *)
Replace(c, d) ==
    /\ d.of \notin replaced \cup {c.of}
    /\ d.router = c.router

(* Middleware covers every route of the configuration alike.               *)
Uniform(c) ==
    \A r \in Routes : c.chains[r] # NoChain =>
      c.chains[r].router = c.router /\ c.chains[r].builder = c.builder

Reconfigure ==
    /\ config' \in Configs /\ Uniform(config')
    /\ \/ Grow(config, config') /\ UNCHANGED replaced
       \/ Replace(config, config') /\ replaced' = replaced \cup {config.of}
    /\ UNCHANGED <<held, reply>>

Look(p) ==
    /\ held[p] = NoView
    /\ held' = [held EXCEPT ![p] = config]
    /\ UNCHANGED <<config, replaced, reply>>

AnswerTo(c, r) ==
    IF c.chains[r] # NoChain
    THEN [route |-> r, hit |-> TRUE, chain |-> c.chains[r]]
    ELSE [route |-> r, hit |-> FALSE,
          chain |-> [router |-> c.router, builder |-> c.builder, group |-> 0]]

Respond(p) ==
    /\ held[p] # NoView /\ reply[p] = NoAnswer
    /\ \E r \in Routes : reply' = [reply EXCEPT ![p] = AnswerTo(held[p], r)]
    /\ UNCHANGED <<config, replaced, held>>

Finish(p) ==
    /\ reply[p] # NoAnswer
    /\ held' = [held EXCEPT ![p] = NoView]
    /\ reply' = [reply EXCEPT ![p] = NoAnswer]
    /\ UNCHANGED <<config, replaced>>

Next == Reconfigure \/ \E p \in Procs : Look(p) \/ Respond(p) \/ Finish(p)

Spec == Init /\ [][Next]_vars
=============================================================================
