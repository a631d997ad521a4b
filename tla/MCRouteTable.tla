---------------------------- MODULE MCRouteTable ----------------------------
(***************************************************************************)
(* Calls and requests for checking RouteTable.                             *)
(***************************************************************************)
EXTENDS RouteTable

NoTypes(type, value) == TRUE

Call(method, segs) == [method |-> method, segs |-> segs, hosts |-> << >>,
                       priority |-> 0, name |-> NoName]
On(call, hosts) == [call EXCEPT !.hosts = hosts]
Urgent(call) == [call EXCEPT !.priority = -1]

H == <<"h">>
D == <<"d">>
K == <<"k">>
V6 == <<"[", ":", "1", "]">>
P1 == <<"1">>

ExH   == Plainly(Exact(<<H, D>>, NoPort))
ExHUp == As(Exact(<<H, D>>, NoPort), <<"H", ".", "d">>)
ExH1  == Plainly(Exact(<<H, D>>, P1))
ExV6  == Plainly(Exact(<<V6>>, P1))
LabS  == Plainly(OneLabel("s", <<D>>, NoPort))
WildS == Plainly(Leading("s", <<D>>, NoPort))
WildD == Plainly(Leading(NoName, <<D>>, NoPort))
AllW  == Plainly(AnyHost("w", NoPort))
Star  == Plainly(AnyHost(NoName, NoPort))
Star1 == Plainly(AnyHost(NoName, P1))

(* Texts of no form: labels missing or empty, braces and ports that do not *)
(* add up, wildcards out of place.                                         *)
Illegible == { As(Malformed, t) : t \in
    { <<".", "d">>, <<"h", ".", ".", "d">>, <<"*", "d">>, <<"h", ".", "*">>,
      <<"{", "s">>, <<"{", "s", "}">>, <<"{", "s", "}", "d">>, <<"h", ":">>,
      <<"h", ":", "1", ":", "1">>, <<"[", ":", "1">> } }

(* Templates that overlap in every way: static against wildcard against    *)
(* catch-all, a dead end behind a static segment, clashing names, a        *)
(* duplicate name, and one template that is refused whatever came before.  *)
PathCalls ==
    { Call("GET", <<Lit("a")>>),
      Call("GET", <<Param("x")>>), Call("*", <<Param("x")>>),
      Call("GET", <<Lit("a"), Param("x")>>),
      Call("GET", <<Param("x"), Lit("b")>>),
      Call("POST", <<Param("y"), Lit("b")>>),
      Call("GET", <<CatchAll("r")>>), Urgent(Call("POST", <<CatchAll("r")>>)),
      Call("*", <<Lit("a"), CatchAll("r")>>),
      [Call("GET", <<Lit("b")>>) EXCEPT !.name = "n"],
      [Call("HEAD", <<Lit("a"), Lit("b")>>) EXCEPT !.name = "n"],
      Call("GET", <<Param("x"), Param("x")>>) }

(* Every form of host pattern on one template, and two that share the      *)
(* template of a path call.                                                *)
HostCalls ==
    { On(Call("POST", <<Lit("a")>>), <<Star>>),
      On(Call("GET", <<Lit("a")>>), <<ExH>>),
      On(Call("POST", <<Lit("a")>>), <<ExH, WildD>>),
      On(Call("GET", <<Lit("a")>>), <<ExH1>>),
      On(Call("*", <<Lit("a")>>), <<WildS>>),
      On(Call("GET", <<Lit("a")>>), <<LabS>>),
      On(Call("GET", <<Lit("a")>>), <<AllW>>),
      On(Call("POST", <<Lit("a")>>), <<ExV6, ExHUp, ExH>>),
      On(Call("GET", <<Param("x")>>), <<LabS>>),
      On(Call("GET", <<Param("s")>>), <<LabS>>) }

AllCalls == PathCalls \cup HostCalls \cup {On(Call("GET", <<Lit("a")>>), <<h>>) : h \in Illegible}

(* A request for labels and a port, and the Host header that carries it,   *)
(* whatever the target of the request says.                                *)
Asking(labels, port) == [labels |-> labels, port |-> port]
Via(authority, asked) == [authority |-> authority, target |-> << >>, asked |-> asked]
Aimed(target, via) == [via EXCEPT !.target = target]
Header(asked) == Via(Dotted(asked.labels)
                       \o (IF asked.port = NoPort THEN << >> ELSE <<":">> \o asked.port), asked)

To(methods, paths, vias) ==
    { [method |-> m, path |-> p] @@ v : m \in methods, p \in paths, v \in vias }

(* Upper case, a trailing dot, an empty port, an address with and without  *)
(* a port, an authority with too many colons, and a request whose target   *)
(* names a host, with a Host header of its own and without one.            *)
Headers ==
    { Header(Asking(<<H, D>>, NoPort)), Header(Asking(<<K, H, D>>, P1)),
      Header(Asking(<<D>>, NoPort)), Header(Asking(<< >>, NoPort)),
      Header(Asking(<<V6>>, NoPort)), Header(Asking(<<V6>>, P1)),
      Via(<<"H", ".", "d", ".", ":", "1">>, Asking(<<<<"H">>, D>>, P1)),
      Via(<<"k", ".", "d", ":">>, Asking(<<K, D>>, NoPort)),
      Via(<<"h", ":", "1", ":", "1">>, Asking(<<<<"h", ":", "1", ":", "1">>>>, NoPort)),
      Aimed(<<"h", ".", "d", ":", "1">>, Header(Asking(<<D>>, NoPort))),
      Aimed(<<"h", ".", "d", ":", "1">>, Via(<< >>, Asking(<<H, D>>, P1))) }

AllRequests ==
    To({"GET", "HEAD", "POST"},
       {<< >>, <<"">>, <<"a">>, <<"b">>, <<"a", "">>, <<"a", "b">>, <<"c", "b">>},
       {Header(Asking(<<K, D>>, NoPort))})
    \cup To({"GET", "POST"}, {<<"a">>}, Headers)
    \cup To({"GET"}, {<<"c">>}, Headers)

(* What the theorems about lookup assume of calls and requests.  (The port *)
(* run has a pattern that is not read as it is meant.)                     *)
ASSUME AllRead ==
    Calls = AllCalls =>
      WithinDepth /\ \A q \in Arrived : Asks(q) /\ HostsRead(q) /\ RanksRead(q)

(* "*:1" beside "*" and beside an exact host.                              *)
PortCalls == { On(Call("GET", <<Lit("a")>>), <<Star1>>),
               On(Call("POST", <<Lit("a")>>), <<Star>>),
               On(Call("GET", <<Lit("a")>>), <<ExH>>),
               On(Call("GET", <<Lit("a")>>), <<ExH1>>) }
=============================================================================
