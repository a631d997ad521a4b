------------------------------ MODULE MCGroups ------------------------------
(***************************************************************************)
(* Prefixes, patterns, hosts and requests for checking Groups.             *)
(***************************************************************************)
EXTENDS Groups

NoTypes(type, value) == TRUE

Wildcards2 == ("{x}" :> Param("x")) @@ (MountParam :> CatchAll("mount"))
              @@ ("{f...}" :> CatchAll("f"))

(* With and without slashes at either end, and none at all.                *)
SomePaths == {<<"/", "a">>, <<"b", "/">>}
SomeMountPoints == {<<"m", "/">>, <<"/">>}
SomePatterns == {<<"m">>, <<"/", "m", "/", "{x}">>, <<"/", "{f...}">>}

D == <<"d">>
OnD == <<Plainly(Exact(<<D>>, NoPort))>>
SomeHosts == {OnD}
SomePriorities == {-1}

ViaHost(labels) == [authority |-> Dotted(labels), target |-> << >>,
                    asked |-> [labels |-> labels, port |-> NoPort]]
SomeRequests ==
    { [method |-> m, path |-> p] @@ v :
        m \in {"GET", "PUT"},
        p \in {<< >>, <<"">>, <<"m">>, <<"m", "">>, <<"m", "c">>, <<"mm">>,
               <<"a">>, <<"a", "m">>, <<"a", "m", "c">>, <<"a", "b", "m">>, <<"a", "">>},
        v \in {ViaHost(<<D>>), ViaHost(<<D, D>>)} }

(* The prefixes of groups inside n others, and all that they register.     *)
SomePrefixes[n \in 0 .. MaxGroups] ==
    IF n = 0 THEN {<< >>}
    ELSE SomePrefixes[n - 1]
         \cup {JoinPrefix(p, t) : p \in SomePrefixes[n - 1], t \in SomePaths}
SomeCalls == UNION {CallsUnder(p) : p \in SomePrefixes[MaxGroups]}

(* What the theorem about Mount assumes.                                   *)
ASSUME MountsAssumption ==
    /\ PrefixesNest(SomePrefixes) /\ CallsListed(SomePrefixes) /\ TextsAreNamed
    /\ WithinDepth /\ \A q \in Arrived : Asks(q) /\ HostsRead(q) /\ RanksRead(q)
=============================================================================
