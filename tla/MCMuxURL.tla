------------------------------ MODULE MCMuxURL ------------------------------
(***************************************************************************)
(* Templates, calls and values for checking MuxURL.                        *)
(***************************************************************************)
EXTENDS MuxURL

Characters == {"/", "a", "h", "k", "7", ".", ":", "=", "&"}

Patterns == (<<"[0-9]+">> :> Class({"7"}, 1, Unbounded))
            @@ (<<"[0-9]", "{", "2", "}">> :> Class({"7"}, 2, 2))
            @@ (<<"(7)">> :> Capturing)

Of(call, text) == [call |-> call, texts |-> <<text>>]

Hosts == { Of("host", <<"{", "x", "}", ".", "h">>),
           Of("host", <<"{", "x", "}", ":", "{", "y", "}">>) }

(* As written and trimmed, with a number, a whole rest, a part of a        *)
(* segment, a pattern with braces; and two that are errors.                *)
Paths == { Of("path", << >>),
           Of("path", <<"/", "a">>),
           Of("path", <<"/", "{", "x", "}", "/">>),
           Of("path", <<"/", "{", "x", ":", "[0-9]+", "}", ".", "{", "y", "}">>),
           Of("path", <<"/", "{", "z", ":", ".*", "}">>),
           Of("path", <<"/", "{", "x", "}", "}">>),
           Of("path", <<"/", "{", "x", ":", "(7)", "}">>) }

PathPrefixes == { Of("prefix", <<"/", "{", "y", "}">>), Of("prefix", <<"/", "a", "/">>) }

Queries == { Of("query", <<"k", "=", "{", "x", "}">>),
             [call |-> "query",
              texts |-> << <<"k", "=">>,
                           <<"a", "=", "{", "y", ":", "[0-9]", "{", "2", "}", "}">> >>] }

Others == { [call |-> "schemes", schemes |-> <<"https", "http">>],
            [call |-> "vars", fn |-> "exchange"],
            [call |-> "name", name |-> "n1"], [call |-> "name", name |-> "n2"],
            [call |-> "odd"] }

EveryCall == Hosts \cup Paths \cup PathPrefixes \cup Queries \cup Others

X == <<"x">>
Y == <<"y">>
Z == <<"z">>

(* Gives x the value of y.                                                 *)
Exchange(fn, values) == IF Y \in DOMAIN values THEN (X :> values[Y]) @@ values ELSE values

ValuesOf(some) == [{X, Y} -> some]
PlainValues ==
    { f @@ (Z :> <<"a", "/", "7">>) : f \in ValuesOf({<<"7">>, <<"7", "7">>, <<"a", ".", "7">>}) }
    \cup { X :> <<"7">> }

(* A value that is not plain text in a query.                              *)
Ampersands == ValuesOf({<<"7">>, <<"a", "&", "7">>})

NoEscapes == << >>

SomeTexts ==
    { << >>, <<"/">>, <<"/", "a">>, <<"/", "a", "/">>, <<"/", "7">>, <<"/", "7", "/">>,
      <<"/", "7", ".", "a">>, <<"/", "a", "/", "7", ".", "a", "/">>, <<"/", "a", "/", "7">>,
      <<"a", ".", "h">>, <<"k", "=", "7">>, <<"k", "=">>, <<"7", ":", "7">> }
=============================================================================
