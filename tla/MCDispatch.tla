----------------------------- MODULE MCDispatch -----------------------------
(***************************************************************************)
(* Tables, requests and middleware for checking Dispatch.                  *)
(***************************************************************************)
EXTENDS Dispatch

NoTypes(type, value) == TRUE

Call(method, segs) == [method |-> method, segs |-> segs, hosts |-> << >>,
                       priority |-> 0, name |-> NoName]

DispatchCalls ==
    { Call("GET", <<Lit("a")>>),
      Call("GET", <<Lit("a"), Lit("")>>),
      Call("POST", <<Lit("a"), Lit("")>>),
      Call("GET", <<CatchAll("r")>>),
      Call("POST", <<Lit("a"), CatchAll("r")>>),
      Call("*", <<Param("x"), Lit("b")>>) }

Ask3(method, paths) ==
    [path : paths, host : {<< >>}, port : {NoPort}, method : {method},
     asked : {[labels |-> << >>, port |-> NoPort]}]

DispatchRequests ==
    Ask3("GET", {<< >>, <<"">>, <<"a">>, <<"a", "">>, <<"a", "b", "">>,
                 <<"", "a", "">>, <<"a", "", "b">>, <<"a", ".", "">>,
                 <<"..", "a">>, <<"", ".", "a">>, <<"c", "..", "a", "">>})
    \cup Ask3("POST", {<<"a">>, <<"a", "">>, <<"b", "b">>, <<"", "a">>, <<"..", "a">>,
                       <<"c", ".", "b", "">>})
    \cup Ask3("HEAD", {<<"a">>, <<"a", "..", "a", "">>})

Untouched(path) == path
=============================================================================
