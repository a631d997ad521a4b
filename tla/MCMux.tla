------------------------------- MODULE MCMux -------------------------------
(***************************************************************************)
(* Routes and requests for checking Mux.                                   *)
(***************************************************************************)
EXTENDS Mux

IsNumber(type, value) == value = "7"
StartsWith(value, text) == text \in {"", value} \/ <<value, text>> = <<"ab", "a">>

Path(segs) == [call |-> "path", segs |-> segs]
PathPrefix(segs) == [call |-> "prefix", segs |-> segs]
Methods(S) == [call |-> "methods", methods |-> S]
Needs(r) == [call |-> "needs", needs |-> r]
Call(name) == [call |-> name]
To(calls) == Append(calls, Call("handler"))

(* Fast routes, static and in the tree; two that clash there; and the ways *)
(* a route can be slow: a pattern, a prefix, other matchers after or       *)
(* before the path, an error.                                              *)
RootChains ==
    { To(<<Path(<<Lit("a")>>), Methods({"GET"})>>),
      To(<<Path(<<Lit("a")>>), Methods({"POST"})>>),
      To(<<Path(<<Lit("a"), Param("x")>>)>>),
      To(<<Path(<<Lit("a"), Param("y")>>), Methods({"GET"})>>),
      To(<<Path(<<Lit("a"), Typed("n", "num")>>)>>),
      To(<<PathPrefix(<<Lit("a")>>)>>),
      To(<<Path(<<Lit("a")>>), Needs("key")>>),
      To(<<Needs("key"), Path(<<Lit("a"), Lit("")>>)>>),
      To(<<Path(<<Lit("b")>>), Call("fails"), Methods({"GET"})>>) }

(* A bare route, whose subrouter can index its routes, and a prefix that   *)
(* is reached only with the header.                                        *)
ParentChains == { << >>, <<Needs("key"), PathPrefix(<<Param("p")>>)>> }

(* A subrouter behind a method filter.                                     *)
RefusingParents == { <<PathPrefix(<<Lit("a")>>), Methods({"GET"})>> }

SubChains ==
    { To(<<Path(<<Lit("b")>>), Methods({"GET"})>>),
      To(<<Path(<<Lit("a"), Param("z")>>)>>),
      To(<<Path(<<Lit("a")>>)>>) }

LaterCalls == { Methods({"GET"}) }

Ask(path, methods, meets) == [path : {path}, method : methods, meets : meets]

AllRequests ==
    Ask(<<"a">>, {"GET", "POST"}, {{}, {"key"}})
    \cup Ask(<<"a", "">>, {"GET"}, {{}, {"key"}})
    \cup Ask(<<"a", "b">>, {"GET", "POST"}, {{}})
    \cup Ask(<<"a", "7">>, {"GET"}, {{}})
    \cup Ask(<<"ab">>, {"GET"}, {{}})
    \cup Ask(<<"b">>, {"GET", "POST"}, {{}})
    \cup Ask(<<"a", "", "b">>, {"GET"}, {{}})

(* Inner adds middleware of its own, or answers for its misses.            *)
SetupOfRoot == [middleware |-> TRUE, misses |-> FALSE, refuses |-> TRUE]
SetupsOfInner == { [middleware |-> TRUE, misses |-> FALSE, refuses |-> FALSE],
                   [middleware |-> FALSE, misses |-> TRUE, refuses |-> TRUE] }
=============================================================================
