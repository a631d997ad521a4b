------------------------------ MODULE Dispatch ------------------------------
(***************************************************************************)
(* What a client gets from ServeHTTP (router.go) on top of the route       *)
(* table: a route, a redirect, a 405 or a 404, and what it gets when it    *)
(* follows the redirects.                                                  *)
(*                                                                         *)
(* The table is built by registrations first and then serves: Router       *)
(* describes registration that overlaps requests.  No host is involved.    *)
(***************************************************************************)
EXTENDS RouteTable

CONSTANT Rewritten(_)   \* the path router middleware passes on for a path

(* What the clients of this module ask.                                    *)
Request == [path : Seq(STRING), method : STRING, host : Seq(STRING), port : Seq(STRING),
            asked : [labels : Seq(Seq(STRING)), port : Seq(STRING)]]

ASSUME RequestsAssumption == Requests \subseteq Request

VARIABLES
    opts,       \* CleanPath, RedirectTrailingSlash, whether there is router middleware
    phase,      \* "setup", "asking", "answered"
    first,      \* the client's own request
    req,        \* the request it sent last, perhaps led there by a Location
    asked,      \* the requests it sent before that one
    answer      \* what the router answered

vars == <<tableVars, opts, phase, first, req, asked, answer>>

None == [kind |-> "none"]

-----------------------------------------------------------------------------
(* Paths *)

EndsInSlash(path) == Last(path) = ""

(* Deviation: one superfluous segment is removed at a time.                *)
cleanPathOnce(path) ==
    LET idle == {i \in DOMAIN path : path[i] \in {"", "."} /\ i < Len(path)}
    IN IF path = << >> THEN <<"">>
       ELSE IF idle = {} THEN path
       ELSE LET i == CHOOSE i \in idle : \A j \in idle : i <= j
            IN SubSeq(path, 1, i - 1) \o SubSeq(path, i + 1, Len(path))

cleanPath(path) ==
    IF path = << >> THEN <<"">>
    ELSE LET np == FoldLeft(CleanStep, << >>, path)
         IN IF np = << >> \/ EndsInSlash(path) THEN Append(np, "") ELSE np

trailingSlashAlternative(path) ==
    IF EndsInSlash(path) THEN Front(path) ELSE Append(path, "")

HasAlternative(path) == path \notin {<< >>, <<"">>}

(* Leading slashes are collapsed to one.                                   *)
Collapsed(path) ==
    LET text == {i \in DOMAIN path : path[i] # "" \/ i = Len(path)}
        start == CHOOSE i \in text : \A j \in text : i <= j
    IN SubSeq(path, start, Len(path))

(* http.Redirect cleans the path of a Location that names no host.         *)
Location(path) == cleanPath(path)

-----------------------------------------------------------------------------
(* ServeHTTP, for given options o *)

(* Deviation: every redirect is a 301.                                     *)
redirectAlways301(q, why, to) ==
    [kind |-> "redirect", why |-> why, to |-> Location(Collapsed(to)), code |-> 301]

redirect(q, why, to) ==
    [kind |-> "redirect", why |-> why, to |-> Location(Collapsed(to)),
     code |-> IF q.method \in {"GET", "HEAD"} THEN 301 ELSE 308]

Unclean(o, q) == o.clean /\ cleanPath(q.path) # q.path

(* Deviation: the other form is not looked up ...                          *)
AltMatchedUnseen(q) == HasAlternative(q.path)

(* ... or only looked up when there is a slash to remove.                  *)
AltMatchedStripping(q) ==
    /\ HasAlternative(q.path) /\ EndsInSlash(q.path)
    /\ Find([q EXCEPT !.path = trailingSlashAlternative(@)]).pathMatched

AltMatched(q) ==
    /\ HasAlternative(q.path)
    /\ Find([q EXCEPT !.path = trailingSlashAlternative(@)]).pathMatched

answerUnmatched(o, q, pathMatched) ==
    IF o.slash /\ AltMatched(q)
    THEN redirect(q, "slash", trailingSlashAlternative(q.path))
    ELSE IF pathMatched THEN [kind |-> "405", allow |-> Allowed(q)]
    ELSE [kind |-> "404"]

(* Deviation: the clean-path redirect is forgotten behind middleware.      *)
resolveUnmatchedUncleaned(o, q) ==
    answerUnmatched(o, q, Find(q).pathMatched)

(* At the far end of the router's middleware everything is decided again,  *)
(* on the request as the middleware passed it on.                          *)
resolveUnmatched(o, q) ==
    IF Unclean(o, q) THEN redirect(q, "clean", cleanPath(q.path))
    ELSE answerUnmatched(o, q, Find(q).pathMatched)

Unmatched(o, q) == resolveUnmatched(o, [q EXCEPT !.path = Rewritten(@)])

Missed(o, q, pathMatched) ==
    IF o.wrapped THEN Unmatched(o, q) ELSE answerUnmatched(o, q, pathMatched)

Dispatched(o, q, found) ==
    IF found.route # NoRoute THEN [kind |-> "served", route |-> found.route]
    ELSE Missed(o, q, found.pathMatched)

ServeHTTP(o, q) ==
    IF Unclean(o, q)
    THEN IF o.wrapped THEN Unmatched(o, q)
         ELSE redirect(q, "clean", cleanPath(q.path))
    ELSE Dispatched(o, q, Find(q))

-----------------------------------------------------------------------------
Options == [clean : BOOLEAN, slash : BOOLEAN, wrapped : BOOLEAN]

Init ==
    /\ TableInit
    /\ opts \in Options
    /\ phase = "setup" /\ first = None /\ req = None
    /\ asked = {} /\ answer = None

Register ==
    /\ phase = "setup"
    /\ \E call \in Calls : Handle(call)
    /\ UNCHANGED <<opts, phase, first, req, asked, answer>>

Ask(q) ==
    /\ phase = "setup"
    /\ phase' = "asking" /\ first' = q /\ req' = q
    /\ UNCHANGED <<tableVars, opts, asked, answer>>

Serve ==
    /\ phase = "asking"
    /\ phase' = "answered" /\ answer' = ServeHTTP(opts, req)
    /\ UNCHANGED <<tableVars, opts, first, req, asked>>

(* A client replays a 301 as GET, unless it was HEAD, and a 308 as it was. *)
Followed(q, a) ==
    [q EXCEPT !.path = a.to,
              !.method = IF a.code = 301 /\ @ # "HEAD" THEN "GET" ELSE @]

Follow ==
    /\ phase = "answered" /\ answer.kind = "redirect"
    /\ phase' = "asking" /\ answer' = None
    /\ req' = Followed(req, answer)
    /\ asked' = asked \cup {req}
    /\ UNCHANGED <<tableVars, opts, first>>

Next ==
    \/ Register
    \/ \E q \in Requests : Ask(q)
    \/ Serve \/ Follow

Spec == Init /\ [][Next]_vars

-----------------------------------------------------------------------------
(* Properties.                                                             *)

(* The method and with it the body survive every redirect.                 *)
MethodSurvives == req # None => req.method = first.method

(* No empty segment but a last one, and no dot segment.                    *)
Canonical(path) ==
    /\ path # << >>
    /\ \A i \in DOMAIN path :
         /\ path[i] \notin {".", ".."}
         /\ path[i] = "" => i = Len(path)

(* Every Location is canonical and cleanPath leaves it alone, so CleanPath *)
(* never redirects the same client twice.                                  *)
LocationIsClean ==
    asked # {} => Canonical(req.path) /\ cleanPath(req.path) = req.path

(* Sending a client back to where it has been takes a path of which both   *)
(* slash forms have routes, none of them for the method.                   *)
LoopsOnlyBetweenForms ==
    answer.kind = "redirect" /\ Followed(req, answer) \in asked \cup {req} =>
      /\ opts.slash
      /\ OnSomeRoute(routes, req)
      /\ OnSomeRoute(routes, Followed(req, answer))
      /\ BestRoute(routes, req) = NoRoute

(* A client that asks for one slash form of a canonical path, when only    *)
(* the other has routes and one of them serves the method, is served.      *)
NoFalseMiss ==
    answer.kind \in {"405", "404"} =>
      LET path == IF opts.clean THEN cleanPath(first.path) ELSE first.path
          here == [first EXCEPT !.path = path]
          there == [first EXCEPT !.path = trailingSlashAlternative(path)]
      IN ~ /\ opts.slash /\ cleanPath(path) = path /\ HasAlternative(path)
           /\ ~OnSomeRoute(routes, here)
           /\ BestRoute(routes, there) # NoRoute

(* A client is never told 405 about a method that some route of the path   *)
(* serves (router.go, the comment on MethodNotAllowed).                    *)
RefusedMethodIsUnserved ==
    answer.kind = "405" => req.method \notin answer.allow

(* The answer worked out again behind the middleware is the answer the     *)
(* router gives when there is none.                                        *)
MiddlewareIsTransparent ==
    [][answer' \notin {answer, None} =>
         answer' = ServeHTTP([opts EXCEPT !.wrapped = FALSE], req)]_vars

(* A trailing-slash redirect is given only when just the other form is     *)
(* registered (router.go, the comment on RedirectTrailingSlash).           *)
RedirectsToOnlyForm ==
    answer.kind = "redirect" =>
      (answer.why = "slash" => ~OnSomeRoute(routes, req))
=============================================================================
