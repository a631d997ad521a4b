-------------------------------- MODULE Hosts --------------------------------
(***************************************************************************)
(* Host patterns and the host of a request (host.go): how they are read,   *)
(* matched, captured and ranked.                                           *)
(*                                                                         *)
(* A text is a sequence of characters, of which a run of letters or digits *)
(* is one, "..." is another, and "H" is the upper case of "h": "H.d:1" is  *)
(* <<"H", ".", "d", ":", "1">>.                                            *)
(***************************************************************************)
EXTENDS Naturals, Sequences, SequencesExt, FiniteSetsExt

NoPort == << >>
NoName == ""

LowerCase(c) == IF c = "H" THEN "h" ELSE c
Lower(text) == [i \in DOMAIN text |-> LowerCase(text[i])]
EqualFold(x, y) == Lower(x) = Lower(y)

Places(text, c) == {i \in DOMAIN text : text[i] = c}
ContainsAny(text, chars) == ToSet(text) \cap chars # {}
After(text, i) == SubSeq(text, i + 1, Len(text))

-----------------------------------------------------------------------------
(* Patterns *)

Pattern(kind, name, literal, suffix, port) ==
    [kind |-> kind, name |-> name, literal |-> Lower(literal),
     suffix |-> Lower(suffix), port |-> Lower(port)]

Split(host, port) == <<[host |-> host, port |-> port]>>

(* splitPatternPort; << >> is its error, here and in what follows.         *)
SplitBracketed(raw) ==
    LET end == Min(Places(raw, "]"))
        rest == After(raw, end)
    IN CASE rest = << >> -> Split(raw, NoPort)
         [] rest # << >> /\ rest[1] = ":" -> Split(SubSeq(raw, 1, end), Tail(rest))
         [] OTHER -> << >>

SplitPatternPort(raw) ==
    LET colons == Places(raw, ":")
    IN CASE Head(raw) = "[" -> IF ContainsAny(raw, {"]"}) THEN SplitBracketed(raw) ELSE << >>
         [] Head(raw) # "[" /\ colons = {} -> Split(raw, NoPort)
         [] OTHER -> IF Cardinality(colons) > 1 \/ Last(raw) = ":" THEN << >>
                     ELSE Split(SubSeq(raw, 1, Min(colons) - 1), After(raw, Min(colons)))

(* checkLiteralHost: a dot at the end is let through.                      *)
PlausibleHost(s) ==
    /\ s # << >> /\ ~ContainsAny(s, {"*", "{", "}"})
    /\ s[1] # "."
    /\ \A i \in 1 .. Len(s) - 1 : ~(s[i] = "." /\ s[i + 1] = ".")

(* "{name}" or "{name...}", alone or in front of a suffix.                 *)
ParsePlaceholder(body, port) ==
    LET close == Min(Places(body, "}"))
        inner == SubSeq(body, 2, close - 1)
        rest == After(body, close)
        catchAll == inner # << >> /\ Last(inner) = "..."
        name == IF catchAll THEN Front(inner) ELSE inner
    IN CASE Len(name) # 1 \/ ContainsAny(name, {"{", ".", "*", ":", "..."}) -> << >>
         [] Len(name) = 1 /\ rest = << >> ->
              IF catchAll THEN <<Pattern("any", name[1], << >>, << >>, port)>> ELSE << >>
         [] OTHER ->
              IF rest[1] = "." /\ PlausibleHost(Tail(rest))
              THEN <<Pattern(IF catchAll THEN "wild" ELSE "label", name[1], << >>, rest, port)>>
              ELSE << >>

ParseBody(body, port) ==
    CASE body = <<"*">> -> <<Pattern("any", NoName, << >>, << >>, port)>>
      [] Len(body) > 1 /\ body[1] = "*" /\ body[2] = "." ->
           IF PlausibleHost(After(body, 2))
           THEN <<Pattern("wild", NoName, << >>, Tail(body), port)>> ELSE << >>
      [] body # << >> /\ body[1] = "{" ->
           IF ContainsAny(body, {"}"}) THEN ParsePlaceholder(body, port) ELSE << >>
      [] OTHER ->
           IF PlausibleHost(body)
           THEN <<Pattern("exact", NoName, body, << >>, port)>> ELSE << >>

ParseHostPattern(raw) ==
    LET split == SplitPatternPort(raw)
    IN IF raw = << >> \/ ContainsAny(raw, {"/", " "}) \/ split = << >> THEN << >>
       ELSE ParseBody(split[1].host, split[1].port)

(* match, and the suffix that trimHostSuffix removes.                      *)
InFront(p, host) == SubSeq(host, 1, Len(host) - Len(p.suffix))

HostAccepts(p, host) ==
    CASE p.kind = "any"   -> TRUE
      [] p.kind = "exact" -> EqualFold(host, p.literal)
      [] OTHER -> /\ Len(host) > Len(p.suffix) /\ IsSuffix(p.suffix, Lower(host))
                  /\ p.kind = "label" => ~ContainsAny(InFront(p, host), {"."})

PortAccepts(p, port) == p.port = NoPort \/ EqualFold(p.port, port)

Matches(p, host, port) == PortAccepts(p, port) /\ HostAccepts(p, host)

Captures(p, host) ==
    IF p.name = NoName THEN << >>
    ELSE <<[name |-> p.name, value |-> InFront(p, host)]>>

(* score: the kind, then whether a port is fixed, then how much of the     *)
(* host is fixed.                                                          *)
KindRank(k) == CASE k = "any" -> 0 [] k = "wild" -> 1
                 [] k = "label" -> 2 [] k = "exact" -> 3
Score(p) == <<KindRank(p.kind), IF p.port = NoPort THEN 0 ELSE 1,
              Len(p.literal) + Len(p.suffix)>>

(* Lexicographic "greater than" on scores.                                 *)
Outranks(x, y) ==
    \E i \in DOMAIN x : x[i] > y[i] /\ \A j \in 1 .. i - 1 : x[j] = y[j]

-----------------------------------------------------------------------------
AddOnce(acc, p) == IF Contains(acc, p[1]) THEN acc ELSE Append(acc, p[1])

(* compileHosts: each pattern once; they name their capture alike, or none *)
(* of them captures anything.                                              *)
CompileHosts(texts) ==
    LET parsed == [i \in DOMAIN texts |-> ParseHostPattern(texts[i])]
        named == {p[1].name : p \in ToSet(parsed) \ {<< >>}}
    IN IF << >> \in ToSet(parsed) \/ Cardinality(named) > 1
       THEN [ok |-> FALSE, pats |-> << >>]
       ELSE [ok |-> TRUE, pats |-> FoldLeft(AddOnce, << >>, parsed)]

-----------------------------------------------------------------------------
(* Requests *)

(* splitAuthority fails on nothing: what it cannot read is the host.       *)
SplitAuthority(authority) ==
    LET colons == Places(authority, ":")
        end == Min(Places(authority, "]"))
        rest == After(authority, end)
    IN CASE authority # << >> /\ authority[1] = "[" /\ ContainsAny(authority, {"]"}) ->
              Split(SubSeq(authority, 1, end),
                    IF Len(rest) > 1 /\ rest[1] = ":" THEN Tail(rest) ELSE NoPort)
         [] authority # << >> /\ authority[1] # "[" /\ Cardinality(colons) = 1 ->
              Split(SubSeq(authority, 1, Min(colons) - 1), After(authority, Min(colons)))
         [] OTHER -> Split(authority, NoPort)

(* requestAuthority: the Host header, or what the request target names.    *)
RequestAuthority(host, target) ==
    LET a == SplitAuthority(IF host = << >> THEN target ELSE host)[1]
    IN IF Len(a.host) > 1 /\ Last(a.host) = "." THEN [a EXCEPT !.host = Front(@)] ELSE a
=============================================================================
