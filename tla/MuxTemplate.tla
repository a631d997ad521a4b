---------------------------- MODULE MuxTemplate ----------------------------
(***************************************************************************)
(* Route templates (internal/template/template.go): parsing "/a/{x}" and   *)
(* "/a/{x:[0-9]+}", matching a text, taking the variables out of it, and   *)
(* building a text from values.                                            *)
(*                                                                         *)
(* A text is a sequence of characters; names and patterns are texts.  The  *)
(* regular expression a template compiles to is the sequence of its        *)
(* pieces.  Patterns are one class of characters, repeated, so that one    *)
(* piece has one way to read a text (alternatives are left out).           *)
(***************************************************************************)
EXTENDS Integers, Sequences, SequencesExt, FiniteSets, TLC

CONSTANTS
    Alphabet,  \* the characters of literal text and of requests
    Written    \* the patterns templates may contain, as Class or Capturing

Class(chars, least, most) ==
    [chars |-> chars, least |-> least, most |-> most, groups |-> FALSE]
Capturing == [Class({}, 0, 0) EXCEPT !.groups = TRUE]
Unbounded == 99  \* bound: longer than any text

-----------------------------------------------------------------------------
(* Pieces of a regular expression *)

DefaultPattern(kind) ==
    CASE kind = "host" -> <<"[^.]+">> [] kind = "query" -> <<".*">> [] OTHER -> <<"[^/]+">>

Defaults == (<<"[^.]+">> :> Class(Alphabet \ {"."}, 1, Unbounded))
            @@ (<<".*">> :> Class(Alphabet, 0, Unbounded))
            @@ (<<"[^/]+">> :> Class(Alphabet \ {"/"}, 1, Unbounded))
Meanings == Defaults @@ Written

Text(t) == [kind |-> "text", written |-> t, class |-> Capturing]
Group(patt) == [kind |-> "group", written |-> patt, class |-> Meanings[patt]]
OptionalSlash == [kind |-> "loose", written |-> << >>, class |-> Class({"/"}, 0, 1)]
AnyValue == [kind |-> "loose", written |-> << >>, class |-> Defaults[<<".*">>]]

InClass(class, value) ==
    Len(value) \in class.least .. class.most /\ ToSet(value) \subseteq class.chars
Fits(piece, value) ==
    IF piece.kind = "text" THEN value = piece.written ELSE InClass(piece.class, value)

(* The ways to read a text from its beginning: how many characters go to   *)
(* each piece.                                                             *)
Extended(r, piece, text) ==
    { [at |-> r.at + n, lengths |-> Append(r.lengths, n)] :
        n \in {k \in 0 .. Len(text) - r.at : Fits(piece, SubSeq(text, r.at + 1, r.at + k))} }

Readings(source, text) ==
    FoldLeft(LAMBDA S, piece : UNION {Extended(r, piece, text) : r \in S},
             {[at |-> 0, lengths |-> << >>]}, source)

(* Every piece takes as much as it can, the first one first.               *)
Greedier(a, b) == \E i \in DOMAIN a : a[i] > b[i] /\ \A j \in 1 .. i - 1 : a[j] = b[j]
Greediest(S) == CHOOSE r \in S : \A o \in S \ {r} : Greedier(r.lengths, o.lengths)

-----------------------------------------------------------------------------
(* Parse *)

(* braceIndices: where the outermost braces open and close.                *)
Braces(work) ==
    LET step(a, i) ==
          CASE work[i] = "{" -> [a EXCEPT !.level = @ + 1,
                                          !.start = IF a.level = 0 THEN i ELSE @]
            [] work[i] = "}" -> [a EXCEPT !.level = @ - 1, !.ok = @ /\ a.level > 0,
                                   !.spans = IF a.level = 1 THEN Append(@, <<a.start, i>>)
                                                            ELSE @]
            [] OTHER -> a
        end == FoldLeft(step, [level |-> 0, start |-> 0, spans |-> << >>, ok |-> TRUE],
                        [i \in DOMAIN work |-> i])
    IN [ok |-> end.ok /\ end.level = 0, spans |-> end.spans]

(* strings.SplitN(text, c, 2); all of the text is first without c.         *)
Cut(text, c) ==
    LET i == SelectInSeq(text, LAMBDA t : t = c)
    IN IF i = 0 THEN <<text, << >>>>
       ELSE <<SubSeq(text, 1, i - 1), SubSeq(text, i + 1, Len(text))>>

(* splitVar *)
Variable(body, default) ==
    LET parts == Cut(body, ":")
    IN [name |-> parts[1], pattern |-> IF parts[1] = body THEN default ELSE parts[2]]

Refused == [error |-> "refused"]
Fault(v) ==
    IF v.name = << >> \/ v.pattern \notin DOMAIN Meanings THEN "refused"
    ELSE IF Meanings[v.pattern].groups THEN "captures" ELSE "none"

(* The first variable that is not in order decides the error: a capturing  *)
(* group has one of its own.                                               *)
FirstFault(vars) ==
    FoldLeft(LAMBDA e, v : IF e = "none" THEN Fault(v) ELSE e, "none", vars)

(* What stands before the j-th variable, or after the last.                *)
Between(work, spans, j) ==
    SubSeq(work, IF j = 1 THEN 1 ELSE spans[j - 1][2] + 1,
           IF j > Len(spans) THEN Len(work) ELSE spans[j][1] - 1)

(* "key=" matches the key with any value.                                  *)
AnyQuery(kind, work) == kind = "query" /\ Cut(work, "=")[2] = << >>

Source(work, spans, vars, kind, strict) ==
    FlattenSeq([j \in DOMAIN spans |-> <<Text(Between(work, spans, j)),
                                         Group(vars[j].pattern)>>])
    \o <<Text(Between(work, spans, Len(spans) + 1))>>
    \o (IF strict THEN <<OptionalSlash>> ELSE << >>)
    \o (IF AnyQuery(kind, work) THEN <<AnyValue>> ELSE << >>)

(* Deviation: the slash cut off for matching is not put back.              *)
ReverseUnslashed(work, spans, endSlash) ==
    FlattenSeq([j \in DOMAIN spans |-> Between(work, spans, j) \o <<"%s">>])
    \o Between(work, spans, Len(spans) + 1)

Reversed(work, spans, endSlash) ==
    FlattenSeq([j \in DOMAIN spans |-> Between(work, spans, j) \o <<"%s">>])
    \o Between(work, spans, Len(spans) + 1)
    \o (IF endSlash THEN <<"/">> ELSE << >>)

(* Deviation: a text with an optional slash counts as literal.             *)
IsLiteralForgiving(work, spans, kind, strict) == spans = << >> /\ ~AnyQuery(kind, work)

IsLiteral(work, spans, kind, strict) ==
    spans = << >> /\ ~strict /\ ~AnyQuery(kind, work)

Compiled(tpl, work, spans, vars, kind, strict) ==
    [error |-> "none", raw |-> tpl, kind |-> kind, strict |-> strict, vars |-> vars,
     source |-> Source(work, spans, vars, kind, strict),
     reverse |-> Reversed(work, spans, work # tpl),
     static |-> Between(work, spans, 1),
     literal |-> IsLiteral(work, spans, kind, strict)]

Parse(tpl, kind, strictSlash) ==
    LET strict == strictSlash /\ kind = "path"
        work == IF strict /\ tpl # << >> /\ Last(tpl) = "/" THEN Front(tpl) ELSE tpl
        braces == Braces(work)
        spans == braces.spans
        vars == [j \in DOMAIN spans |->
                   Variable(SubSeq(work, spans[j][1] + 1, spans[j][2] - 1),
                            DefaultPattern(kind))]
    IN IF ~braces.ok \/ (kind = "query" /\ "=" \notin ToSet(tpl)) THEN Refused
       ELSE IF FirstFault(vars) # "none" THEN [error |-> FirstFault(vars)]
       ELSE Compiled(tpl, work, spans, vars, kind, strict)

-----------------------------------------------------------------------------
(* Match, Extract, Build *)

(* The pattern is anchored at its end, but for prefixes.                   *)
Complete(t, text) ==
    {r \in Readings(t.source, text) : t.kind = "prefix" \/ r.at = Len(text)}

TemplateMatch(t, text) ==
    IF t.literal THEN IF t.kind = "prefix" THEN IsPrefix(t.static, text) ELSE text = t.static
    ELSE Complete(t, text) # {}

(* The variables of a text that matches, as a function of their names: of  *)
(* several with one name the last counts (setVar).                         *)
Captured(t, text) ==
    LET lengths == Greediest(Complete(t, text)).lengths
        from(i) == FoldLeft(+, 0, SubSeq(lengths, 1, i - 1))
        value(j) == SubSeq(text, from(2 * j) + 1, from(2 * j) + lengths[2 * j])
    IN FoldLeft(LAMBDA f, j : (t.vars[j].name :> value(j)) @@ f, << >>,
                [j \in DOMAIN t.vars |-> j])

Extract(t, text) ==
    IF t.vars = << >> \/ Complete(t, text) = {} THEN << >> ELSE Captured(t, text)

(* Every variable is present and satisfies its pattern.                    *)
Buildable(t, values) ==
    \A j \in DOMAIN t.vars :
      /\ t.vars[j].name \in DOMAIN values
      /\ InClass(Meanings[t.vars[j].pattern], values[t.vars[j].name])

Build(t, values) ==
    LET holes(i) == Cardinality({j \in 1 .. i : t.reverse[j] = "%s"})
    IN FlattenSeq([i \in DOMAIN t.reverse |->
                     IF t.reverse[i] = "%s" THEN values[t.vars[holes(i)].name]
                                            ELSE <<t.reverse[i]>>])
=============================================================================
