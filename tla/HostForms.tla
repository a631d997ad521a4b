------------------------------ MODULE HostForms ------------------------------
(***************************************************************************)
(* What the documented forms of a host pattern mean (host.go, the comment  *)
(* on ValidateHost), stated over the labels of a host and not over its     *)
(* characters: the measure Hosts is checked against.                       *)
(*                                                                         *)
(* A label is a text, a host the sequence of its labels.  What a route is  *)
(* registered with is a form beside the text it is written as.             *)
(***************************************************************************)
EXTENDS Hosts

Exact(labels, port)       == [kind |-> "exact", labels |-> labels, name |-> NoName, port |-> port]
OneLabel(name, sfx, port) == [kind |-> "label", labels |-> sfx, name |-> name, port |-> port]
Leading(name, sfx, port)  == [kind |-> "wild", labels |-> sfx, name |-> name, port |-> port]
AnyHost(name, port)       == [kind |-> "any", labels |-> << >>, name |-> name, port |-> port]

(* No documented form.                                                     *)
Malformed == [kind |-> "malformed", labels |-> << >>, name |-> NoName, port |-> NoPort]

Dotted(labels) ==
    FoldLeft(LAMBDA acc, l : IF acc = << >> THEN l ELSE acc \o <<".">> \o l, << >>, labels)

(* The text of a form.                                                     *)
Written(f) ==
    LET body == Dotted(f.labels)
        open == IF f.name = NoName THEN <<"*">>
                ELSE IF f.kind = "label" THEN <<"{", f.name, "}">>
                ELSE <<"{", f.name, "...", "}">>
    IN (CASE f.kind = "any"   -> open
          [] f.kind = "exact" -> body
          [] OTHER -> open \o <<".">> \o body)
       \o (IF f.port = NoPort THEN << >> ELSE <<":">> \o f.port)

As(f, text) == [form |-> f, text |-> text]
Plainly(f) == As(f, Written(f))

-----------------------------------------------------------------------------
(* What a form admits; a request asks for labels, as it wrote them, and a  *)
(* port.                                                                   *)
Folded(labels) == [i \in DOMAIN labels |-> Lower(labels[i])]
BeforeForm(f, labels) == SubSeq(labels, 1, Len(labels) - Len(f.labels))

FormAdmits(f, asked) ==
    /\ f.port \in {NoPort, asked.port}
    /\ CASE f.kind = "any"   -> TRUE
         [] f.kind = "exact" -> Folded(asked.labels) = f.labels
         [] OTHER -> /\ IsSuffix(f.labels, Folded(asked.labels))
                     /\ LET n == Len(BeforeForm(f, asked.labels))
                        IN IF f.kind = "label" THEN n = 1 ELSE n > 0

FormCaptures(f, asked) ==
    IF f.name = NoName THEN << >>
    ELSE <<[name |-> f.name, value |-> Dotted(BeforeForm(f, asked.labels))]>>

FormScore(f) == <<KindRank(f.kind), IF f.port = NoPort THEN 0 ELSE 1, Len(f.labels)>>
=============================================================================
