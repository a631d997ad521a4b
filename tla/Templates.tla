----------------------------- MODULE Templates -----------------------------
(***************************************************************************)
(* Paths and path templates, as the native router, its prefix tree and     *)
(* muxcompat share them.                                                   *)
(*                                                                         *)
(* A path is the sequence of its segments: "/a/b" is <<"a", "b">>, "/a/"   *)
(* is <<"a", "">>, "/" is <<"">> and the empty path is << >>.  (A path     *)
(* that does not begin with "/" matches no template and is left out.)      *)
(***************************************************************************)
EXTENDS Naturals, Sequences, SequencesExt

CONSTANT Accepts(_, _)  \* whether a value satisfies a wildcard's type (Check)

(* Segments of a template: literal text, a wildcard for one non-empty      *)
(* segment, a wildcard for the rest of the path.                           *)
Lit(t)      == [kind |-> "static", text |-> t, type |-> ""]
Param(n)    == [kind |-> "param", text |-> n, type |-> ""]
Typed(n, y) == [kind |-> "param", text |-> n, type |-> y]
CatchAll(n) == [kind |-> "catchAll", text |-> n, type |-> "..."]

(* A native catch-all carries the type "..." but no check.                 *)
Checked(s) == s.type \notin {"", "..."}
Passes(s, value) == ~Checked(s) \/ Accepts(s.type, value)

-----------------------------------------------------------------------------
(* Matching one template *)

SegmentMatches(s, value) == IF s.kind = "static" THEN s.text = value
                                                 ELSE value # "" /\ Passes(s, value)

PathMatches(segs, path) ==
    LET open == segs # << >> /\ Last(segs).kind = "catchAll"
        fixed == IF open THEN Len(segs) - 1 ELSE Len(segs)
    IN /\ IF open THEN Len(path) >= fixed ELSE Len(path) = fixed
       /\ \A i \in 1 .. fixed : SegmentMatches(segs[i], path[i])

(* A captured parameter, what the i-th segment captures, and all that a    *)
(* template captures that matches.                                         *)
Binding(s, value) == [name |-> s.text, value |-> value]

Bind(s, path, i) ==
    CASE s.kind = "static" -> << >>
      [] s.kind = "param" -> <<Binding(s, <<path[i]>>)>>
      [] s.kind = "catchAll" -> <<Binding(s, SubSeq(path, i, Len(path)))>>

Bindings(segs, path) == FlattenSeq([i \in DOMAIN segs |-> Bind(segs[i], path, i)])

-----------------------------------------------------------------------------
(* path.Clean of a rooted path, one segment at a time.                     *)
CleanStep(acc, s) ==
    CASE s \in {"", "."} -> acc
      [] s = ".." -> IF acc = << >> THEN acc ELSE Front(acc)
      [] OTHER -> Append(acc, s)
=============================================================================
