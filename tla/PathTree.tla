------------------------------ MODULE PathTree ------------------------------
(***************************************************************************)
(* The prefix tree of internal/tree/tree.go: Insert, Lookup, Collect and   *)
(* Extract.                                                                *)
(*                                                                         *)
(* A node is named by the labels that lead to it, so a tree is a function  *)
(* from the nodes it has to what they hold.                                *)
(***************************************************************************)
EXTENDS Templates

EmptyNode == [params |-> << >>, catchAlls |-> << >>, values |-> << >>]
EmptyTree == [n \in {<< >>} |-> EmptyNode]

(* A function that also maps k, or maps it anew, to v.                     *)
With(f, k, v) == [x \in DOMAIN f \cup {k} |-> IF x = k THEN v ELSE f[x]]

(* x goes behind the last of the given positions, or first.                *)
InsertBehind(seq, positions, x) == InsertAt(seq, Max(positions \cup {0}) + 1, x)

(* The edge out of a node that a segment follows.                          *)
Label(s) == IF s.kind = "static" THEN <<"static", s.text>> ELSE <<s.kind, s.type>>

-----------------------------------------------------------------------------
(* Insert *)

(* follow: an edge of the same type must have the same name; a new         *)
(* constrained edge goes before the unconstrained ones.                    *)
Clashes(edges, s) ==
    \E i \in DOMAIN edges : edges[i].type = s.type /\ edges[i].text # s.text
Known(edges, s) == \E i \in DOMAIN edges : edges[i].type = s.type
WithEdge(edges, s) ==
    IF Known(edges, s) THEN edges
    ELSE IF Checked(s)
    THEN InsertBehind(edges, {i \in DOMAIN edges : Checked(edges[i])}, s)
    ELSE Append(edges, s)

WithNode(t, n) == IF n \in DOMAIN t THEN t ELSE With(t, n, EmptyNode)

(* One step of the walk that Insert makes; w.ok is FALSE once it has       *)
(* returned an error, and the nodes made on the way stay.  (A catch-all    *)
(* before the last segment never gets here: parsePattern refuses it.)      *)
Descend(w, s) ==
    LET n == Append(w.at, Label(s))
        edges == IF s.kind = "param" THEN w.tree[w.at].params
                                     ELSE w.tree[w.at].catchAlls
        linked == CASE s.kind = "static"   -> w.tree
                    [] s.kind = "param"    ->
                         [w.tree EXCEPT ![w.at].params = WithEdge(edges, s)]
                    [] s.kind = "catchAll" ->
                         [w.tree EXCEPT ![w.at].catchAlls = WithEdge(edges, s)]
    IN CASE ~w.ok -> w
         [] w.ok /\ s.kind # "static" /\ Clashes(edges, s) -> [w EXCEPT !.ok = FALSE]
         [] OTHER -> [tree |-> WithNode(linked, n), at |-> n, ok |-> TRUE]

Insert(t, segs, v) ==
    LET w == FoldLeft(Descend, [tree |-> t, at |-> << >>, ok |-> TRUE], segs)
    IN IF w.ok
       THEN [ok |-> TRUE, tree |-> [w.tree EXCEPT ![w.at].values = Append(@, v)]]
       ELSE [ok |-> FALSE, tree |-> w.tree]

Size(t) == Cardinality(UNION {{n} \X DOMAIN t[n].values : n \in DOMAIN t})

-----------------------------------------------------------------------------
(* Lookup and Collect *)

(* The nodes a walk may try from n on the next segment of a path, in       *)
(* order: whether the way is open, and the parameter it binds.             *)
Branches(t, n, seg) ==
    LET static == Append(n, <<"static", seg>>)
        edges == t[n].params
    IN <<[to |-> static, open |-> static \in DOMAIN t, binds |-> << >>]>>
       \o [i \in DOMAIN edges |-> [to |-> Append(n, Label(edges[i])),
                                   open |-> seg # "" /\ Passes(edges[i], seg),
                                   binds |-> <<Binding(edges[i], <<seg>>)>>]]

Nothing == [ok |-> FALSE, value |-> 0, params |-> << >>]
Found(v, params) == [ok |-> TRUE, value |-> v, params |-> params]

(* What the node's own values, if any, make of a walk that ends there.     *)
Here(nd, params) == IF nd.values = << >> THEN Nothing ELSE Found(Head(nd.values), params)

(* The catch-all edges of n that accept the remainder.                     *)
Rest(t, n, path) ==
    LET edges == t[n].catchAlls
    IN [i \in DOMAIN edges |->
          IF Passes(edges[i], path)
          THEN Here(t[Append(n, Label(edges[i]))], <<Binding(edges[i], path)>>)
          ELSE Nothing]

FirstFound(tries) ==
    LET found == {i \in DOMAIN tries : tries[i].ok}
    IN IF found = {} THEN Nothing ELSE tries[Min(found)]

(* The first match of a depth-first walk that backtracks, from a node on,  *)
(* for what is left of the path; deeper is what the nodes give for what is *)
(* left behind its head.                                                   *)
LookupFrom(t, n, left, deeper) ==
    LET branches == Branches(t, n, Head(left))
        below == [i \in DOMAIN branches |->
                    IF branches[i].open
                    THEN [deeper[branches[i].to] EXCEPT !.params = branches[i].binds \o @]
                    ELSE Nothing]
    IN FirstFound((IF left = << >> THEN <<Here(t[n], << >>)>> ELSE below)
                  \o Rest(t, n, left))

(* Every match; their order does not matter, for whoever asks sorts them.  *)
(* At the end of the path the catch-alls are taken unchecked.              *)
CollectFrom(t, n, left, deeper) ==
    LET open == {b \in ToSet(Branches(t, n, Head(left))) : b.open}
        behind == {e \in ToSet(t[n].catchAlls) : left = << >> \/ Passes(e, left)}
    IN (IF left = << >> THEN ToSet(t[n].values) ELSE UNION {deeper[b.to] : b \in open})
       \cup UNION {ToSet(t[Append(n, Label(e))].values) : e \in behind}

(* Both walk from the root with the whole path.                            *)
Ending(path, j) == SubSeq(path, Len(path) - j + 1, Len(path))

Lookup(t, path) ==
    LET from[j \in 0 .. Len(path)] ==
          [n \in DOMAIN t |-> LookupFrom(t, n, Ending(path, j), from[j - 1])]
    IN from[Len(path)][<< >>]

Collect(t, path) ==
    LET from[j \in 0 .. Len(path)] ==
          [n \in DOMAIN t |-> CollectFrom(t, n, Ending(path, j), from[j - 1])]
    IN from[Len(path)][<< >>]

-----------------------------------------------------------------------------
(* Extract: the parameters of one template, known to match.                *)
ExtractStep(acc, s) ==
    CASE ~acc.ok \/ acc.done -> acc
      [] acc.ok /\ ~acc.done /\ s.kind = "catchAll" ->
           IF Passes(s, acc.path)
           THEN [acc EXCEPT !.done = TRUE,
                            !.params = Append(@, Binding(s, acc.path))]
           ELSE [acc EXCEPT !.ok = FALSE]
      [] OTHER ->
           IF acc.path = << >> THEN [acc EXCEPT !.ok = FALSE]
           ELSE LET seg == Head(acc.path)
                IN IF s.kind = "static"
                   THEN [acc EXCEPT !.ok = seg = s.text, !.path = Tail(@)]
                   ELSE [acc EXCEPT !.ok = seg # "" /\ Passes(s, seg),
                                    !.path = Tail(@),
                                    !.params = Append(@, Binding(s, <<seg>>))]

Extract(segs, path) ==
    LET acc == FoldLeft(ExtractStep, [ok |-> TRUE, done |-> FALSE, path |-> path,
                                      params |-> << >>], segs)
    IN [ok |-> acc.ok /\ (acc.done \/ acc.path = << >>), params |-> acc.params]
=============================================================================
