----------------------------- MODULE GroupsProofs -----------------------------
(***************************************************************************)
(* Theorems about Groups, for every set of groups, hosts, patterns, mount  *)
(* points and every bound: groups form a tree, half a Mount is never       *)
(* installed, and a request passes exactly the middleware whose scope      *)
(* covers its route, from the widest scope to the narrowest.               *)
(*                                                                         *)
(* MwInv says of every middleware list that it holds, in the order of the  *)
(* calls, what was added to its scope.  chainTo strings the lists of a     *)
(* group and its ancestors together: that it exists and what it holds is   *)
(* shown by induction on the group, which is younger than its parent.      *)
(***************************************************************************)
EXTENDS Groups, Induction, SequenceTheorems

-----------------------------------------------------------------------------
(* Sequences *)

(* What Append leaves and what it adds.                                    *)
LEMMA AppendIs ==
  ASSUME NEW S, NEW s \in Seq(S), NEW x
  PROVE  /\ Append(s, x) \in Seq(S \cup {x})
         /\ Len(Append(s, x)) = Len(s) + 1
         /\ DOMAIN Append(s, x) = 1 .. Len(s) + 1
         /\ \A i \in 1 .. Len(s) : Append(s, x)[i] = s[i]
         /\ Append(s, x)[Len(s) + 1] = x
         /\ Append(s, x) # s
<1>1. s \in Seq(S \cup {x}) /\ x \in S \cup {x}
  OBVIOUS
<1> QED
  BY <1>1

-----------------------------------------------------------------------------
(* The shape of the state *)

GroupShape(P, H) == [parent : Nat, prefix : P, hosts : H, own : Seq(Nat), declares : BOOLEAN]
Leaf == [group : Nat, own : Seq(Nat), withHost : BOOLEAN]
Scope == [kind : {"router", "builder", "group", "route"}, of : Nat]

(* Prefixes, hosts and the calls themselves may be anything.               *)
ShapeInv ==
    /\ \E P, H : groups \in Seq(GroupShape(P, H))
    /\ \E C : routes \in Seq(C)
    /\ under \in Seq(Leaf) /\ scopes \in Seq(Scope)
    /\ routerMw \in Seq(Nat) /\ builderMw \in Seq(Nat)
    /\ errs \in Nat /\ live \in BOOLEAN

(* A registration is either recorded or counted as an error.               *)
LEMMA HandleOutcome ==
  ASSUME NEW call, Handle(call)
  PROVE  \/ routes' = Append(routes, call) /\ errs' = errs
         \/ routes' = routes /\ errs' = errs + 1
  BY DEF Handle, AddToEntry, AddStatic, AddToTree, RefuseInvalid, Refuse, Record

(* ... and the route, if there is one, knows its group and its own         *)
(* middleware; a table that is kept has a chain for every route.           *)
Recorded(g, own) ==
    /\ \E call : routes' = Append(routes, call)
    /\ \E w \in BOOLEAN : under' = Append(under, [group |-> g, own |-> own, withHost |-> w])
    /\ errs' = errs /\ compiled' = NotCompiled

Counted ==
    /\ routes' = routes /\ under' = under /\ errs' = errs + 1
    /\ compiled' \in {compiled, NotCompiled}

(* A call of handle is recorded or counted; nothing else comes of it.      *)
LEMMA RegisteredOutcome ==
  ASSUME ShapeInv, NEW g, NEW method, NEW text, NEW opts, NEW own,
         Registered(g, method, text, opts, own)
  PROVE  \/ Accepted /\ Recorded(g, own)
         \/ ~Accepted /\ Counted
<1>1. PICK call : Handle(call)
  BY DEF Registered
<1>2. PICK C : routes \in Seq(C)
  BY DEF ShapeInv
<1>3. CASE routes' = Append(routes, call) /\ errs' = errs
  <2>1. Accepted
    BY <1>2, <1>3, AppendIs DEF Accepted
  <2>2. (opts.hosts # <<Inherited>>) \in BOOLEAN
    OBVIOUS
  <2> QED
    BY <1>3, <2>1, <2>2 DEF Registered, Recorded
<1>4. CASE routes' = routes /\ errs' = errs + 1
  BY <1>4 DEF Registered, Accepted, Counted
<1> QED
  BY <1>1, <1>3, <1>4, HandleOutcome

-----------------------------------------------------------------------------
(* Types, and Mounts that are half done *)

Pair == [self : Nat, sub : Nat]

(* A Mount without its second half is the last one and under way, or has   *)
(* left an error behind.                                                   *)
HalfDone(k) == mounts[k].sub = NoRoute => errs > 0 \/ (mounting # << >> /\ k = Len(mounts))

MountInv ==
    /\ mounts \in Seq(Pair)
    /\ mounting # << >> => mounting[1].group \in Groups /\ mounts # << >>
    /\ \A k \in DOMAIN mounts : HalfDone(k)

GInv == ShapeInv /\ TypeOK /\ MountInv

(* The builder of a new router: the root group and nothing else.           *)
LEMMA InitGInv == Init => GInv
<1> SUFFICES ASSUME Init PROVE GInv
  OBVIOUS
<1>1. groups \in Seq(GroupShape({}, {})) /\ routes \in Seq({})
  BY DEF Init, TableInit
<1>2. ShapeInv
  BY <1>1 DEF Init, TableInit, ShapeInv
<1>3. TypeOK
  BY DEF Init, TableInit, TypeOK, NotCompiled, ToSet
<1>4. MountInv
  BY DEF Init, MountInv
<1> QED
  BY <1>2, <1>3, <1>4 DEF GInv

(* What is added to the middleware.                                        *)
LEMMA AddedScope ==
  ASSUME ShapeInv, NEW scope \in Scope, Added(scope)
  PROVE  /\ NextMw \in Nat /\ NextMw = Len(scopes) + 1
         /\ scopes' = Append(scopes, scope) /\ scopes' \in Seq(Scope)
  BY DEF ShapeInv, Added, NextMw

(* Middleware given with a group or a route is at most one new call.       *)
LEMMA BroughtScope ==
  ASSUME ShapeInv, NEW scope \in Scope, NEW own \in {<< >>, <<NextMw>>}, Brings(own, scope)
  PROVE  /\ own \in Seq(Nat) /\ scopes' \in Seq(Scope)
         /\ \/ own = << >> /\ scopes' = scopes
            \/ own = <<NextMw>> /\ own # << >> /\ scopes' = Append(scopes, scope)
<1>1. NextMw \in Nat
  BY DEF ShapeInv, NextMw
<1>2. << >> \in Seq(Nat) /\ <<NextMw>> \in Seq(Nat)
  BY <1>1
<1>3. scopes \in Seq(Scope) /\ Append(scopes, scope) \in Seq(Scope)
  BY DEF ShapeInv
<1>4. \/ own = << >> /\ scopes' = scopes
      \/ own = <<NextMw>> /\ own # << >> /\ scopes' = Append(scopes, scope)
  BY DEF Brings, Added
<1> QED
  BY <1>2, <1>3, <1>4

LEMMA ScopeIs ==
  /\ OfRouter \in Scope /\ OfBuilder \in Scope
  /\ \A g \in Nat : OfGroup(g) \in Scope /\ OfRoute(g) \in Scope
BY DEF Scope, OfRouter, OfBuilder, OfGroup, OfRoute

(* A new group is the youngest; nothing happens to the others.             *)
AddsGroup(p, own) ==
    /\ \E P, H : groups' \in Seq(GroupShape(P, H))
    /\ Len(groups') = Len(groups) + 1
    /\ \A g \in DOMAIN groups : groups'[g] = groups[g]
    /\ groups'[Len(groups) + 1].parent = p /\ groups'[Len(groups) + 1].own = own

(* Group and Host append one node to the tree of groups.                   *)
LEMMA GroupAdded ==
  ASSUME ShapeInv, NEW p \in Nat, NEW prefix, NEW hosts, NEW own \in Seq(Nat),
         NEW declares \in BOOLEAN,
         groups' = Append(groups, [parent |-> p, prefix |-> prefix, hosts |-> hosts,
                                   own |-> own, declares |-> declares])
  PROVE  AddsGroup(p, own)
<1> DEFINE node == [parent |-> p, prefix |-> prefix, hosts |-> hosts,
                    own |-> own, declares |-> declares]
<1>1. PICK P, H : groups \in Seq(GroupShape(P, H))
  BY DEF ShapeInv
<1> DEFINE N == GroupShape(P \cup {prefix}, H \cup {hosts})
<1>2. GroupShape(P, H) \subseteq N /\ node \in N
  BY DEF GroupShape
<1>3. groups \in Seq(N) /\ groups' = Append(groups, node)
  <2>1. groups' = Append(groups, node)
    OBVIOUS
  <2> HIDE DEF N, node
  <2> QED
    BY <1>1, <1>2, <2>1
<1>4. node.parent = p /\ node.own = own
  OBVIOUS
<1>5. groups' \in Seq(N) /\ Len(groups') = Len(groups) + 1
      /\ (\A g \in DOMAIN groups : groups'[g] = groups[g])
      /\ groups'[Len(groups) + 1] = node
  <2> HIDE DEF N, node
  <2> QED
    BY <1>2, <1>3
<1> QED
  BY <1>4, <1>5 DEF AddsGroup

(* The middleware a group gains is the only thing that changes in it.      *)
GainsOwn(g) ==
    /\ \E P, H : groups' \in Seq(GroupShape(P, H))
    /\ Len(groups') = Len(groups)
    /\ \A h \in DOMAIN groups :
         /\ groups'[h].parent = groups[h].parent
         /\ groups'[h].own = IF h = g THEN Append(groups[h].own, NextMw) ELSE groups[h].own

(* Group.Use appends to the list of one group.                             *)
LEMMA GroupGains ==
  ASSUME ShapeInv, NEW g \in DOMAIN groups,
         groups' = [groups EXCEPT ![g].own = Append(@, NextMw)]
  PROVE  GainsOwn(g)
<1>1. PICK P, H : groups \in Seq(GroupShape(P, H))
  BY DEF ShapeInv
<1>2. NextMw \in Nat
  BY DEF ShapeInv, NextMw
<1>3. \A h \in DOMAIN groups : groups[h] \in GroupShape(P, H)
  BY <1>1
<1>4. Append(groups[g].own, NextMw) \in Seq(Nat)
  BY <1>2, <1>3 DEF GroupShape
<1>5. [groups[g] EXCEPT !.own = Append(@, NextMw)] \in GroupShape(P, H)
  BY <1>3, <1>4 DEF GroupShape
<1>6. groups' = [groups EXCEPT ![g] = [groups[g] EXCEPT !.own = Append(@, NextMw)]]
  OBVIOUS
<1>7. groups' \in Seq(GroupShape(P, H)) /\ Len(groups') = Len(groups)
  BY <1>1, <1>5, <1>6
<1>8. \A h \in DOMAIN groups :
         /\ groups'[h].parent = groups[h].parent
         /\ groups'[h].own = IF h = g THEN Append(groups[h].own, NextMw) ELSE groups[h].own
  BY <1>1, <1>3, <1>6 DEF GroupShape
<1> QED
  BY <1>7, <1>8 DEF GainsOwn

(* Each action keeps the types, the tree of groups and the halves of       *)
(* mounts.                                                                 *)
LEMMA GroupAddedTypes ==
  ASSUME GInv, NEW p \in Groups, NEW own, AddsGroup(p, own), scopes' \in Seq(Scope),
         UNCHANGED <<tableVars, routerMw, builderMw, under, mounting, mounts, live, compiled>>
  PROVE  GInv'
<1>1. PICK P, H : groups' \in Seq(GroupShape(P, H))
  BY DEF AddsGroup
<1>2. PICK P0, H0 : groups \in Seq(GroupShape(P0, H0))
  BY DEF GInv, ShapeInv
<1>3. /\ DOMAIN groups = 1 .. Len(groups) /\ Len(groups) \in Nat
      /\ DOMAIN groups' = 1 .. Len(groups) + 1 /\ Len(groups') = Len(groups) + 1
  BY <1>1, <1>2 DEF AddsGroup
<1>4. Groups \subseteq Groups'
  BY <1>3 DEF Groups
<1>5. ShapeInv'
  BY <1>1 DEF GInv, ShapeInv, tableVars
<1>6. TypeOK'
  <2>1. \A g \in DOMAIN groups' : groups'[g].parent \in 0 .. g - 1
    BY <1>3 DEF GInv, TypeOK, AddsGroup, Groups
  <2> QED
    BY <1>4, <2>1 DEF GInv, TypeOK, tableVars
<1>7. MountInv'
  BY <1>4 DEF GInv, MountInv, HalfDone, tableVars
<1> QED
  BY <1>5, <1>6, <1>7 DEF GInv

LEMMA NewGroupTypes ==
  ASSUME GInv, NEW p \in Groups, NEW prefix, NEW own \in {<< >>, <<NextMw>>},
         NewGroup(p, prefix, own)
  PROVE  AddsGroup(p, own) /\ GInv'
<1>1. p \in Nat /\ Len(groups) \in Nat
  BY DEF Groups, GInv, ShapeInv
<1>2. OfGroup(Len(groups) + 1) \in Scope
  BY <1>1, ScopeIs
<1>3. own \in Seq(Nat) /\ scopes' \in Seq(Scope)
  BY <1>2, BroughtScope DEF NewGroup, GInv
<1>4. AddsGroup(p, own)
  BY <1>1, <1>3, GroupAdded DEF NewGroup, GInv
<1> QED
  BY <1>3, <1>4, GroupAddedTypes DEF NewGroup

LEMMA HostTypes ==
  ASSUME GInv, NEW p \in Groups, NEW hosts, Host(p, hosts)
  PROVE  AddsGroup(p, << >>) /\ GInv'
<1>1. p \in Nat /\ << >> \in Seq(Nat)
  BY DEF Groups
<1>2. AddsGroup(p, << >>)
  BY <1>1, GroupAdded DEF Host, GInv
<1>3. scopes' \in Seq(Scope)
  BY DEF Host, GInv, ShapeInv
<1> QED
  BY <1>2, <1>3, GroupAddedTypes DEF Host

LEMMA NotCompiledIsEmpty == ToSet(NotCompiled) = {}
BY DEF ToSet, NotCompiled

LEMMA GroupUseTypes ==
  ASSUME GInv, NEW g \in Groups \ {0}, GroupUse(g)
  PROVE  g \in DOMAIN groups /\ GainsOwn(g) /\ GInv'
<1>1. PICK P0, H0 : groups \in Seq(GroupShape(P0, H0))
  BY DEF GInv, ShapeInv
<1>2. g \in DOMAIN groups /\ g \in Nat
  BY <1>1 DEF Groups
<1>3. GainsOwn(g)
  BY <1>2, GroupGains DEF GroupUse, GInv
<1>4. scopes' \in Seq(Scope)
  BY <1>2, ScopeIs, AddedScope DEF GroupUse, GInv
<1>5. PICK P, H : groups' \in Seq(GroupShape(P, H))
  BY <1>3 DEF GainsOwn
<1>6. DOMAIN groups' = DOMAIN groups /\ Groups' = Groups
  BY <1>1, <1>3, <1>5 DEF GainsOwn, Groups
<1>7. ShapeInv'
  BY <1>4, <1>5 DEF GInv, ShapeInv, tableVars, GroupUse
<1>8. TypeOK'
  <2>1. ToSet(compiled') = {}
    BY NotCompiledIsEmpty DEF GroupUse
  <2> QED
    BY <1>3, <1>6, <2>1 DEF GInv, TypeOK, tableVars, GroupUse, GainsOwn
<1>9. MountInv'
  BY <1>6 DEF GInv, MountInv, HalfDone, tableVars, GroupUse
<1> QED
  BY <1>2, <1>3, <1>7, <1>8, <1>9 DEF GInv

LEMMA RouterUseTypes ==
  ASSUME GInv, RouterUse
  PROVE  GInv'
<1>1. scopes' \in Seq(Scope) /\ NextMw \in Nat
  BY ScopeIs, AddedScope DEF RouterUse, GInv
<1>2. routerMw' \in Seq(Nat)
  BY <1>1 DEF RouterUse, GInv, ShapeInv
<1>3. ShapeInv'
  BY <1>1, <1>2 DEF RouterUse, GInv, ShapeInv, tableVars
<1>4. TypeOK'
  <2>1. ToSet(compiled') = {}
    BY NotCompiledIsEmpty DEF RouterUse
  <2> QED
    BY <2>1 DEF GInv, TypeOK, tableVars, RouterUse, Groups
<1>5. MountInv'
  BY DEF GInv, MountInv, HalfDone, tableVars, RouterUse, Groups
<1> QED
  BY <1>3, <1>4, <1>5 DEF GInv

LEMMA BuilderUseTypes ==
  ASSUME GInv, BuilderUse
  PROVE  GInv'
<1>1. scopes' \in Seq(Scope) /\ NextMw \in Nat
  BY ScopeIs, AddedScope DEF BuilderUse, GInv
<1>2. builderMw' \in Seq(Nat)
  BY <1>1 DEF BuilderUse, GInv, ShapeInv
<1>3. ShapeInv'
  BY <1>1, <1>2 DEF BuilderUse, GInv, ShapeInv, tableVars
<1>4. TypeOK'
  BY DEF GInv, TypeOK, tableVars, BuilderUse, Groups
<1>5. MountInv'
  BY DEF GInv, MountInv, HalfDone, tableVars, BuilderUse, Groups
<1> QED
  BY <1>3, <1>4, <1>5 DEF GInv

LEMMA RecordedTypes ==
  ASSUME GInv, NEW g \in Groups, NEW own \in Seq(Nat), Recorded(g, own),
         scopes' \in Seq(Scope), UNCHANGED <<groups, routerMw, builderMw, live>>
  PROVE  /\ ShapeInv' /\ TypeOK'
         /\ Len(routes') = Len(routes) + 1 /\ Len(routes) \in Nat
         /\ Len(under) = Len(routes) /\ Len(under') = Len(routes) + 1
         /\ \A i \in DOMAIN under : under'[i] = under[i]
         /\ under'[Len(under) + 1].group = g /\ under'[Len(under) + 1].own = own
<1>1. PICK C : routes \in Seq(C)
  BY DEF GInv, ShapeInv
<1>2. PICK call : routes' = Append(routes, call)
  BY DEF Recorded
<1>3. PICK w \in BOOLEAN :
         under' = Append(under, [group |-> g, own |-> own, withHost |-> w])
  BY DEF Recorded
<1>4. [group |-> g, own |-> own, withHost |-> w] \in Leaf
  BY DEF Leaf, Groups, GInv, ShapeInv
<1>5. under \in Seq(Leaf) /\ under' \in Seq(Leaf)
  BY <1>3, <1>4 DEF GInv, ShapeInv
<1>6. routes' \in Seq(C \cup {call}) /\ Len(routes') = Len(routes) + 1
  BY <1>1, <1>2, AppendIs
<1>7. Len(under) = Len(routes) /\ DOMAIN under = 1 .. Len(under) /\ Len(routes) \in Nat
  BY <1>1, <1>5 DEF GInv, TypeOK
<1>8. DOMAIN under' = DOMAIN routes'
  BY <1>3, <1>5, <1>6, <1>7
<1>9. /\ \A i \in DOMAIN under : under'[i] = under[i]
      /\ under'[Len(under) + 1].group = g /\ under'[Len(under) + 1].own = own
  BY <1>3, <1>5, <1>7
<1>10. ShapeInv'
  BY <1>5, <1>6 DEF GInv, ShapeInv, Recorded
<1>11. TypeOK'
  <2>1. ToSet(compiled') = {}
    BY NotCompiledIsEmpty DEF Recorded
  <2>2. \A i \in DOMAIN under' : under'[i].group \in Groups
    BY <1>3, <1>5, <1>7, <1>9 DEF GInv, TypeOK
  <2>3. Groups' = Groups
    BY DEF Groups
  <2> QED
    BY <1>8, <2>1, <2>2, <2>3 DEF GInv, TypeOK
<1>12. Len(under') = Len(routes) + 1
  BY <1>3, <1>5, <1>7
<1> QED
  BY <1>6, <1>7, <1>9, <1>10, <1>11, <1>12

LEMMA CountedTypes ==
  ASSUME GInv, Counted, scopes' \in Seq(Scope), UNCHANGED <<groups, routerMw, builderMw, live>>
  PROVE  ShapeInv' /\ TypeOK'
<1>1. ShapeInv'
  BY DEF GInv, ShapeInv, Counted
<1>2. Groups' = Groups
  BY DEF Groups
<1>3. TypeOK'
  BY <1>2, NotCompiledIsEmpty DEF GInv, TypeOK, Counted
<1> QED
  BY <1>1, <1>3

LEMMA HandleInTypes ==
  ASSUME GInv, NEW g \in Groups, NEW method, NEW text, NEW opts,
         NEW own \in {<< >>, <<NextMw>>}, HandleIn(g, method, text, opts, own)
  PROVE  GInv'
<1>1. PICK C : routes \in Seq(C)
  BY DEF GInv, ShapeInv
<1>2. OfRoute(Len(routes) + 1) \in Scope
  BY <1>1, ScopeIs
<1>3. own \in Seq(Nat) /\ scopes' \in Seq(Scope)
  BY <1>2, BroughtScope DEF HandleIn, GInv
<1>4. UNCHANGED <<groups, routerMw, builderMw, mounting, mounts, live>>
  BY DEF HandleIn
<1>5. \/ Accepted /\ Recorded(g, own)
      \/ ~Accepted /\ Counted
  BY RegisteredOutcome DEF HandleIn, GInv
<1>6. ShapeInv' /\ TypeOK'
  BY <1>3, <1>4, <1>5, RecordedTypes, CountedTypes
<1>7. MountInv'
  <2>1. errs \in Nat /\ (errs' = errs \/ errs' = errs + 1)
    BY <1>5 DEF Recorded, Counted, GInv, ShapeInv
  <2> QED
    BY <1>4, <2>1 DEF GInv, MountInv, HalfDone, Groups
<1> QED
  BY <1>6, <1>7 DEF GInv

LEMMA MountSelfTypes ==
  ASSUME GInv, NEW g \in Groups, NEW prefix, NEW opts, MountSelf(g, prefix, opts)
  PROVE  GInv'
<1>1. UNCHANGED <<groups, routerMw, builderMw, scopes, live>> /\ mounting = << >>
  BY DEF MountSelf
<1>2. << >> \in Seq(Nat) /\ scopes' \in Seq(Scope)
  BY <1>1 DEF GInv, ShapeInv
<1>3. \/ Accepted /\ Recorded(g, << >>)
      \/ ~Accepted /\ Counted
  BY RegisteredOutcome DEF MountSelf, GInv
<1>4. ShapeInv' /\ TypeOK'
  BY <1>1, <1>2, <1>3, RecordedTypes, CountedTypes
<1>5. mounts \in Seq(Pair) /\ \A k \in DOMAIN mounts : mounts[k].sub = NoRoute => errs > 0
  BY <1>1 DEF GInv, MountInv, HalfDone
<1>6. MountInv'
  <2>1. CASE Accepted
    <3>1. Len(routes') \in Nat /\ errs' = errs
      BY <1>1, <1>2, <1>3, <2>1, RecordedTypes DEF Recorded
    <3>2. mounts' = Append(mounts, [self |-> Len(routes'), sub |-> NoRoute])
          /\ mounting' = <<[group |-> g, sub |-> MountPatterns(prefix).sub, opts |-> opts]>>
      BY <2>1 DEF MountSelf
    <3>3. mounts' \in Seq(Pair)
      BY <1>5, <3>1, <3>2 DEF Pair, NoRoute
    <3>4. mounting' # << >> /\ mounting'[1].group = g /\ mounts' # << >>
      BY <1>5, <3>2
    <3>5. \A k \in DOMAIN mounts' : \/ k \in DOMAIN mounts /\ mounts'[k] = mounts[k]
                                    \/ k = Len(mounts')
      BY <1>5, <3>2
    <3>6. Groups' = Groups
      BY <1>1 DEF Groups
    <3> QED
      BY <1>5, <3>1, <3>3, <3>4, <3>5, <3>6 DEF MountInv, HalfDone
  <2>2. CASE ~Accepted
    <3>1. errs' > 0
      BY <1>3, <2>2 DEF Counted, GInv, ShapeInv
    <3> QED
      BY <1>5, <2>2, <3>1 DEF MountInv, HalfDone, MountSelf
  <2> QED
    BY <2>1, <2>2
<1> QED
  BY <1>4, <1>6 DEF GInv

LEMMA MountSubTypes ==
  ASSUME GInv, MountSub
  PROVE  GInv'
<1> DEFINE g == mounting[1].group
<1>1. UNCHANGED <<groups, routerMw, builderMw, scopes, live>> /\ mounting # << >>
      /\ mounting' = << >>
  BY DEF MountSub
<1>2. << >> \in Seq(Nat) /\ scopes' \in Seq(Scope)
  BY <1>1 DEF GInv, ShapeInv
<1>3. g \in Groups
  BY <1>1 DEF GInv, MountInv
<1>4. \/ Accepted /\ Recorded(g, << >>)
      \/ ~Accepted /\ Counted
  BY RegisteredOutcome DEF MountSub, GInv
<1>5. ShapeInv' /\ TypeOK'
  BY <1>1, <1>2, <1>3, <1>4, RecordedTypes, CountedTypes
<1>6. /\ mounts \in Seq(Pair)
      /\ \A k \in DOMAIN mounts : mounts[k].sub = NoRoute => errs > 0 \/ k = Len(mounts)
      /\ Len(mounts) \in DOMAIN mounts
  <2>1. mounts \in Seq(Pair) /\ mounts # << >>
    BY <1>1 DEF GInv, MountInv
  <2> QED
    BY <2>1 DEF GInv, MountInv, HalfDone
<1>7. MountInv'
  <2>1. CASE Accepted
    <3>1. Len(routes') \in Nat \ {0} /\ errs' = errs
      BY <1>1, <1>2, <1>3, <1>4, <2>1, RecordedTypes DEF Recorded
    <3> DEFINE last == Len(mounts)
               whole == [mounts[last] EXCEPT !.sub = Len(routes')]
    <3>2. mounts' = [mounts EXCEPT ![last] = whole]
      BY <2>1 DEF MountSub
    <3>3. mounts[last] \in Pair
      BY <1>6
    <3>4. whole \in Pair /\ whole.sub = Len(routes')
      BY <3>1, <3>3 DEF Pair
    <3>5. /\ mounts' \in Seq(Pair) /\ Len(mounts') = Len(mounts)
          /\ \A k \in DOMAIN mounts : mounts'[k] = IF k = last THEN whole ELSE mounts[k]
      <4>1. mounts \in Seq(Pair) /\ last \in DOMAIN mounts
        BY <1>6
      <4> HIDE DEF whole, last
      <4> QED
        BY <3>2, <3>4, <4>1
    <3>6. \A k \in DOMAIN mounts' : mounts'[k].sub = NoRoute => errs' > 0
      <4>1. DOMAIN mounts' = DOMAIN mounts
        BY <1>6, <3>5
      <4> HIDE DEF whole
      <4> QED
        BY <1>6, <3>1, <3>4, <3>5, <4>1 DEF NoRoute
    <3> QED
      BY <1>1, <3>5, <3>6 DEF MountInv, HalfDone
  <2>2. CASE ~Accepted
    <3>1. errs' > 0
      BY <1>4, <2>2 DEF Counted, GInv, ShapeInv
    <3> QED
      BY <1>1, <1>6, <2>2, <3>1 DEF MountInv, HalfDone, MountSub
  <2> QED
    BY <2>1, <2>2
<1> QED
  BY <1>5, <1>7 DEF GInv

(* The one table there is after a compile.                                 *)
LEMMA CompiledIs ==
  ASSUME compiled' = <<compile>>
  PROVE  /\ ToSet(compiled') = {compile}
         /\ DOMAIN compile.chains = DOMAIN routes
<1>1. \A c : ToSet(<<c>>) = {c}
  BY DEF ToSet
<1> QED
  BY <1>1 DEF compile

LEMMA CompileTypes ==
  ASSUME GInv, Install \/ Recompile
  PROVE  GInv'
<1>1. /\ compiled' = <<compile>> /\ live' = TRUE
      /\ UNCHANGED <<tableVars, groupVars, mounting, mounts>>
  BY DEF Install, Recompile
<1>2. Groups' = Groups
  BY <1>1 DEF Groups, groupVars
<1>3. ShapeInv'
  BY <1>1 DEF GInv, ShapeInv, tableVars, groupVars
<1>4. TypeOK'
  <2>1. \A t \in ToSet(compiled') : DOMAIN t.chains = DOMAIN routes
    BY <1>1, CompiledIs
  <2> QED
    BY <1>1, <1>2, <2>1 DEF GInv, TypeOK, tableVars, groupVars
<1>5. MountInv'
  BY <1>1, <1>2 DEF GInv, MountInv, HalfDone, tableVars
<1> QED
  BY <1>3, <1>4, <1>5 DEF GInv

(* GInv is inductive.                                                      *)
LEMMA NextGInv ==
  ASSUME GInv, [Next]_vars
  PROVE  GInv'
<1>1. ASSUME NEW p \in Groups, NEW prefix \in GroupPaths, NEW own \in {<< >>, <<NextMw>>},
             NewGroup(p, prefix, own)
      PROVE  GInv'
  BY <1>1, NewGroupTypes
<1>2. ASSUME NEW p \in Groups, NEW hosts \in HostLists, Host(p, hosts)
      PROVE  GInv'
  BY <1>2, HostTypes
<1>3. ASSUME NEW g \in Groups \ {0}, GroupUse(g)
      PROVE  GInv'
  BY <1>3, GroupUseTypes
<1>4. ASSUME NEW g \in Groups, NEW m \in Methods, NEW text \in Patterns,
             NEW opts \in Options, NEW own \in {<< >>, <<NextMw>>},
             HandleIn(g, m, text, opts, own)
      PROVE  GInv'
  BY <1>4, HandleInTypes
<1>5. ASSUME NEW g \in Groups, NEW prefix \in MountPoints, NEW opts \in Options,
             MountSelf(g, prefix, opts)
      PROVE  GInv'
  BY <1>5, MountSelfTypes
<1>6. CASE RouterUse
  BY <1>6, RouterUseTypes
<1>7. CASE BuilderUse
  BY <1>7, BuilderUseTypes
<1>8. CASE MountSub
  BY <1>8, MountSubTypes
<1>9. CASE Install \/ Recompile
  BY <1>9, CompileTypes
<1>10. CASE UNCHANGED vars
  BY <1>10 DEF vars, tableVars, groupVars, GInv, ShapeInv, TypeOK, MountInv, HalfDone, Groups
<1> QED
  BY <1>1, <1>2, <1>3, <1>4, <1>5, <1>6, <1>7, <1>8, <1>9, <1>10 DEF Next

(* In every reachable state groups form a tree, every route is in one of   *)
(* them, every middleware list is typed, and a mount is half done only     *)
(* while it is under way or has left an error (group.go, mount.go).        *)
THEOREM GroupsInvariance == GroupSpec => []GInv
<1>1. GInv /\ [Next]_vars => GInv'
  BY NextGInv
<1> QED
  BY InitGInv, <1>1, PTL DEF GroupSpec

(* Groups form a tree, every route is in one of them, and a compiled table *)
(* has a chain for every route.                                            *)
THEOREM GroupsTypeCorrect == GroupSpec => []TypeOK
<1>1. GInv => TypeOK
  BY DEF GInv
<1> QED
  BY <1>1, GroupsInvariance, PTL

(* Swap alone makes a builder the router's, and it takes none with half a  *)
(* Mount in it: an error it would have left is seen by Builder.Err.        *)
THEOREM HalfMountsAreRefused == GroupSpec => NoHalfMountInstalled
<1>1. ASSUME GInv, [Next]_vars, live' # live
      PROVE  Install
  <2>1. ASSUME NEW g, NEW m, NEW text, NEW opts, NEW own, HandleIn(g, m, text, opts, own)
        PROVE  live' = live
    BY <2>1 DEF HandleIn
  <2>2. ASSUME NEW g, NEW prefix, NEW opts, MountSelf(g, prefix, opts)
        PROVE  live' = live
    BY <2>2 DEF MountSelf
  <2>3. ASSUME NEW g, NEW prefix, NEW own, NewGroup(g, prefix, own)
        PROVE  live' = live
    BY <2>3 DEF NewGroup
  <2>4. ASSUME NEW g, NEW hosts, Host(g, hosts)
        PROVE  live' = live
    BY <2>4 DEF Host
  <2>5. ASSUME NEW g, GroupUse(g)
        PROVE  live' = live
    BY <2>5 DEF GroupUse
  <2>6. RouterUse \/ BuilderUse \/ MountSub \/ Recompile \/ UNCHANGED vars => live' = live
    BY DEF RouterUse, BuilderUse, MountSub, Recompile, vars
  <2> QED
    BY <1>1, <2>1, <2>2, <2>3, <2>4, <2>5, <2>6 DEF Next
<1>2. ASSUME GInv, Install
      PROVE  \A M \in ToSet(mounts) : M.sub # NoRoute
  BY <1>2 DEF GInv, MountInv, HalfDone, Install, ToSet
<1>3. GInv /\ [Next]_vars => [live' # live => \A M \in ToSet(mounts) : M.sub # NoRoute]_vars
  BY <1>1, <1>2
<1> QED
  BY <1>3, GroupsInvariance, PTL DEF GroupSpec, NoHalfMountInstalled

-----------------------------------------------------------------------------
(* Middleware lists *)

(* s holds what was added to scope sc, in the order of the calls cs.       *)
ListsOwn(s, sc, cs) ==
    /\ \A x, y \in DOMAIN s : x < y => s[x] < s[y]
    /\ ToSet(s) = {m \in DOMAIN cs : cs[m] = sc}

Placed(m) ==
    \/ scopes[m] \in {OfRouter, OfBuilder}
    \/ \E g \in DOMAIN groups : scopes[m] = OfGroup(g)
    \/ \E i \in DOMAIN under : scopes[m] = OfRoute(i)

MwInv ==
    /\ ListsOwn(routerMw, OfRouter, scopes) /\ ListsOwn(builderMw, OfBuilder, scopes)
    /\ \A g \in DOMAIN groups : ListsOwn(groups[g].own, OfGroup(g), scopes)
    /\ \A i \in DOMAIN under : ListsOwn(under[i].own, OfRoute(i), scopes)
    /\ \A m \in DOMAIN scopes : Placed(m)

(* The scopes a middleware may be added to are told apart by their tags.   *)
LEMMA ScopesDiffer ==
  /\ OfRouter # OfBuilder
  /\ \A g : OfGroup(g) # OfRouter /\ OfGroup(g) # OfBuilder
  /\ \A i : OfRoute(i) # OfRouter /\ OfRoute(i) # OfBuilder
  /\ \A g, i : OfGroup(g) # OfRoute(i)
  /\ \A g, h : OfGroup(g) = OfGroup(h) => g = h
  /\ \A i, j : OfRoute(i) = OfRoute(j) => i = j
BY DEF OfRouter, OfBuilder, OfGroup, OfRoute

(* A call for one scope leaves the lists of the others alone ...           *)
LEMMA ListsKept ==
  ASSUME NEW cs \in Seq(Scope), NEW sc, NEW other \in Scope, other # sc, NEW s, ListsOwn(s, sc, cs)
  PROVE  ListsOwn(s, sc, Append(cs, other))
<1>1. {m \in DOMAIN Append(cs, other) : Append(cs, other)[m] = sc} = {m \in DOMAIN cs : cs[m] = sc}
  OBVIOUS
<1> QED
  BY <1>1 DEF ListsOwn

(* ... and is the last in its own.                                         *)
LEMMA ListsGains ==
  ASSUME NEW cs \in Seq(Scope), NEW sc \in Scope, NEW s \in Seq(Nat), ListsOwn(s, sc, cs)
  PROVE  ListsOwn(Append(s, Len(cs) + 1), sc, Append(cs, sc))
<1> DEFINE t == Append(s, Len(cs) + 1)
<1>1. /\ Len(t) = Len(s) + 1 /\ t[Len(s) + 1] = Len(cs) + 1
      /\ \A i \in 1 .. Len(s) : t[i] = s[i]
  OBVIOUS
<1>2. \A i \in 1 .. Len(s) : s[i] \in DOMAIN cs
  <2>1. DOMAIN s = 1 .. Len(s)
    OBVIOUS
  <2>2. \A i \in DOMAIN s : s[i] \in ToSet(s)
    BY DEF ToSet
  <2> QED
    BY <2>1, <2>2 DEF ListsOwn
<1>3. \A x, y \in DOMAIN t : x < y => t[x] < t[y]
  <2>1. DOMAIN t = 1 .. Len(s) + 1
    OBVIOUS
  <2>2. \A x, y \in 1 .. Len(s) : x < y => s[x] < s[y]
    BY DEF ListsOwn
  <2>3. \A x \in 1 .. Len(s) : t[x] \in Nat /\ t[x] < Len(cs) + 1
    BY <1>1, <1>2
  <2> HIDE DEF t
  <2> SUFFICES ASSUME NEW x \in DOMAIN t, NEW y \in DOMAIN t, x < y
               PROVE  t[x] < t[y]
    OBVIOUS
  <2>4. x \in 1 .. Len(s)
    BY <2>1
  <2>5. CASE y \in 1 .. Len(s)
    BY <1>1, <2>2, <2>4, <2>5
  <2>6. CASE y = Len(s) + 1
    BY <1>1, <2>3, <2>4, <2>6
  <2> QED
    BY <2>1, <2>5, <2>6
<1>4. ToSet(t) = ToSet(s) \cup {Len(cs) + 1}
  <2>1. DOMAIN t = 1 .. Len(s) + 1
    OBVIOUS
  <2>2. DOMAIN s = 1 .. Len(s) /\ Len(s) \in Nat
    OBVIOUS
  <2> HIDE DEF t
  <2>3. DOMAIN t = DOMAIN s \cup {Len(s) + 1}
    BY <2>1, <2>2
  <2>4. \A i \in DOMAIN s : t[i] = s[i]
    BY <1>1, <2>2
  <2> QED
    BY <1>1, <2>3, <2>4, SMTT(20) DEF ToSet
<1>5. {m \in DOMAIN Append(cs, sc) : Append(cs, sc)[m] = sc}
        = {m \in DOMAIN cs : cs[m] = sc} \cup {Len(cs) + 1}
  <2> DEFINE c == Append(cs, sc)
  <2>1. /\ DOMAIN c = DOMAIN cs \cup {Len(cs) + 1} /\ c[Len(cs) + 1] = sc
        /\ \A i \in DOMAIN cs : c[i] = cs[i]
    OBVIOUS
  <2> HIDE DEF c
  <2>2. {m \in DOMAIN c : c[m] = sc} = {m \in DOMAIN cs : cs[m] = sc} \cup {Len(cs) + 1}
    BY <2>1
  <2> QED
    BY <2>2 DEF c
<1> QED
  BY <1>3, <1>4, <1>5 DEF ListsOwn

(* An empty list is right for a scope nothing has been added to.           *)
LEMMA ListsEmpty ==
  ASSUME NEW cs, NEW sc, \A m \in DOMAIN cs : cs[m] # sc
  PROVE  ListsOwn(<< >>, sc, cs)
BY DEF ListsOwn, ToSet

FInv == GInv /\ MwInv

(* At most one call was made, for the given scope.                         *)
AtMost(scope) == scopes' \in {scopes, Append(scopes, scope)}

(* A call for one scope leaves the lists of the others right.              *)
LEMMA OthersKept ==
  ASSUME FInv, NEW other \in Scope, AtMost(other), NEW sc, sc # other, NEW s,
         ListsOwn(s, sc, scopes)
  PROVE  ListsOwn(s, sc, scopes')
<1>1. scopes \in Seq(Scope)
  BY DEF FInv, GInv, ShapeInv
<1> QED
  BY <1>1, ListsKept DEF AtMost

(* A scope that is new gets the list it came with.                         *)
LEMMA NewList ==
  ASSUME FInv, NEW sc \in Scope, \A m \in DOMAIN scopes : scopes[m] # sc, NEW own,
         \/ own = << >> /\ scopes' = scopes
         \/ own = <<NextMw>> /\ scopes' = Append(scopes, sc)
  PROVE  ListsOwn(own, sc, scopes')
<1>1. scopes \in Seq(Scope)
  BY DEF FInv, GInv, ShapeInv
<1>2. ListsOwn(<< >>, sc, scopes)
  BY ListsEmpty
<1>3. << >> \in Seq(Nat) /\ Append(<< >>, Len(scopes) + 1) = <<NextMw>>
  BY DEF NextMw
<1>4. ListsOwn(<<NextMw>>, sc, Append(scopes, sc))
  <2>1. ListsOwn(Append(<< >>, Len(scopes) + 1), sc, Append(scopes, sc))
    BY <1>1, <1>2, <1>3, ListsGains
  <2> QED
    BY <1>3, <2>1
<1> QED
  BY <1>2, <1>4

(* No call is for a group or a route that is not there.                    *)
LEMMA PlacedKept ==
  ASSUME FInv, NEW other \in Scope, AtMost(other),
         DOMAIN groups \subseteq DOMAIN groups', DOMAIN under \subseteq DOMAIN under',
         \/ other \in {OfRouter, OfBuilder}
         \/ \E g \in DOMAIN groups' : other = OfGroup(g)
         \/ \E i \in DOMAIN under' : other = OfRoute(i)
         \/ scopes' = scopes
  PROVE  \A m \in DOMAIN scopes' : Placed(m)'
<1>1. scopes \in Seq(Scope)
  BY DEF FInv, GInv, ShapeInv
<1>2. SUFFICES ASSUME NEW m \in DOMAIN scopes'
               PROVE  Placed(m)'
  OBVIOUS
<1>3. \/ m \in DOMAIN scopes /\ scopes'[m] = scopes[m]
      \/ scopes' # scopes /\ scopes'[m] = other
  BY <1>1 DEF AtMost
<1>4. CASE m \in DOMAIN scopes /\ scopes'[m] = scopes[m]
  <2>1. Placed(m)
    BY <1>4 DEF FInv, MwInv
  <2> QED
    BY <1>4, <2>1 DEF Placed
<1>5. CASE scopes' # scopes /\ scopes'[m] = other
  BY <1>5 DEF Placed
<1> QED
  BY <1>3, <1>4, <1>5

(* A scope that is not there yet has no middleware.                        *)
LEMMA UnplacedScope ==
  ASSUME FInv
  PROVE  /\ \A m \in DOMAIN scopes : scopes[m] # OfGroup(Len(groups) + 1)
         /\ \A m \in DOMAIN scopes : scopes[m] # OfRoute(Len(under) + 1)
<1>1. PICK P, H : groups \in Seq(GroupShape(P, H))
  BY DEF FInv, GInv, ShapeInv
<1>2. under \in Seq(Leaf)
  BY DEF FInv, GInv, ShapeInv
<1>3. Len(groups) + 1 \notin DOMAIN groups /\ Len(under) + 1 \notin DOMAIN under
  BY <1>1, <1>2
<1>4. SUFFICES ASSUME NEW m \in DOMAIN scopes
               PROVE  scopes[m] # OfGroup(Len(groups) + 1) /\ scopes[m] # OfRoute(Len(under) + 1)
  OBVIOUS
<1>5. Placed(m)
  BY DEF FInv, MwInv
<1> QED
  BY <1>3, <1>5, ScopesDiffer DEF Placed

(* Each action keeps MwInv.                                                *)
LEMMA AddsGroupLists ==
  ASSUME FInv, GInv', NEW p, NEW own, AddsGroup(p, own),
         UNCHANGED <<routerMw, builderMw, under>>,
         \/ own = << >> /\ scopes' = scopes
         \/ own = <<NextMw>> /\ scopes' = Append(scopes, OfGroup(Len(groups) + 1))
  PROVE  MwInv'
<1> DEFINE n == Len(groups) + 1
<1>1. PICK P0, H0 : groups \in Seq(GroupShape(P0, H0))
  BY DEF FInv, GInv, ShapeInv
<1>2. PICK P, H : groups' \in Seq(GroupShape(P, H))
  BY DEF AddsGroup
<1>3. /\ n \in Nat \ {0} /\ DOMAIN groups = 1 .. n - 1 /\ DOMAIN groups' = 1 .. n
      /\ groups'[n].own = own /\ \A g \in DOMAIN groups : groups'[g] = groups[g]
  BY <1>1, <1>2 DEF AddsGroup
<1>4. OfGroup(n) \in Scope /\ AtMost(OfGroup(n))
  BY <1>3, ScopeIs DEF AtMost
<1> HIDE DEF n
<1>5. ListsOwn(routerMw, OfRouter, scopes') /\ ListsOwn(builderMw, OfBuilder, scopes')
  BY <1>4, OthersKept, ScopesDiffer DEF FInv, MwInv
<1>6. \A g \in DOMAIN groups' : ListsOwn(groups'[g].own, OfGroup(g), scopes')
  <2> SUFFICES ASSUME NEW g \in DOMAIN groups'
               PROVE  ListsOwn(groups'[g].own, OfGroup(g), scopes')
    OBVIOUS
  <2>1. CASE g = n
    <3>1. ListsOwn(own, OfGroup(n), scopes')
      BY <1>4, NewList, UnplacedScope DEF n
    <3> QED
      BY <1>3, <2>1, <3>1
  <2>2. CASE g # n
    <3>1. g \in DOMAIN groups
      BY <1>3, <2>2
    <3>2. ListsOwn(groups[g].own, OfGroup(g), scopes)
      BY <3>1 DEF FInv, MwInv
    <3>3. ListsOwn(groups[g].own, OfGroup(g), scopes')
      BY <1>4, <2>2, <3>2, OthersKept, ScopesDiffer
    <3> QED
      BY <1>3, <3>1, <3>3
  <2> QED
    BY <2>1, <2>2
<1>7. \A i \in DOMAIN under : ListsOwn(under[i].own, OfRoute(i), scopes')
  BY <1>4, OthersKept, ScopesDiffer DEF FInv, MwInv
<1>8. \A m \in DOMAIN scopes' : Placed(m)'
  <2>1. DOMAIN groups \subseteq DOMAIN groups' /\ DOMAIN under \subseteq DOMAIN under'
    BY <1>3
  <2>2. \E g \in DOMAIN groups' : OfGroup(n) = OfGroup(g)
    <3>1. n \in DOMAIN groups'
      BY <1>3
    <3> QED
      BY <3>1, Zenon
  <2> QED
    BY <1>4, <2>1, <2>2, PlacedKept
<1> QED
  BY <1>5, <1>6, <1>7, <1>8 DEF MwInv

LEMMA RecordedLists ==
  ASSUME FInv, NEW g \in Groups, NEW own \in Seq(Nat), Recorded(g, own), TypeOK', ShapeInv',
         UNCHANGED <<groups, routerMw, builderMw, live>>, scopes' \in Seq(Scope),
         \/ own = << >> /\ scopes' = scopes
         \/ own = <<NextMw>> /\ scopes' = Append(scopes, OfRoute(Len(routes) + 1))
  PROVE  MwInv'
<1> DEFINE n == Len(under) + 1
<1>1. /\ Len(routes) \in Nat /\ Len(under) = Len(routes) /\ Len(under') = n
      /\ \A i \in DOMAIN under : under'[i] = under[i]
      /\ under'[n].own = own
  BY RecordedTypes DEF FInv
<1>2. under \in Seq(Leaf) /\ under' \in Seq(Leaf)
  BY DEF FInv, GInv, ShapeInv
<1>3. n \in Nat /\ n = Len(routes) + 1 /\ DOMAIN under = 1 .. n - 1 /\ DOMAIN under' = 1 .. n
  BY <1>1, <1>2
<1>4. OfRoute(n) \in Scope /\ AtMost(OfRoute(n))
  BY <1>3, ScopeIs DEF AtMost
<1> HIDE DEF n
<1>5. ListsOwn(routerMw, OfRouter, scopes') /\ ListsOwn(builderMw, OfBuilder, scopes')
  BY <1>4, OthersKept, ScopesDiffer DEF FInv, MwInv
<1>6. \A h \in DOMAIN groups : ListsOwn(groups[h].own, OfGroup(h), scopes')
  BY <1>4, OthersKept, ScopesDiffer DEF FInv, MwInv
<1>7. \A i \in DOMAIN under' : ListsOwn(under'[i].own, OfRoute(i), scopes')
  <2> SUFFICES ASSUME NEW i \in DOMAIN under'
               PROVE  ListsOwn(under'[i].own, OfRoute(i), scopes')
    OBVIOUS
  <2>1. CASE i = n
    <3>1. \A m \in DOMAIN scopes : scopes[m] # OfRoute(n)
      BY UnplacedScope DEF n
    <3>2. ListsOwn(own, OfRoute(n), scopes')
      BY <1>3, <1>4, <3>1, NewList
    <3> QED
      BY <1>1, <2>1, <3>2
  <2>2. CASE i # n
    <3>1. i \in DOMAIN under
      BY <1>3, <2>2
    <3>2. ListsOwn(under[i].own, OfRoute(i), scopes)
      BY <3>1 DEF FInv, MwInv
    <3>3. ListsOwn(under[i].own, OfRoute(i), scopes')
      BY <1>4, <2>2, <3>2, OthersKept, ScopesDiffer
    <3> QED
      BY <1>1, <3>1, <3>3
  <2> QED
    BY <2>1, <2>2
<1>8. \A m \in DOMAIN scopes' : Placed(m)'
  <2>1. DOMAIN groups \subseteq DOMAIN groups' /\ DOMAIN under \subseteq DOMAIN under'
    BY <1>3
  <2>2. \E i \in DOMAIN under' : OfRoute(n) = OfRoute(i)
    <3>1. n \in DOMAIN under'
      BY <1>3
    <3> QED
      BY <3>1, Zenon
  <2> QED
    BY <1>4, <2>1, <2>2, PlacedKept
<1> QED
  BY <1>5, <1>6, <1>7, <1>8 DEF MwInv

(* Steps that add no middleware, group or route.                           *)
LEMMA SameLists ==
  ASSUME FInv, UNCHANGED groupVars
  PROVE  MwInv'
BY DEF FInv, MwInv, Placed, groupVars

LEMMA CountedLists ==
  ASSUME FInv, Counted, UNCHANGED <<groups, routerMw, builderMw, scopes>>
  PROVE  MwInv'
BY SameLists DEF Counted, groupVars

LEMMA GroupUseLists ==
  ASSUME FInv, GInv', NEW g \in Groups \ {0}, GroupUse(g)
  PROVE  MwInv'
<1>1. g \in DOMAIN groups /\ GainsOwn(g) /\ g \in Nat
  BY GroupUseTypes DEF FInv, Groups, GInv, ShapeInv
<1>2. PICK P, H : groups \in Seq(GroupShape(P, H))
  BY DEF FInv, GInv, ShapeInv
<1>3. PICK Q, I : groups' \in Seq(GroupShape(Q, I))
  BY <1>1 DEF GainsOwn
<1>4. DOMAIN groups' = DOMAIN groups
  BY <1>1, <1>2, <1>3 DEF GainsOwn
<1>5. OfGroup(g) \in Scope /\ AtMost(OfGroup(g)) /\ scopes' = Append(scopes, OfGroup(g))
  BY <1>1, ScopeIs DEF AtMost, GroupUse, Added
<1>6. UNCHANGED <<routerMw, builderMw, under>>
  BY DEF GroupUse
<1>7. ListsOwn(routerMw, OfRouter, scopes') /\ ListsOwn(builderMw, OfBuilder, scopes')
  BY <1>5, OthersKept, ScopesDiffer DEF FInv, MwInv
<1>8. \A h \in DOMAIN groups : ListsOwn(groups'[h].own, OfGroup(h), scopes')
  <2> SUFFICES ASSUME NEW h \in DOMAIN groups
               PROVE  ListsOwn(groups'[h].own, OfGroup(h), scopes')
    OBVIOUS
  <2>1. ListsOwn(groups[h].own, OfGroup(h), scopes) /\ groups[h].own \in Seq(Nat)
    <3>1. groups[h] \in GroupShape(P, H)
      BY <1>2
    <3> QED
      BY <3>1 DEF FInv, MwInv, GroupShape
  <2>2. CASE h = g
    <3>1. groups'[h].own = Append(groups[h].own, Len(scopes) + 1)
      BY <1>1, <2>2 DEF GainsOwn, NextMw
    <3>2. scopes \in Seq(Scope) /\ OfGroup(h) \in Scope
      BY <1>5, <2>2 DEF FInv, GInv, ShapeInv
    <3>3. ListsOwn(Append(groups[h].own, Len(scopes) + 1), OfGroup(h), Append(scopes, OfGroup(h)))
      BY <2>1, <3>2, ListsGains
    <3> QED
      BY <1>5, <2>2, <3>1, <3>3
  <2>3. CASE h # g
    <3>1. groups'[h].own = groups[h].own
      BY <1>1, <2>3 DEF GainsOwn
    <3> QED
      BY <1>5, <2>1, <2>3, <3>1, OthersKept, ScopesDiffer
  <2> QED
    BY <2>2, <2>3
<1>9. \A i \in DOMAIN under : ListsOwn(under[i].own, OfRoute(i), scopes')
  BY <1>5, OthersKept, ScopesDiffer DEF FInv, MwInv
<1>10. \A m \in DOMAIN scopes' : Placed(m)'
  <2>1. DOMAIN groups \subseteq DOMAIN groups' /\ DOMAIN under \subseteq DOMAIN under'
        /\ \E h \in DOMAIN groups' : OfGroup(g) = OfGroup(h)
    BY <1>1, <1>4, <1>6
  <2> QED
    BY <1>5, <2>1, PlacedKept
<1> QED
  BY <1>4, <1>6, <1>7, <1>8, <1>9, <1>10 DEF MwInv

LEMMA UseLists ==
  ASSUME FInv, RouterUse \/ BuilderUse
  PROVE  MwInv'
<1> DEFINE sc == IF RouterUse THEN OfRouter ELSE OfBuilder
<1>1. scopes \in Seq(Scope) /\ routerMw \in Seq(Nat) /\ builderMw \in Seq(Nat)
  BY DEF FInv, GInv, ShapeInv
<1>2. sc \in Scope /\ sc \in {OfRouter, OfBuilder}
  BY ScopeIs
<1>3. scopes' = Append(scopes, sc) /\ AtMost(sc)
  BY DEF RouterUse, BuilderUse, Added, AtMost
<1>4. IF RouterUse THEN routerMw' = Append(routerMw, Len(scopes) + 1) /\ builderMw' = builderMw
                   ELSE builderMw' = Append(builderMw, Len(scopes) + 1) /\ routerMw' = routerMw
  BY DEF RouterUse, BuilderUse, NextMw
<1>5. UNCHANGED <<groups, under>>
  BY DEF RouterUse, BuilderUse
<1>6. ListsOwn(routerMw, OfRouter, scopes) /\ ListsOwn(builderMw, OfBuilder, scopes)
  BY DEF FInv, MwInv
<1>7. ListsOwn(routerMw', OfRouter, scopes') /\ ListsOwn(builderMw', OfBuilder, scopes')
  <2>1. CASE RouterUse
    <3>1. sc = OfRouter
      BY <2>1
    <3> HIDE DEF sc
    <3>2. ListsOwn(Append(routerMw, Len(scopes) + 1), OfRouter, Append(scopes, OfRouter))
      BY <1>1, <1>2, <1>6, <3>1, ListsGains
    <3> QED
      BY <1>2, <1>3, <1>4, <1>6, <2>1, <3>1, <3>2, OthersKept, ScopesDiffer
  <2>2. CASE ~RouterUse
    <3>1. sc = OfBuilder
      BY <2>2
    <3> HIDE DEF sc
    <3>2. ListsOwn(Append(builderMw, Len(scopes) + 1), OfBuilder, Append(scopes, OfBuilder))
      BY <1>1, <1>2, <1>6, <3>1, ListsGains
    <3> QED
      BY <1>2, <1>3, <1>4, <1>6, <2>2, <3>1, <3>2, OthersKept, ScopesDiffer
  <2> QED
    BY <2>1, <2>2
<1> HIDE DEF sc
<1>8. \A h \in DOMAIN groups : ListsOwn(groups[h].own, OfGroup(h), scopes')
  BY <1>2, <1>3, OthersKept, ScopesDiffer DEF FInv, MwInv
<1>9. \A i \in DOMAIN under : ListsOwn(under[i].own, OfRoute(i), scopes')
  BY <1>2, <1>3, OthersKept, ScopesDiffer DEF FInv, MwInv
<1>10. \A m \in DOMAIN scopes' : Placed(m)'
  BY <1>2, <1>3, <1>5, PlacedKept
<1> QED
  BY <1>5, <1>7, <1>8, <1>9, <1>10 DEF MwInv

-----------------------------------------------------------------------------
(* The groups around a group *)

Up(gs, g) == IF g = 0 THEN 0 ELSE gs[g].parent

(* S contains g and, with a group, its parent.                             *)
Closed(gs, g, S) == g \in S /\ \A h \in S : Up(gs, h) \in S

Outer(gs, g) ==
    {x \in 0 .. Len(gs) : \A S \in SUBSET (0 .. Len(gs)) : Closed(gs, g, S) => x \in S}

Rooted(gs) == Len(gs) \in Nat /\ \A g \in 1 .. Len(gs) : gs[g].parent \in 0 .. g - 1

(* The ancestors of a group, read off the tree: the root has itself, a     *)
(* group has itself and those of its parent, and none is younger.          *)
LEMMA AroundIs ==
  ASSUME NEW i
  PROVE  Around(i) = Outer(groups, under[i].group)
<1>1. \A g : GroupAt(g).parent = Up(groups, g)
  BY DEF GroupAt, Root, Up
<1> QED
  BY <1>1 DEF Around, Outer, Closed, Groups

LEMMA OuterOfRoot ==
  ASSUME NEW gs, Rooted(gs)
  PROVE  Outer(gs, 0) = {0}
<1>1. Closed(gs, 0, {0})
  BY DEF Closed, Up
<1>2. {0} \in SUBSET (0 .. Len(gs))
  BY DEF Rooted
<1>3. \A S : Closed(gs, 0, S) => 0 \in S
  BY DEF Closed
<1> QED
  BY <1>1, <1>2, <1>3 DEF Outer, Rooted

LEMMA OuterIsOlder ==
  ASSUME NEW gs, Rooted(gs), NEW g \in 0 .. Len(gs)
  PROVE  Outer(gs, g) \subseteq 0 .. g
<1>1. Closed(gs, g, 0 .. g)
  BY DEF Closed, Up, Rooted
<1>2. 0 .. g \in SUBSET (0 .. Len(gs))
  BY DEF Rooted
<1> QED
  BY <1>1, <1>2 DEF Outer

LEMMA OuterOfGroup ==
  ASSUME NEW gs, Rooted(gs), NEW g \in 1 .. Len(gs)
  PROVE  Outer(gs, g) = Outer(gs, gs[g].parent) \cup {g}
<1> DEFINE p == gs[g].parent
<1>1. Up(gs, g) = p /\ p \in 0 .. Len(gs) /\ g \in 0 .. Len(gs)
  BY DEF Up, Rooted
<1>2. \A S : Closed(gs, g, S) => Closed(gs, p, S)
  BY <1>1 DEF Closed
<1>3. \A S : Closed(gs, p, S) => Closed(gs, g, S \cup {g})
  BY <1>1 DEF Closed
<1> HIDE DEF p
<1>4. Outer(gs, p) \cup {g} \subseteq Outer(gs, g)
  <2>1. g \in Outer(gs, g)
    BY <1>1 DEF Outer, Closed
  <2> QED
    BY <1>2, <2>1 DEF Outer
<1>5. Outer(gs, g) \subseteq Outer(gs, p) \cup {g}
  <2> SUFFICES ASSUME NEW x \in Outer(gs, g), x # g,
                      NEW S \in SUBSET (0 .. Len(gs)), Closed(gs, p, S)
               PROVE  x \in S
    BY DEF Outer
  <2>1. S \cup {g} \in SUBSET (0 .. Len(gs)) /\ Closed(gs, g, S \cup {g})
    BY <1>1, <1>3
  <2>2. x \in S \cup {g}
    BY <2>1 DEF Outer
  <2> QED
    BY <2>2
<1> QED
  BY <1>4, <1>5 DEF p

(* Neither a younger group nor middleware moves an older one.              *)
LEMMA OuterKept ==
  ASSUME NEW gs, NEW hs, Rooted(gs), Rooted(hs), Len(gs) <= Len(hs),
         \A g \in 1 .. Len(gs) : hs[g].parent = gs[g].parent,
         NEW g \in 0 .. Len(gs)
  PROVE  Outer(hs, g) = Outer(gs, g)
<1>0. Len(gs) \in Nat /\ Len(hs) \in Nat /\ 0 .. Len(gs) \subseteq 0 .. Len(hs)
  BY DEF Rooted
<1>1. \A h \in 0 .. Len(gs) : Up(hs, h) = Up(gs, h) /\ Up(gs, h) \in 0 .. Len(gs)
  BY DEF Up, Rooted
<1>2. Outer(hs, g) \subseteq 0 .. Len(gs)
  <2>1. Outer(hs, g) \subseteq 0 .. g
    BY <1>0, OuterIsOlder
  <2> QED
    BY <1>0, <2>1
<1>3. Outer(hs, g) \subseteq Outer(gs, g)
  <2> SUFFICES ASSUME NEW x \in Outer(hs, g), NEW S \in SUBSET (0 .. Len(gs)),
                      Closed(gs, g, S)
               PROVE  x \in S
    BY <1>2 DEF Outer
  <2>1. S \in SUBSET (0 .. Len(hs)) /\ Closed(hs, g, S)
    BY <1>0, <1>1 DEF Closed
  <2> QED
    BY <2>1 DEF Outer
<1>4. Outer(gs, g) \subseteq Outer(hs, g)
  <2> SUFFICES ASSUME NEW x \in Outer(gs, g), NEW S \in SUBSET (0 .. Len(hs)),
                      Closed(hs, g, S)
               PROVE  x \in S
    BY <1>0 DEF Outer
  <2> DEFINE T == S \cap (0 .. Len(gs))
  <2>1. T \in SUBSET (0 .. Len(gs)) /\ Closed(gs, g, T)
    BY <1>1 DEF Closed
  <2> QED
    BY <2>1 DEF Outer
<1> QED
  BY <1>3, <1>4

-----------------------------------------------------------------------------
(* Chains *)

(* The middleware a goes around b: it is in a wider scope, or was added to *)
(* the same one earlier.                                                   *)
Outside(cs, a, b) ==
    \/ Outranks(Depth(cs[b]), Depth(cs[a]))
    \/ cs[b] = cs[a] /\ a < b

(* s holds the middleware M, the outermost first.                          *)
Nests(cs, s, M) ==
    /\ s \in Seq(Nat) /\ ToSet(s) = M
    /\ \A x, y \in DOMAIN s : x < y => Outside(cs, s[x], s[y])

(* The order in which handlers wrap: router, builder, groups from the      *)
(* oldest, route.                                                          *)
LEMMA WiderScope ==
  /\ \A g : Outranks(Depth(OfGroup(g)), Depth(OfRouter))
            /\ Outranks(Depth(OfGroup(g)), Depth(OfBuilder))
  /\ \A i : Outranks(Depth(OfRoute(i)), Depth(OfRouter))
            /\ Outranks(Depth(OfRoute(i)), Depth(OfBuilder))
            /\ \A g : Outranks(Depth(OfRoute(i)), Depth(OfGroup(g)))
  /\ Outranks(Depth(OfBuilder), Depth(OfRouter))
  /\ \A g, h \in Nat : g < h => Outranks(Depth(OfGroup(h)), Depth(OfGroup(g)))
<1>1. \A a, b, d \in Int : b > d => Outranks(<<a, b>>, <<a, d>>)
  <2> SUFFICES ASSUME NEW a \in Int, NEW b \in Int, NEW d \in Int, b > d
               PROVE  Outranks(<<a, b>>, <<a, d>>)
    OBVIOUS
  <2>1. <<a, b>>[2] > <<a, d>>[2] /\ \A j \in 1 .. 2 - 1 : <<a, b>>[j] = <<a, d>>[j]
    OBVIOUS
  <2> QED
    BY <2>1 DEF Outranks
<1>2. \A a, b, c, d : a \in Int /\ c \in Int /\ a > c => Outranks(<<a, b>>, <<c, d>>)
  BY DEF Outranks
<1>3. /\ Depth(OfRouter) = <<0, 0>> /\ Depth(OfBuilder) = <<1, 0>>
      /\ \A g : Depth(OfGroup(g)) = <<2, g>> /\ Depth(OfRoute(g)) = <<3, 0>>
  BY DEF Depth, OfRouter, OfBuilder, OfGroup, OfRoute
<1> QED
  BY <1>1, <1>2, <1>3

(* A list of one scope holds that scope's calls in order, and a chain of   *)
(* two holds both, if the first scope is the wider.                        *)
LEMMA ListHolds ==
  ASSUME NEW cs, NEW sc, NEW s \in Seq(Nat), ListsOwn(s, sc, cs)
  PROVE  Nests(cs, s, {m \in DOMAIN cs : cs[m] = sc})
<1>1. \A x \in DOMAIN s : cs[s[x]] = sc
  BY DEF ListsOwn, ToSet
<1> QED
  BY <1>1 DEF ListsOwn, Nests, Outside

LEMMA ChainHolds ==
  ASSUME NEW cs, NEW s, NEW t, NEW M, NEW N, Nests(cs, s, M), Nests(cs, t, N),
         \A a \in M, b \in N : Outside(cs, a, b)
  PROVE  Nests(cs, s \o t, M \cup N)
<1>1. s \in Seq(Nat) /\ t \in Seq(Nat) /\ s \o t \in Seq(Nat)
  BY DEF Nests
<1>2. /\ DOMAIN (s \o t) = 1 .. Len(s) + Len(t)
      /\ DOMAIN s = 1 .. Len(s) /\ DOMAIN t = 1 .. Len(t) /\ Len(s) \in Nat /\ Len(t) \in Nat
      /\ \A x \in DOMAIN s : (s \o t)[x] = s[x]
      /\ \A x \in DOMAIN t : (s \o t)[Len(s) + x] = t[x]
  BY <1>1
<1>3. \A x \in DOMAIN (s \o t) :
         \/ x \in DOMAIN s /\ (s \o t)[x] = s[x] /\ s[x] \in M
         \/ x > Len(s) /\ x - Len(s) \in DOMAIN t /\ (s \o t)[x] = t[x - Len(s)]
            /\ t[x - Len(s)] \in N
  <2>1. (\A x \in DOMAIN s : s[x] \in M) /\ (\A x \in DOMAIN t : t[x] \in N)
    BY DEF Nests, ToSet
  <2> QED
    BY <1>2, <2>1
<1>4. ToSet(s \o t) = M \cup N
  <2>1. ToSet(s) = M /\ ToSet(t) = N
    BY DEF Nests
  <2>2. ToSet(s \o t) \subseteq M \cup N
    BY <1>3 DEF ToSet
  <2>3. \A x \in DOMAIN s : x \in DOMAIN (s \o t)
    BY <1>2
  <2>4. \A x \in DOMAIN t : Len(s) + x \in DOMAIN (s \o t)
    BY <1>2
  <2>5. M \subseteq ToSet(s \o t)
    BY <1>2, <2>1, <2>3 DEF ToSet
  <2>6. N \subseteq ToSet(s \o t)
    BY <1>2, <2>1, <2>4 DEF ToSet
  <2> QED
    BY <2>2, <2>5, <2>6
<1>5. ASSUME NEW x \in DOMAIN (s \o t), NEW y \in DOMAIN (s \o t), x < y
      PROVE  Outside(cs, (s \o t)[x], (s \o t)[y])
  <2>1. CASE x \in DOMAIN s /\ y \in DOMAIN s
    BY <1>2, <1>5, <2>1 DEF Nests
  <2>2. CASE x > Len(s) /\ y > Len(s)
    <3>1. x - Len(s) \in DOMAIN t /\ y - Len(s) \in DOMAIN t /\ x - Len(s) < y - Len(s)
          /\ (s \o t)[x] = t[x - Len(s)] /\ (s \o t)[y] = t[y - Len(s)]
      BY <1>2, <1>3, <1>5, <2>2
    <3> QED
      BY <3>1 DEF Nests
  <2>3. CASE x \in DOMAIN s /\ y > Len(s)
    BY <1>2, <1>3, <2>3
  <2> QED
    BY <1>2, <1>3, <1>5, <2>1, <2>2, <2>3
<1> QED
  BY <1>1, <1>4, <1>5 DEF Nests

LEMMA TreeIsRooted ==
  ASSUME FInv
  PROVE  /\ Rooted(groups) /\ Groups = 0 .. Len(groups)
         /\ DOMAIN groups = 1 .. Len(groups) /\ Len(groups) \in Nat
         /\ \A g \in 1 .. Len(groups) : groups[g].own \in Seq(Nat)
<1>1. PICK P, H : groups \in Seq(GroupShape(P, H))
  BY DEF FInv, GInv, ShapeInv
<1>2. DOMAIN groups = 1 .. Len(groups) /\ Len(groups) \in Nat
  BY <1>1
<1>3. \A g \in 1 .. Len(groups) : groups[g] \in GroupShape(P, H)
  BY <1>1
<1> QED
  BY <1>2, <1>3 DEF FInv, GInv, TypeOK, Rooted, Groups, GroupShape

(* chainTo walks from a group to the root.                                 *)
LEMMA ChainToIs ==
  ASSUME FInv
  PROVE  /\ chainTo[0] = << >>
         /\ \A g \in 1 .. Len(groups) :
              chainTo[g] = chainTo[groups[g].parent] \o groups[g].own
<1> DEFINE n == Len(groups)
           up == [g \in 1 .. n |-> groups[g].parent]
           F == [g \in 1 .. n |-> [c \in Seq(Nat) |-> c \o groups[g].own]]
           Step(to, g) == IF g = 0 THEN << >> ELSE to[groups[g].parent] \o groups[g].own
           Def(to) == to = [g \in Groups |-> Step(to, g)]
           chain == CHOOSE to : Def(to)
<1>1. n \in Nat /\ Groups = 0 .. n
  BY TreeIsRooted
<1>2. \A g \in 1 .. n : groups[g].own \in Seq(Nat) /\ groups[g].parent \in 0 .. g - 1
  BY TreeIsRooted DEF Rooted
<1>3. \E f : IsTreeFold(f, n, Seq(Nat), << >>, up, F)
  <2>1. \A g \in 1 .. n : up[g] \in 0 .. g - 1
    BY <1>2
  <2>2. F \in [1 .. n -> [Seq(Nat) -> Seq(Nat)]]
    BY <1>2
  <2>3. << >> \in Seq(Nat)
    OBVIOUS
  <2> HIDE DEF n, up, F
  <2> QED
    BY <1>1, <2>1, <2>2, <2>3, TreeFoldExists
<1>4. PICK f : IsTreeFold(f, n, Seq(Nat), << >>, up, F)
  BY <1>3
<1>5. /\ f \in [0 .. n -> Seq(Nat)] /\ f[0] = << >>
      /\ \A g \in 1 .. n : f[g] = F[g][f[up[g]]]
  BY <1>4 DEF IsTreeFold
<1>6. \A g \in 1 .. n : f[g] = f[groups[g].parent] \o groups[g].own
  <2> SUFFICES ASSUME NEW g \in 1 .. n
               PROVE  f[g] = f[groups[g].parent] \o groups[g].own
    OBVIOUS
  <2>1. groups[g].parent \in 0 .. n
    BY <1>1, <1>2
  <2>2. f[groups[g].parent] \in Seq(Nat)
    BY <1>5, <2>1
  <2> QED
    BY <1>5, <2>2
<1>7. Def(f)
  <2>1. \A g \in 0 .. n : f[g] = Step(f, g)
    <3>1. \A g \in 0 .. n : g = 0 \/ g \in 1 .. n
      BY <1>1
    <3> QED
      BY <1>1, <1>5, <1>6, <3>1
  <2> HIDE DEF n, Step
  <2> QED
    BY <1>1, <1>5, <2>1
<1>8. Def(chain)
  <2> HIDE DEF Def
  <2> QED
    BY <1>7
<1>9. chainTo = chain
  BY DEF chainTo
<1>10. \A g \in 0 .. n : chain[g] = Step(chain, g)
  <2> HIDE DEF chain, n, Step
  <2> QED
    BY <1>1, <1>8
<1>11. chain[0] = << >> /\ \A g \in 1 .. n : chain[g] = chain[groups[g].parent] \o groups[g].own
  <2>1. 0 \in 0 .. n /\ \A g \in 1 .. n : g \in 0 .. n /\ g # 0
    BY <1>1
  <2> HIDE DEF chain, n
  <2> QED
    BY <1>10, <2>1
<1> QED
  <2> HIDE DEF chain
  <2> QED
    BY <1>9, <1>11

(* The middleware of a set of groups.                                      *)
AddedTo(G) == {m \in DOMAIN scopes : \E g \in G : scopes[m] = OfGroup(g)}

(* ... which is, from the root inwards, what chainTo strings together.     *)
LEMMA ChainToHolds ==
  ASSUME FInv
  PROVE  \A g \in Groups : Nests(scopes, chainTo[g], AddedTo(Outer(groups, g)))
<1> DEFINE n == Len(groups)
           Good(g) == Nests(scopes, chainTo[g], AddedTo(Outer(groups, g)))
           S == {k \in Nat : \A g \in 0 .. k : g <= n => Good(g)}
<1>1. n \in Nat /\ Groups = 0 .. n /\ DOMAIN groups = 1 .. n /\ Rooted(groups)
  BY TreeIsRooted
<1>2. Good(0)
  <2>1. \A m \in DOMAIN scopes : scopes[m] # OfGroup(0)
    <3> SUFFICES ASSUME NEW m \in DOMAIN scopes
                 PROVE  scopes[m] # OfGroup(0)
      OBVIOUS
    <3>1. Placed(m)
      BY DEF FInv, MwInv
    <3>2. 0 \notin DOMAIN groups
      BY <1>1
    <3> QED
      BY <3>1, <3>2, ScopesDiffer DEF Placed
  <2>2. AddedTo(Outer(groups, 0)) = {}
    BY <1>1, <2>1, OuterOfRoot DEF AddedTo
  <2>3. chainTo[0] = << >>
    BY ChainToIs
  <2>4. Nests(scopes, << >>, {})
    BY DEF Nests, ToSet
  <2> QED
    BY <2>2, <2>3, <2>4
<1>3. ASSUME NEW g \in 1 .. n, \A h \in 0 .. g - 1 : Good(h)
      PROVE  Good(g)
  <2> DEFINE p == groups[g].parent
             inner == {m \in DOMAIN scopes : scopes[m] = OfGroup(g)}
  <2>1. p \in 0 .. g - 1 /\ p \in 0 .. Len(groups) /\ g \in Nat
    BY <1>1 DEF Rooted
  <2>2. Nests(scopes, chainTo[p], AddedTo(Outer(groups, p)))
    BY <1>3, <2>1
  <2>3. ListsOwn(groups[g].own, OfGroup(g), scopes) /\ groups[g].own \in Seq(Nat)
    BY <1>1, TreeIsRooted DEF FInv, MwInv
  <2>4. Nests(scopes, groups[g].own, inner)
    BY <2>3, ListHolds
  <2>5. \A a \in AddedTo(Outer(groups, p)), b \in inner : Outside(scopes, a, b)
    <3> SUFFICES ASSUME NEW a \in AddedTo(Outer(groups, p)), NEW b \in inner
                 PROVE  Outside(scopes, a, b)
      OBVIOUS
    <3>1. PICK h \in Outer(groups, p) : scopes[a] = OfGroup(h)
      BY DEF AddedTo
    <3>2. Outer(groups, p) \subseteq 0 .. p
      BY <1>1, <2>1, OuterIsOlder
    <3>3. h \in Nat /\ h < g
      BY <2>1, <3>1, <3>2
    <3>4. Outranks(Depth(OfGroup(g)), Depth(OfGroup(h)))
      BY <2>1, <3>3, WiderScope
    <3> QED
      BY <3>1, <3>4 DEF Outside
  <2>6. AddedTo(Outer(groups, g)) = AddedTo(Outer(groups, p)) \cup inner
    <3>1. Outer(groups, g) = Outer(groups, p) \cup {g}
      BY <1>1, OuterOfGroup
    <3> QED
      BY <3>1 DEF AddedTo
  <2>7. chainTo[g] = chainTo[p] \o groups[g].own
    BY ChainToIs
  <2> HIDE DEF p, inner
  <2>8. Nests(scopes, chainTo[p] \o groups[g].own, AddedTo(Outer(groups, p)) \cup inner)
    BY <2>2, <2>4, <2>5, ChainHolds
  <2> QED
    BY <2>6, <2>7, <2>8
<1> HIDE DEF Good
<1>4. 0 \in S
  BY <1>1, <1>2
<1>5. \A k \in Nat : k \in S => k + 1 \in S
  <2> SUFFICES ASSUME NEW k \in Nat, k \in S
               PROVE  k + 1 \in S
    OBVIOUS
  <2>0. k + 1 \in Nat
    OBVIOUS
  <2>1. \A h \in 0 .. k : h <= n => Good(h)
    BY Zenon
  <2> SUFFICES ASSUME NEW g \in 0 .. k + 1, g <= n
               PROVE  Good(g)
    BY <2>0, Zenon
  <2>2. g \in 0 .. k \/ (g = k + 1 /\ g \in 1 .. n)
    BY <1>1
  <2>3. g = k + 1 => \A h \in 0 .. g - 1 : Good(h)
    BY <1>1, <2>1
  <2> QED
    BY <1>3, <2>1, <2>2, <2>3
<1>6. Nat \subseteq S
  <2> HIDE DEF S
  <2> QED
    BY <1>4, <1>5, NatInduct
<1>7. n \in S
  <2> HIDE DEF S
  <2> QED
    BY <1>1, <1>6
<1>8. \A g \in 0 .. n : Good(g)
  BY <1>1, <1>7
<1> QED
  BY <1>1, <1>8 DEF Good

(* What a chain holds, as MiddlewareFollowsScope says it.                  *)
LEMMA HoldsIsWrapped ==
  ASSUME NEW s, NEW M, Nests(scopes, s, M)
  PROVE  WrappedBy(s, M)
BY DEF Nests, WrappedBy, Outside

(* The middleware that covers everything, and that which covers a route.   *)
LEMMA WideScopeIs ==
  ASSUME FInv, NEW m \in DOMAIN scopes
  PROVE  scopes[m].kind \in {"router", "builder"} <=>
           scopes[m] = OfRouter \/ scopes[m] = OfBuilder
<1>1. Placed(m)
  BY DEF FInv, MwInv
<1>2. (\A g : OfGroup(g).kind = "group") /\ (\A i : OfRoute(i).kind = "route")
      /\ OfRouter.kind = "router" /\ OfBuilder.kind = "builder"
  BY DEF OfRouter, OfBuilder, OfGroup, OfRoute
<1> QED
  BY <1>1, <1>2 DEF Placed

(* A scope covers a route if it is the router, the builder, a group around *)
(* the route, or the route.                                                *)
LEMMA CoversIs ==
  ASSUME FInv, NEW i \in DOMAIN under, NEW m \in DOMAIN scopes
  PROVE  Covers(scopes[m], i) <=>
           \/ scopes[m] = OfRouter \/ scopes[m] = OfBuilder
           \/ m \in AddedTo(Outer(groups, under[i].group))
           \/ scopes[m] = OfRoute(i)
<1>1. Placed(m)
  BY DEF FInv, MwInv
<1>2. Around(i) = Outer(groups, under[i].group)
  BY AroundIs
<1>3. CASE scopes[m] \in {OfRouter, OfBuilder}
  <2>1. scopes[m].kind \in {"router", "builder"}
    BY <1>3, WideScopeIs
  <2> QED
    BY <1>3, <2>1 DEF Covers
<1>4. CASE \E g \in DOMAIN groups : scopes[m] = OfGroup(g)
  <2>1. PICK g \in DOMAIN groups : scopes[m] = OfGroup(g)
    BY <1>4
  <2>2. scopes[m].kind = "group" /\ scopes[m].of = g
    BY <2>1 DEF OfGroup
  <2>3. m \in AddedTo(Outer(groups, under[i].group)) <=> g \in Outer(groups, under[i].group)
    BY <2>1, ScopesDiffer DEF AddedTo
  <2> QED
    BY <1>2, <2>1, <2>2, <2>3, ScopesDiffer DEF Covers
<1>5. CASE \E j \in DOMAIN under : scopes[m] = OfRoute(j)
  <2>1. PICK j \in DOMAIN under : scopes[m] = OfRoute(j)
    BY <1>5
  <2>2. scopes[m].kind = "route" /\ scopes[m].of = j
    BY <2>1 DEF OfRoute
  <2>3. m \notin AddedTo(Outer(groups, under[i].group))
    BY <2>1, ScopesDiffer DEF AddedTo
  <2> QED
    BY <2>1, <2>2, <2>3, ScopesDiffer DEF Covers
<1> QED
  BY <1>1, <1>3, <1>4, <1>5 DEF Placed

(* A table that is compiled now gives every route and every miss the       *)
(* middleware of its scopes.                                               *)
LEMMA CompileFollows ==
  ASSUME FInv
  PROVE  /\ \A i \in DOMAIN routes :
              WrappedBy(compile.chains[i], {m \in DOMAIN scopes : Covers(scopes[m], i)})
         /\ WrappedBy(compile.misses,
                      {m \in DOMAIN scopes : scopes[m].kind \in {"router", "builder"}})
<1> DEFINE Of(sc) == {m \in DOMAIN scopes : scopes[m] = sc}
           outermost == routerMw \o builderMw
<1>1. DOMAIN under = DOMAIN routes
  BY DEF FInv, GInv, TypeOK
<1>2. Nests(scopes, routerMw, Of(OfRouter)) /\ Nests(scopes, builderMw, Of(OfBuilder))
  BY ListHolds DEF FInv, GInv, ShapeInv, MwInv
<1>3. Nests(scopes, outermost, Of(OfRouter) \cup Of(OfBuilder))
  <2>1. \A a \in Of(OfRouter), b \in Of(OfBuilder) : Outside(scopes, a, b)
    BY WiderScope DEF Outside
  <2> HIDE DEF Of
  <2> QED
    BY <1>2, <2>1, ChainHolds
<1>4. compile.misses = outermost
      /\ \A i \in DOMAIN routes :
           compile.chains[i] = outermost \o chainTo[under[i].group] \o under[i].own
  BY DEF compile
<1>5. WrappedBy(compile.misses,
                {m \in DOMAIN scopes : scopes[m].kind \in {"router", "builder"}})
  <2>1. {m \in DOMAIN scopes : scopes[m].kind \in {"router", "builder"}}
          = Of(OfRouter) \cup Of(OfBuilder)
    <3>1. \A m \in DOMAIN scopes : scopes[m].kind \in {"router", "builder"} <=>
             scopes[m] = OfRouter \/ scopes[m] = OfBuilder
      BY WideScopeIs
    <3> QED
      BY <3>1
  <2> HIDE DEF Of, outermost
  <2> QED
    BY <1>3, <1>4, <2>1, HoldsIsWrapped
<1>6. ASSUME NEW i \in DOMAIN routes
      PROVE  WrappedBy(compile.chains[i], {m \in DOMAIN scopes : Covers(scopes[m], i)})
  <2> DEFINE g == under[i].group
             around == AddedTo(Outer(groups, g))
             wide == Of(OfRouter) \cup Of(OfBuilder)
  <2>1. i \in DOMAIN under /\ g \in Groups
    BY <1>1 DEF FInv, GInv, TypeOK
  <2>2. Nests(scopes, chainTo[g], around)
    BY <2>1, ChainToHolds
  <2>3. Nests(scopes, under[i].own, Of(OfRoute(i)))
    <3>1. under[i] \in Leaf
      BY <2>1 DEF FInv, GInv, ShapeInv
    <3>2. ListsOwn(under[i].own, OfRoute(i), scopes) /\ under[i].own \in Seq(Nat)
      BY <2>1, <3>1 DEF FInv, MwInv, Leaf
    <3> QED
      BY <3>2, ListHolds
  <2>4. \A a \in wide, b \in around : Outside(scopes, a, b)
    BY WiderScope DEF Outside, AddedTo
  <2>5. \A a \in wide \cup around, b \in Of(OfRoute(i)) : Outside(scopes, a, b)
    BY WiderScope DEF Outside, AddedTo
  <2>6. {m \in DOMAIN scopes : Covers(scopes[m], i)} = (wide \cup around) \cup Of(OfRoute(i))
    <3>1. around \subseteq DOMAIN scopes
      BY DEF AddedTo
    <3>2. \A m \in DOMAIN scopes : Covers(scopes[m], i) <=>
             \/ scopes[m] = OfRouter \/ scopes[m] = OfBuilder
             \/ m \in around
             \/ scopes[m] = OfRoute(i)
      BY <2>1, CoversIs
    <3> HIDE DEF around
    <3> QED
      BY <3>1, <3>2
  <2> HIDE DEF Of, outermost, around, wide, g
  <2>7. Nests(scopes, outermost \o chainTo[g], wide \cup around)
    BY <1>3, <2>2, <2>4, ChainHolds DEF wide
  <2>8. Nests(scopes, (outermost \o chainTo[g]) \o under[i].own,
              (wide \cup around) \cup Of(OfRoute(i)))
    BY <2>3, <2>5, <2>7, ChainHolds
  <2>9. compile.chains[i] = (outermost \o chainTo[g]) \o under[i].own
    BY <1>4 DEF g
  <2> QED
    BY <2>6, <2>8, <2>9, HoldsIsWrapped
<1> QED
  BY <1>5, <1>6

-----------------------------------------------------------------------------
(* What is done to a table that is kept, and to a new one                  *)

(* With no table compiled there is nothing to show.                        *)
LEMMA DroppedFollows ==
  ASSUME compiled' = NotCompiled
  PROVE  MiddlewareFollowsScope'
BY NotCompiledIsEmpty DEF MiddlewareFollowsScope

(* The property with the calls and the groups around a route spelt out.    *)
Encloses(around, sc, i) ==
    CASE sc.kind \in {"router", "builder"} -> TRUE
      [] sc.kind = "group" -> sc.of \in around
      [] sc.kind = "route" -> sc.of = i

Covering(cs, around, i) == {m \in DOMAIN cs : Encloses(around, cs[m], i)}
Wide(cs) == {m \in DOMAIN cs : cs[m].kind \in {"router", "builder"}}
Wraps(cs, c, M) == ToSet(c) = M /\ \A x, y \in DOMAIN c : x < y => Outside(cs, c[x], c[y])

Followed(t) ==
    /\ \A i \in DOMAIN routes : Wraps(scopes, t.chains[i], Covering(scopes, Around(i), i))
    /\ Wraps(scopes, t.misses, Wide(scopes))

(* MiddlewareFollowsScope, for the compiled table, if there is one.        *)
LEMMA FollowsIs ==
  MiddlewareFollowsScope <=> \A t \in ToSet(compiled) : Followed(t)
BY DEF MiddlewareFollowsScope, Followed, WrappedBy, Wraps, Outside, Covering, Covers,
   Encloses, Wide

(* The groups around the old routes stay, and a middleware added to a new  *)
(* group is for none of these.                                             *)
LEMMA KeptFollows ==
  ASSUME FInv, MiddlewareFollowsScope, TypeOK', ShapeInv',
         Len(groups) <= Len(groups'),
         \A g \in DOMAIN groups : groups'[g].parent = groups[g].parent,
         scopes' \in {scopes, Append(scopes, OfGroup(Len(groups) + 1))},
         UNCHANGED <<routes, under, compiled>>
  PROVE  MiddlewareFollowsScope'
<1> DEFINE n == Len(groups) + 1
<1>1. /\ Rooted(groups) /\ n - 1 = Len(groups) /\ n \in Nat /\ DOMAIN groups = 1 .. n - 1
      /\ Groups = 0 .. n - 1 /\ DOMAIN under = DOMAIN routes
      /\ \A i \in DOMAIN under : under[i].group \in Groups
  BY TreeIsRooted DEF FInv, GInv, TypeOK
<1>2. Rooted(groups')
  <2>1. PICK P, H : groups' \in Seq(GroupShape(P, H))
    BY DEF ShapeInv
  <2>2. DOMAIN groups' = 1 .. Len(groups') /\ Len(groups') \in Nat
    BY <2>1
  <2> QED
    BY <2>2 DEF TypeOK, Rooted
<1>3. ASSUME NEW i \in DOMAIN routes
      PROVE  Around(i)' = Around(i) /\ n \notin Around(i)
  <2>1. under[i].group \in 0 .. Len(groups)
    BY <1>1
  <2>2. Outer(groups', under[i].group) = Outer(groups, under[i].group)
    BY <1>1, <1>2, <2>1, OuterKept
  <2>3. Around(i)' = Outer(groups', under[i].group)
    BY DEF Around, Outer, Closed, Groups, GroupAt, Root, Up
  <2>4. Around(i) = Outer(groups, under[i].group)
    BY AroundIs
  <2>5. n \notin Outer(groups, under[i].group)
    BY <1>1 DEF Outer
  <2> QED
    BY <2>2, <2>3, <2>4, <2>5
<1>4. /\ scopes \in Seq(Scope)
      /\ DOMAIN scopes \subseteq DOMAIN scopes'
      /\ \A m \in DOMAIN scopes : scopes'[m] = scopes[m]
      /\ \A m \in DOMAIN scopes' : m \in DOMAIN scopes \/ scopes'[m] = OfGroup(n)
  <2>1. scopes \in Seq(Scope)
    BY DEF FInv, GInv, ShapeInv
  <2>2. CASE scopes' = scopes
    BY <2>1, <2>2
  <2>3. CASE scopes' = Append(scopes, OfGroup(n))
    BY <2>1, <2>3
  <2> QED
    BY <2>1, <2>2, <2>3
<1>5. ASSUME NEW c, NEW M, M \subseteq DOMAIN scopes, Wraps(scopes, c, M)
      PROVE  Wraps(scopes', c, M)
  <2>1. \A x \in DOMAIN c : scopes'[c[x]] = scopes[c[x]]
    BY <1>4, <1>5 DEF Wraps, ToSet
  <2> QED
    BY <1>5, <2>1 DEF Wraps, Outside
<1> HIDE DEF n
<1>6. OfGroup(n).kind = "group" /\ OfGroup(n).of = n
  BY DEF OfGroup
<1>7. ASSUME NEW i \in DOMAIN routes
      PROVE  Covering(scopes', Around(i), i) = Covering(scopes, Around(i), i)
  <2>1. ~ Encloses(Around(i), OfGroup(n), i)
    BY <1>3, <1>6 DEF Encloses
  <2> QED
    BY <1>4, <2>1 DEF Covering
<1>8. Wide(scopes') = Wide(scopes)
  BY <1>4, <1>6 DEF Wide
<1>9. ASSUME NEW t \in ToSet(compiled)
      PROVE  Followed(t)'
  <2>1. Followed(t)
    BY FollowsIs
  <2>2. \A i \in DOMAIN routes :
          Wraps(scopes', t.chains[i], Covering(scopes', Around(i)', i))
    <3> SUFFICES ASSUME NEW i \in DOMAIN routes
                 PROVE  Wraps(scopes', t.chains[i], Covering(scopes', Around(i)', i))
      OBVIOUS
    <3>1. Wraps(scopes, t.chains[i], Covering(scopes, Around(i), i))
      BY <2>1 DEF Followed
    <3>2. Covering(scopes, Around(i), i) \subseteq DOMAIN scopes
      BY DEF Covering
    <3> QED
      BY <1>3, <1>5, <1>7, <3>1, <3>2
  <2>3. Wraps(scopes', t.misses, Wide(scopes'))
    <3>1. Wraps(scopes, t.misses, Wide(scopes)) /\ Wide(scopes) \subseteq DOMAIN scopes
      BY <2>1 DEF Followed, Wide
    <3> QED
      BY <1>5, <1>8, <3>1
  <2> QED
    BY <2>2, <2>3 DEF Followed
<1>10. (\A t \in ToSet(compiled) : Followed(t))'
  BY <1>9
<1> QED
  BY <1>10, FollowsIs, PTL

(* What compile makes of the lists as they stand follows the scopes.       *)
LEMMA CompiledFollows ==
  ASSUME FInv, compiled' = <<compile>>, UNCHANGED <<groupVars, routes>>
  PROVE  MiddlewareFollowsScope'
<1>1. Followed(compile)
  BY CompileFollows DEF Followed, WrappedBy, Wraps, Outside, Covering, Covers, Encloses, Wide
<1>2. ToSet(compiled') = {compile}
  BY CompiledIs
<1>3. \A i : Around(i)' = Around(i)
  BY DEF groupVars, Around, Groups, GroupAt, Root
<1>4. \A t : Followed(t) => Followed(t)'
  BY <1>3 DEF Followed, groupVars
<1>5. (\A t \in ToSet(compiled) : Followed(t))'
  BY <1>1, <1>2, <1>4
<1> QED
  BY <1>5, FollowsIs, PTL

MInv == FInv /\ MiddlewareFollowsScope

LEMMA InitMInv == Init => MInv
<1> SUFFICES ASSUME Init PROVE MInv
  OBVIOUS
<1>1. MwInv
  BY ListsEmpty DEF Init, MwInv
<1>2. MiddlewareFollowsScope
  BY NotCompiledIsEmpty DEF Init, MiddlewareFollowsScope
<1> QED
  BY <1>1, <1>2, InitGInv DEF MInv, FInv

(* A new group: a table that is kept stays right.                          *)
LEMMA AddsGroupFollows ==
  ASSUME MInv, GInv', NEW p, NEW own, AddsGroup(p, own),
         UNCHANGED <<tableVars, routerMw, builderMw, under, compiled>>,
         \/ own = << >> /\ scopes' = scopes
         \/ own = <<NextMw>> /\ scopes' = Append(scopes, OfGroup(Len(groups) + 1))
  PROVE  MInv'
<1>1. MwInv'
  BY AddsGroupLists DEF MInv
<1>2. MiddlewareFollowsScope'
  <2>1. Len(groups) \in Nat
    BY TreeIsRooted DEF MInv
  <2>2. Len(groups) <= Len(groups') /\ \A g \in DOMAIN groups : groups'[g].parent = groups[g].parent
    BY <2>1 DEF AddsGroup
  <2> QED
    BY <2>2, KeptFollows DEF MInv, GInv, tableVars
<1> QED
  BY <1>1, <1>2 DEF MInv, FInv

(* A refused registration drops the table or leaves all as it was.         *)
LEMMA CountedFollows ==
  ASSUME MInv, GInv', Counted, UNCHANGED <<groups, routerMw, builderMw, scopes>>
  PROVE  MInv'
<1>1. MwInv'
  BY CountedLists DEF MInv
<1>2. MiddlewareFollowsScope'
  <2>1. CASE compiled' = NotCompiled
    BY <2>1, DroppedFollows
  <2>2. CASE compiled' = compiled
    <3>1. Len(groups) \in Nat
      BY TreeIsRooted DEF MInv
    <3> QED
      BY <2>2, <3>1, KeptFollows DEF MInv, GInv, Counted
  <2> QED
    BY <2>1, <2>2 DEF Counted
<1> QED
  BY <1>1, <1>2 DEF MInv, FInv

(* Each action keeps MInv: it drops the compiled table, compiles it        *)
(* afresh, or changes nothing a chain is made of.                          *)
LEMMA RecordedFollows ==
  ASSUME MInv, GInv', NEW g \in Groups, NEW own \in Seq(Nat), Recorded(g, own),
         UNCHANGED <<groups, routerMw, builderMw, live>>,
         \/ own = << >> /\ scopes' = scopes
         \/ own = <<NextMw>> /\ scopes' = Append(scopes, OfRoute(Len(routes) + 1))
  PROVE  MInv'
<1>1. scopes' \in Seq(Scope)
  BY DEF GInv, ShapeInv
<1>2. MwInv'
  BY <1>1, RecordedLists DEF MInv, GInv
<1>3. MiddlewareFollowsScope'
  BY DroppedFollows DEF Recorded
<1> QED
  BY <1>2, <1>3 DEF MInv, FInv

LEMMA NewGroupFollows ==
  ASSUME MInv, NEW p \in Groups, NEW prefix, NEW own \in {<< >>, <<NextMw>>},
         NewGroup(p, prefix, own)
  PROVE  MInv'
<1>1. AddsGroup(p, own) /\ GInv'
  BY NewGroupTypes DEF MInv, FInv
<1>2. \/ own = << >> /\ scopes' = scopes
      \/ own = <<NextMw>> /\ scopes' = Append(scopes, OfGroup(Len(groups) + 1))
  BY DEF NewGroup, Brings, Added
<1> QED
  BY <1>1, <1>2, AddsGroupFollows DEF NewGroup

LEMMA HostFollows ==
  ASSUME MInv, NEW p \in Groups, NEW hosts, Host(p, hosts)
  PROVE  MInv'
<1>1. AddsGroup(p, << >>) /\ GInv'
  BY HostTypes DEF MInv, FInv
<1> QED
  BY <1>1, AddsGroupFollows DEF Host

LEMMA UseFollows ==
  ASSUME MInv, RouterUse \/ BuilderUse \/ \E g \in Groups \ {0} : GroupUse(g)
  PROVE  MInv'
<1>1. GInv'
  BY RouterUseTypes, BuilderUseTypes, GroupUseTypes DEF MInv, FInv
<1>2. MwInv'
  BY <1>1, UseLists, GroupUseLists DEF MInv
<1>3. MiddlewareFollowsScope'
  <2>1. CASE compiled' = NotCompiled
    BY <2>1, DroppedFollows
  <2>2. CASE BuilderUse
    <3>1. ToSet(compiled') = {}
      BY <2>2 DEF BuilderUse, MInv, FInv, GInv, TypeOK
    <3> QED
      BY <3>1 DEF MiddlewareFollowsScope
  <2> QED
    BY <2>1, <2>2 DEF RouterUse, GroupUse
<1> QED
  BY <1>1, <1>2, <1>3 DEF MInv, FInv

LEMMA HandleInFollows ==
  ASSUME MInv, NEW g \in Groups, NEW method, NEW text, NEW opts,
         NEW own \in {<< >>, <<NextMw>>}, HandleIn(g, method, text, opts, own)
  PROVE  MInv'
<1>1. GInv'
  BY HandleInTypes DEF MInv, FInv
<1>2. \/ own = << >> /\ scopes' = scopes
      \/ own = <<NextMw>> /\ own # << >> /\ scopes' = Append(scopes, OfRoute(Len(routes) + 1))
  BY DEF HandleIn, Brings, Added
<1>3. own \in Seq(Nat)
  <2>1. scopes \in Seq(Scope)
    BY DEF MInv, FInv, GInv, ShapeInv
  <2>2. NextMw \in Nat
    BY <2>1 DEF NextMw
  <2>3. << >> \in Seq(Nat) /\ <<NextMw>> \in Seq(Nat)
    BY <2>2
  <2> QED
    BY <2>3
<1>4. CASE Accepted /\ Recorded(g, own)
  BY <1>1, <1>2, <1>3, <1>4, RecordedFollows DEF HandleIn
<1>5. CASE ~Accepted /\ Counted
  BY <1>1, <1>2, <1>5, CountedFollows DEF HandleIn
<1> QED
  BY <1>4, <1>5, RegisteredOutcome DEF HandleIn, MInv, FInv, GInv

LEMMA MountFollows ==
  ASSUME MInv, NEW g \in Groups, NEW method, NEW text, NEW opts, GInv',
         Registered(g, method, text, opts, << >>),
         UNCHANGED <<groups, routerMw, builderMw, scopes, live>>
  PROVE  MInv'
<1>1. << >> \in Seq(Nat)
  OBVIOUS
<1>2. CASE Recorded(g, << >>)
  BY <1>1, <1>2, RecordedFollows
<1>3. CASE Counted
  BY <1>3, CountedFollows
<1> QED
  BY <1>2, <1>3, RegisteredOutcome DEF MInv, FInv, GInv

LEMMA MountSelfFollows ==
  ASSUME MInv, NEW g \in Groups, NEW prefix, NEW opts, MountSelf(g, prefix, opts)
  PROVE  MInv'
<1>1. GInv'
  BY MountSelfTypes DEF MInv, FInv
<1> QED
  BY <1>1, MountFollows DEF MountSelf

LEMMA MountSubFollows ==
  ASSUME MInv, MountSub
  PROVE  MInv'
<1>1. GInv' /\ mounting[1].group \in Groups
  BY MountSubTypes DEF MInv, FInv, GInv, MountInv, MountSub
<1> QED
  BY <1>1, MountFollows DEF MountSub

LEMMA CompileStepFollows ==
  ASSUME MInv, Install \/ Recompile
  PROVE  MInv'
<1>1. GInv'
  BY CompileTypes DEF MInv, FInv
<1>2. compiled' = <<compile>> /\ UNCHANGED <<groupVars, routes>>
  BY DEF Install, Recompile, tableVars
<1>3. MwInv' /\ MiddlewareFollowsScope'
  BY <1>2, SameLists, CompiledFollows DEF MInv
<1> QED
  BY <1>1, <1>3 DEF MInv, FInv

(* MInv is inductive.                                                      *)
LEMMA NextMInv ==
  ASSUME MInv, [Next]_vars
  PROVE  MInv'
<1>1. ASSUME NEW p \in Groups, NEW prefix \in GroupPaths, NEW own \in {<< >>, <<NextMw>>},
             NewGroup(p, prefix, own)
      PROVE  MInv'
  BY <1>1, NewGroupFollows
<1>2. ASSUME NEW p \in Groups, NEW hosts \in HostLists, Host(p, hosts)
      PROVE  MInv'
  BY <1>2, HostFollows
<1>3. CASE RouterUse \/ BuilderUse \/ \E g \in Groups \ {0} : GroupUse(g)
  BY <1>3, UseFollows
<1>4. ASSUME NEW g \in Groups, NEW m \in Methods, NEW text \in Patterns,
             NEW opts \in Options, NEW own \in {<< >>, <<NextMw>>},
             HandleIn(g, m, text, opts, own)
      PROVE  MInv'
  BY <1>4, HandleInFollows
<1>5. ASSUME NEW g \in Groups, NEW prefix \in MountPoints, NEW opts \in Options,
             MountSelf(g, prefix, opts)
      PROVE  MInv'
  BY <1>5, MountSelfFollows
<1>6. CASE MountSub
  BY <1>6, MountSubFollows
<1>7. CASE Install \/ Recompile
  BY <1>7, CompileStepFollows
<1>8. CASE UNCHANGED vars
  <2>1. GInv'
    BY <1>8, NextGInv DEF MInv, FInv
  <2>2. MwInv'
    BY <1>8, SameLists DEF vars, MInv
  <2>3. (\A g \in DOMAIN groups : groups'[g].parent = groups[g].parent)
        /\ Len(groups) \in Nat /\ Len(groups') = Len(groups)
    BY <1>8, TreeIsRooted DEF vars, groupVars, MInv
  <2>4. MiddlewareFollowsScope'
    BY <1>8, <2>1, <2>3, KeptFollows DEF vars, tableVars, groupVars, MInv, GInv
  <2> QED
    BY <2>1, <2>2, <2>4 DEF MInv, FInv
<1> QED
  BY <1>1, <1>2, <1>3, <1>4, <1>5, <1>6, <1>7, <1>8 DEF Next

(* In every reachable state each middleware list holds the calls made for  *)
(* its scope, in their order, and each chain of the compiled table those   *)
(* of the scopes around its route (group.go, chainTo and compile).         *)
THEOREM ChainsInvariance == GroupSpec => []MInv
<1>1. MInv /\ [Next]_vars => MInv'
  BY NextMInv
<1> QED
  BY InitMInv, <1>1, PTL DEF GroupSpec

(* Whatever groups, hosts, patterns and middleware there are and in        *)
(* whatever order they were added, a compiled table gives every route the  *)
(* middleware of the router, the builder, the groups around it and itself, *)
(* and nothing else, from the widest scope to the narrowest.               *)
THEOREM ChainsFollowScopes == GroupSpec => []MiddlewareFollowsScope
<1>1. MInv => MiddlewareFollowsScope
  BY DEF MInv
<1> QED
  BY <1>1, ChainsInvariance, PTL

-----------------------------------------------------------------------------
(* Where routes are put: routes stay in their groups.                      *)
(*                                                                         *)
(* A prefix is joined to what comes behind it on a slash (Extends), and a  *)
(* template is read segment by segment, so the template of a text begins   *)
(* with the template of each prefix of it; the hosts of a group are those  *)
(* of the nearest group around it that declares some.                      *)

IsSlash(t) == t = "/"
Starts(S, x) == x # << >> /\ IsSlash(x[1])
Ends(S, x) == x # << >> /\ IsSlash(x[Len(x)])

(* What stands behind a prefix p when it ends or when a slash comes next.  *)
Extends(S, p, q) ==
    \E r \in Seq(S) : /\ q = p \o r
                      /\ p = << >> \/ r = << >> \/ Ends(S, p) \/ Starts(S, r)

(* What a text may be made of.  (That a literal is in STRING is not known  *)
(* to the provers.)                                                        *)
Tokens == STRING \cup {"/", MountParam}

(* The texts a caller may give are made of tokens.                         *)
LEMMA GivenTexts ==
  /\ "/" \in Tokens /\ MountParam \in Tokens
  /\ GroupPaths \cup Patterns \cup MountPoints \subseteq Seq(Tokens)
<1>1. STRING \subseteq Tokens /\ "/" \in Tokens /\ MountParam \in Tokens
  BY DEF Tokens
<1>2. Seq(STRING) \subseteq Seq(Tokens)
  BY <1>1, SeqMonotonic
<1> QED
  BY <1>1, <1>2, TextsAssumption

(* Concatenation of texts.                                                 *)
LEMMA ConcatIs ==
  ASSUME NEW S, NEW p \in Seq(S), NEW r \in Seq(S)
  PROVE  /\ p \o r \in Seq(S) /\ Len(p \o r) = Len(p) + Len(r)
         /\ Len(p) \in Nat /\ Len(r) \in Nat
         /\ \A i \in 1 .. Len(p) : (p \o r)[i] = p[i]
         /\ \A i \in 1 .. Len(r) : (p \o r)[Len(p) + i] = r[i]
OBVIOUS

LEMMA EmptyIs ==
  ASSUME NEW S, NEW p \in Seq(S)
  PROVE  /\ (p = << >> <=> Len(p) = 0) /\ Len(p) \in Nat
         /\ p \o << >> = p /\ << >> \o p = p
OBVIOUS

LEMMA ConcatAgain ==
  ASSUME NEW S, NEW p \in Seq(S), NEW q \in Seq(S), NEW r \in Seq(S)
  PROVE  (p \o q) \o r = p \o (q \o r)
OBVIOUS

(* Extends is reflexive and transitive.                                    *)
LEMMA StartsOn ==
  ASSUME NEW S, NEW p \in Seq(S), NEW r \in Seq(S), Starts(S, p)
  PROVE  Starts(S, p \o r)
<1>1. Len(p) # 0 /\ Len(p) \in Nat
  BY EmptyIs DEF Starts
<1>2. p \o r # << >> /\ (p \o r)[1] = p[1]
  BY <1>1, ConcatIs, EmptyIs
<1> QED
  BY <1>2 DEF Starts

LEMMA ExtendsItself ==
  ASSUME NEW S, NEW p \in Seq(S)
  PROVE  Extends(S, p, p)
<1>1. << >> \in Seq(S) /\ p \o << >> = p
  OBVIOUS
<1> QED
  BY <1>1 DEF Extends

LEMMA ExtendsAgain ==
  ASSUME NEW S, NEW p \in Seq(S), NEW q \in Seq(S), NEW s,
         Extends(S, p, q), Extends(S, q, s)
  PROVE  Extends(S, p, s)
<1>1. PICK x \in Seq(S) : /\ q = p \o x
                          /\ p = << >> \/ x = << >> \/ Ends(S, p) \/ Starts(S, x)
  BY DEF Extends
<1>2. PICK y \in Seq(S) : /\ s = q \o y
                          /\ q = << >> \/ y = << >> \/ Ends(S, q) \/ Starts(S, y)
  BY DEF Extends
<1>3. s = p \o (x \o y) /\ x \o y \in Seq(S)
  <2>1. s = (p \o x) \o y
    BY <1>1, <1>2, Zenon
  <2>2. (p \o x) \o y = p \o (x \o y)
    BY ConcatAgain, SMTT(20)
  <2>3. x \o y \in Seq(S)
    BY ConcatIs, SMTT(20)
  <2> QED
    BY <2>1, <2>2, <2>3, Zenon
<1>4. CASE p = << >> \/ Ends(S, p)
  BY <1>3, <1>4 DEF Extends
<1>5. CASE Starts(S, x)
  <2>1. Starts(S, x \o y)
    BY <1>5, StartsOn
  <2> QED
    BY <1>3, <2>1 DEF Extends
<1>6. CASE x = << >>
  <2>1. q = p /\ x \o y = y
    BY <1>1, <1>6, EmptyIs
  <2> QED
    BY <1>2, <1>3, <2>1 DEF Extends
<1> QED
  BY <1>1, <1>4, <1>5, <1>6

(* A text apart from its last or its first token.                          *)
LEMMA LastApart ==
  ASSUME NEW S, NEW p \in Seq(S), p # << >>
  PROVE  Front(p) \in Seq(S) /\ p[Len(p)] \in S /\ p = Front(p) \o <<p[Len(p)]>>
<1>1. Len(p) \in 1 .. Len(p) /\ 1 \in 1 .. Len(p) /\ p[Len(p)] \in S
  OBVIOUS
<1>2. SubSeq(p, 1, Len(p)) = SubSeq(p, 1, Len(p) - 1) \o <<p[Len(p)]>>
  BY <1>1, SubSeqRecursiveSecond
<1>3. SubSeq(p, 1, Len(p)) = p
  BY SubSeqFull
<1>4. Front(p) \in Seq(S)
  BY DEF Front
<1> QED
  BY <1>1, <1>2, <1>3, <1>4 DEF Front

LEMMA FirstApart ==
  ASSUME NEW S, NEW x \in Seq(S), x # << >>
  PROVE  Tail(x) \in Seq(S) /\ x = <<x[1]>> \o Tail(x)
<1>1. Len(x) \in 1 .. Len(x) /\ 1 \in 1 .. Len(x) /\ Tail(x) \in Seq(S)
  OBVIOUS
<1>2. SubSeq(x, 1, Len(x)) = <<x[1]>> \o SubSeq(x, 1 + 1, Len(x))
  BY <1>1, SubSeqRecursiveFirst
<1>3. SubSeq(x, 1, Len(x)) = x /\ SubSeq(x, 2, Len(x)) = Tail(x)
  BY SubSeqFull, TailIsSubSeq
<1>4. 1 + 1 = 2
  OBVIOUS
<1> QED
  BY <1>1, <1>2, <1>3, <1>4

(* A slash between the two is kept once, and one is put there if there is  *)
(* none.                                                                   *)
LEMMA MeetOnce ==
  ASSUME NEW S, NEW p \in Seq(S), NEW x \in Seq(S), p # << >>, x # << >>,
         p[Len(p)] = x[1]
  PROVE  Tail(x) \in Seq(S) /\ Front(p) \o x = p \o Tail(x)
<1> DEFINE f == Front(p)
           t == Tail(x)
           m == <<x[1]>>
<1>1. f \in Seq(S) /\ t \in Seq(S) /\ m \in Seq(S)
  <2>1. f \in Seq(S) /\ t \in Seq(S) /\ p[Len(p)] \in S
    BY LastApart, FirstApart
  <2> QED
    BY <2>1
<1>2. p = f \o m /\ x = m \o t
  BY LastApart, FirstApart
<1> HIDE DEF f, t, m
<1>3. (f \o m) \o t = f \o (m \o t)
  <2>1. \A a, b, c \in Seq(S) : (a \o b) \o c = a \o (b \o c)
    BY ConcatAgain, SMTT(20)
  <2> QED
    BY <1>1, <2>1, SMTT(20)
<1>4. f \o x = p \o t
  <2>1. f \o x = f \o (m \o t)
    BY <1>2, Zenon
  <2>2. p \o t = (f \o m) \o t
    BY <1>2, Zenon
  <2> QED
    BY <1>3, <2>1, <2>2, Zenon
<1> QED
  BY <1>1, <1>4 DEF f, t

(* joinPrefix goes on from the prefix, on a slash.                         *)
LEMMA JoinExtends ==
  ASSUME NEW S, "/" \in S, NEW p \in Seq(S), NEW x \in Seq(S)
  PROVE  JoinPrefix(p, x) \in Seq(S) /\ Extends(S, p, JoinPrefix(p, x))
<1> DEFINE j == JoinPrefix(p, x)
           c == "/"
           e == EndsInSlash(p)
           a == StartsInSlash(x)
<1>1. j = IF p = << >> THEN x
          ELSE IF x \in {<< >>, <<c>>} THEN p
          ELSE (CASE e /\ a -> Front(p) [] ~e /\ ~a -> Append(p, c) [] OTHER -> p) \o x
  BY DEF JoinPrefix
<1>2. e <=> p # << >> /\ p[Len(p)] = c
  BY DEF EndsInSlash, Last
<1>3. a <=> x # << >> /\ x[1] = c
  <2>1. x # << >> => Head(x) = x[1]
    OBVIOUS
  <2> QED
    BY <2>1 DEF StartsInSlash
<1>4. (e <=> Ends(S, p)) /\ (a <=> Starts(S, x))
  BY <1>2, <1>3 DEF Ends, Starts, IsSlash
<1>5. c \in S /\ IsSlash(c)
  BY DEF IsSlash
<1> HIDE DEF c, e, a, j
<1>6. CASE p = << >>
  <2>1. j = p \o x
    BY <1>1, <1>6, EmptyIs
  <2>2. j \in Seq(S) /\ Extends(S, p, j)
    BY <1>6, <2>1, ConcatIs DEF Extends
  <2> QED
    BY <2>2 DEF j
<1>7. CASE p # << >> /\ x \in {<< >>, <<c>>}
  <2>1. j = p
    BY <1>1, <1>7
  <2> QED
    BY <2>1, ExtendsItself DEF j
<1>8. CASE p # << >> /\ x \notin {<< >>, <<c>>} /\ e /\ a
  <2>1. j = Front(p) \o x
    BY <1>1, <1>8
  <2>2. p # << >> /\ x # << >> /\ p[Len(p)] = x[1]
    BY <1>2, <1>3, <1>8
  <2>3. Tail(x) \in Seq(S) /\ j = p \o Tail(x)
    BY <2>1, <2>2, MeetOnce
  <2>4. j \in Seq(S) /\ Extends(S, p, j)
    BY <1>4, <1>8, <2>3, ConcatIs DEF Extends
  <2> QED
    BY <2>4 DEF j
<1>9. CASE p # << >> /\ x \notin {<< >>, <<c>>} /\ ~e /\ ~a
  <2> DEFINE m == <<c>>
             y == m \o x
  <2>1. j = Append(p, c) \o x
    BY <1>1, <1>9
  <2>2. m \in Seq(S) /\ m # << >> /\ m[1] = c /\ Append(p, c) = p \o m
    BY <1>5
  <2> HIDE DEF m
  <2>3. j = p \o (m \o x)
    BY <2>1, <2>2, ConcatAgain
  <2>4. Starts(S, m)
    BY <1>5, <2>2 DEF Starts
  <2>5. Starts(S, y) /\ y \in Seq(S)
    BY <2>2, <2>4, StartsOn, ConcatIs
  <2>6. j \in Seq(S) /\ Extends(S, p, j)
    BY <2>3, <2>5, ConcatIs DEF Extends
  <2> QED
    BY <2>6 DEF j
<1>10. CASE p # << >> /\ x \notin {<< >>, <<c>>} /\ ~(e <=> a)
  <2>1. j = p \o x
    BY <1>1, <1>10
  <2>2. j \in Seq(S) /\ Extends(S, p, j)
    BY <1>4, <1>10, <2>1, ConcatIs DEF Extends
  <2> QED
    BY <2>2 DEF j
<1> QED
  BY <1>6, <1>7, <1>8, <1>9, <1>10

-----------------------------------------------------------------------------
(* Templates *)

Blank == Lit("")
Pieces == {Blank} \cup {Segment(t) : t \in Tokens}

(* One token read: a slash begins a segment, anything else fills the last. *)
LEMMA StepIs ==
  ASSUME NEW segs \in Seq(Pieces), NEW t \in Tokens
  PROVE  /\ TemplateStep(segs, t) \in Seq(Pieces)
         /\ IsSlash(t) => TemplateStep(segs, t) = Append(segs, Blank)
         /\ \/ TemplateStep(segs, t) = Append(segs, Blank)
            \/ TemplateStep(segs, t) = Append(Front(segs), Segment(t))
<1>1. \/ IsSlash(t) /\ TemplateStep(segs, t) = Append(segs, Blank)
      \/ ~IsSlash(t) /\ TemplateStep(segs, t) = Append(Front(segs), Segment(t))
  BY DEF TemplateStep, IsSlash, Blank
<1>2. Blank \in Pieces /\ Segment(t) \in Pieces
  BY DEF Pieces
<1> DEFINE b == Blank
           x == Segment(t)
           D == Pieces
           f == Front(segs)
<1>3. f \in Seq(D)
  <2>1. CASE segs = << >>
    BY <2>1 DEF Front
  <2>2. CASE segs # << >>
    BY <2>2, LastApart
  <2> QED
    BY <2>1, <2>2
<1> HIDE DEF b, x, D, f
<1>4. b \in D /\ x \in D /\ segs \in Seq(D)
  BY <1>2 DEF b, x, D
<1>5. Append(segs, b) \in Seq(D) /\ Append(f, x) \in Seq(D)
  BY <1>3, <1>4
<1> QED
  BY <1>1, <1>5 DEF b, x, D, f

(* The templates of what is read of a text, token by token.                *)
ReadSoFar(f, text) ==
    /\ f[0] = << >>
    /\ \A i \in 1 .. Len(text) : f[i] = TemplateStep(f[i - 1], text[i])
    /\ \A i \in 0 .. Len(text) : f[i] \in Seq(Pieces)
    /\ FoldLeft(TemplateStep, << >>, text) = f[Len(text)]

LEMMA TemplateRuns ==
  ASSUME NEW text \in Seq(Tokens)
  PROVE  \E f : ReadSoFar(f, text)
<1> DEFINE n == Len(text)
           A == Seq(Pieces)
           F == [i \in 1 .. n |-> [x \in A |-> TemplateStep(x, text[i])]]
           Step(g, s) == IF s = {} THEN << >>
                         ELSE TemplateStep(g[s \ {Max(s)}], text[Max(s)])
           Def(g) == g = [s \in SUBSET DOMAIN text |-> Step(g, s)]
           iter == CHOOSE g : Def(g)
           f == [i \in 0 .. n |-> iter[1 .. i]]
<1>0. n \in Nat /\ DOMAIN text = 1 .. n
  OBVIOUS
<1>1. << >> \in A
  OBVIOUS
<1>2. F \in [1 .. n -> [A -> A]]
  <2>1. \A i \in 1 .. n : text[i] \in Tokens
    BY <1>0
  <2>2. \A i \in 1 .. n : \A x \in A : TemplateStep(x, text[i]) \in A
    BY <2>1, StepIs
  <2> HIDE DEF A
  <2> QED
    BY <2>2
<1>3. PICK g : IsFold(g, n, A, << >>, F)
  <2> HIDE DEF n, F, A
  <2> QED
    BY <1>0, <1>1, <1>2, FoldExists
<1> HIDE DEF A
<1>4. ASSUME NEW s \in SUBSET (1 .. n)
      PROVE  g[s] = Step(g, s) /\ g[s] \in A
  <2>1. CASE s # {}
    <3>1. Max(s) \in 1 .. n /\ s \ {Max(s)} \in SUBSET (1 .. n)
      BY <1>0, <2>1, MaxIsMember
    <3> QED
      BY <1>3, <2>1, <3>1 DEF IsFold
  <2>2. CASE s = {}
    BY <1>3, <2>2 DEF IsFold
  <2> QED
    BY <2>1, <2>2
<1>5. Def(g)
  BY <1>0, <1>3, <1>4 DEF IsFold
<1>6. Def(iter)
  <2> HIDE DEF Def
  <2> QED
    BY <1>5
<1>7. FoldLeft(TemplateStep, << >>, text) = iter[DOMAIN text]
  BY DEF FoldLeft, MapThenFoldSet
<1>8. \A s \in SUBSET (1 .. n) : iter[s] = Step(iter, s)
  BY <1>0, <1>6
<1> HIDE DEF iter
<1>9. iter[1 .. 0] = << >>
  <2>1. 1 .. 0 = {} /\ 1 .. 0 \in SUBSET (1 .. n)
    OBVIOUS
  <2> QED
    BY <1>8, <2>1
<1>10. ASSUME NEW i \in 1 .. n
       PROVE  iter[1 .. i] = TemplateStep(iter[1 .. i - 1], text[i])
  <2>1. /\ 1 .. i \in SUBSET (1 .. n) /\ 1 .. i # {}
        /\ Max(1 .. i) = i
        /\ (1 .. i) \ {Max(1 .. i)} = 1 .. i - 1
    BY <1>0, FoldPath
  <2> QED
    BY <1>8, <2>1
<1>11. \A i \in 0 .. n : iter[1 .. i] \in A
  <2> DEFINE T == {i \in Nat : iter[1 .. i] \in A}
  <2>1. 0 \in T
    BY <1>1, <1>9
  <2>2. ASSUME NEW k \in Nat, k < n, k \in T
        PROVE  k + 1 \in T
    <3>1. k + 1 \in 1 .. n /\ k + 1 - 1 = k /\ text[k + 1] \in Tokens
      BY <1>0, <2>2
    <3>2. iter[1 .. k + 1] = TemplateStep(iter[1 .. k], text[k + 1])
      BY <1>10, <3>1
    <3>3. iter[1 .. k] \in Seq(Pieces)
      BY <2>2 DEF A
    <3>4. TemplateStep(iter[1 .. k], text[k + 1]) \in Seq(Pieces)
      BY <3>1, <3>3, StepIs
    <3> QED
      BY <3>2, <3>4 DEF A
  <2> HIDE DEF T, n
  <2>3. \A k \in 0 .. n : k \in T
    BY <1>0, <2>1, <2>2, UpTo
  <2> QED
    BY <2>3 DEF T
<1>12. /\ f[0] = << >> /\ f[n] = iter[DOMAIN text]
       /\ \A i \in 1 .. n : f[i] = TemplateStep(f[i - 1], text[i])
       /\ \A i \in 0 .. n : f[i] \in A
  <2>1. /\ \A i \in 1 .. n : i - 1 \in 0 .. n /\ i \in 0 .. n
        /\ n \in 0 .. n /\ 0 \in 0 .. n
    BY <1>0
  <2>2. f[0] = << >> /\ f[n] = iter[DOMAIN text]
    BY <1>0, <1>9, <2>1
  <2>3. \A i \in 1 .. n : f[i] = TemplateStep(f[i - 1], text[i])
    BY <1>10, <2>1
  <2> QED
    BY <1>11, <2>2, <2>3
<1> QED
  <2> HIDE DEF f
  <2> QED
    BY <1>7, <1>12 DEF A, ReadSoFar

(* x goes on after P.                                                      *)
GoesOn(P, x) == Len(x) > Len(P) /\ \A i \in 1 .. Len(P) : x[i] = P[i]

LEMMA SamePrefix ==
  ASSUME NEW S, NEW P \in Seq(S), NEW x \in Seq(S), Len(P) <= Len(x),
         \A i \in 1 .. Len(P) : x[i] = P[i]
  PROVE  IsPrefix(P, x)
<1> DEFINE n == Len(P)
           y == SubSeq(x, 1, n)
<1>1. n \in Nat /\ (\A i \in 1 .. n : x[i] \in S) /\ 1 \in Int /\ n \in Int
      /\ (IF 1 <= n THEN n - 1 + 1 ELSE 0) = n /\ n - 1 + 1 = n
  OBVIOUS
<1>2. y \in Seq(S) /\ Len(y) = n /\ \A i \in 1 .. n : y[i] = x[1 + i - 1]
  <2> HIDE DEF n
  <2> QED
    BY <1>1, SubSeqProperties
<1>3. \A i \in 1 .. n : y[i] = P[i]
  <2> HIDE DEF y
  <2>1. \A i \in 1 .. n : 1 + i - 1 = i
    BY <1>1
  <2> QED
    BY <1>2, <2>1
<1>4. y = P
  <2> HIDE DEF y
  <2> QED
    BY <1>2, <1>3, SeqEqual
<1>5. SubSeq(P, 1, Len(P)) = P
  BY SubSeqFull
<1> QED
  BY <1>4, <1>5 DEF IsPrefix

LEMMA FrontIs ==
  ASSUME NEW S, NEW x \in Seq(S), x # << >>
  PROVE  /\ Front(x) \in Seq(S) /\ Len(Front(x)) = Len(x) - 1
         /\ \A i \in 1 .. Len(x) - 1 : Front(x)[i] = x[i]
<1> DEFINE f == Front(x)
           m == <<x[Len(x)]>>
<1>1. f \in Seq(S) /\ x[Len(x)] \in S /\ x = f \o m
  BY LastApart
<1>2. m \in Seq(S) /\ Len(m) = 1
  BY <1>1
<1> HIDE DEF f, m
<1>3. /\ Len(f \o m) = Len(f) + Len(m) /\ Len(f) \in Nat
      /\ \A i \in 1 .. Len(f) : (f \o m)[i] = f[i]
  BY <1>1, <1>2, ConcatIs
<1>4. Len(x) = Len(f) + 1 /\ \A i \in 1 .. Len(f) : x[i] = f[i]
  BY <1>1, <1>2, <1>3
<1>5. Len(f) = Len(x) - 1
  BY <1>3, <1>4
<1> QED
  BY <1>1, <1>4, <1>5 DEF f

(* Reading on keeps the segments that a prefix has.                        *)
LEMMA StepGoesOn ==
  ASSUME NEW P \in Seq(Pieces), NEW x \in Seq(Pieces), NEW t \in Tokens, GoesOn(P, x)
  PROVE  GoesOn(P, TemplateStep(x, t))
<1> DEFINE y == TemplateStep(x, t)
           D == Pieces
           b == Blank
           s == Segment(t)
<1>1. y = Append(x, b) \/ y = Append(Front(x), s)
  BY StepIs
<1>2. b \in D /\ s \in D
  BY DEF Pieces
<1>3. /\ P \in Seq(D) /\ x \in Seq(D) /\ Len(x) > Len(P) /\ Len(x) \in Nat /\ Len(P) \in Nat
      /\ x # << >> /\ \A i \in 1 .. Len(P) : x[i] = P[i]
  <2> HIDE DEF D
  <2>1. Len(x) > Len(P) /\ \A i \in 1 .. Len(P) : x[i] = P[i]
    BY DEF GoesOn
  <2>2. P \in Seq(D) /\ x \in Seq(D)
    BY DEF D
  <2> QED
    BY <2>1, <2>2
<1> HIDE DEF y, D, b, s
<1>4. CASE y = Append(x, b)
  <2>1. Len(y) = Len(x) + 1 /\ \A i \in 1 .. Len(x) : y[i] = x[i]
    BY <1>2, <1>3, <1>4
  <2>2. GoesOn(P, y)
    BY <1>3, <2>1 DEF GoesOn
  <2> QED
    BY <2>2 DEF y
<1>5. CASE y = Append(Front(x), s)
  <2> DEFINE f == Front(x)
  <2>1. f \in Seq(D) /\ Len(f) = Len(x) - 1 /\ \A i \in 1 .. Len(x) - 1 : f[i] = x[i]
    BY <1>3, FrontIs
  <2>2. y = Append(f, s)
    BY <1>5
  <2> HIDE DEF f
  <2>3. Len(y) = Len(f) + 1 /\ \A i \in 1 .. Len(f) : y[i] = f[i]
    BY <1>2, <2>1, <2>2
  <2>4. Len(y) = Len(x) /\ \A i \in 1 .. Len(x) - 1 : y[i] = x[i]
    BY <1>3, <2>1, <2>3
  <2>5. \A i \in 1 .. Len(P) : i \in 1 .. Len(x) - 1
    BY <1>3
  <2>6. GoesOn(P, y)
    BY <1>3, <2>4, <2>5 DEF GoesOn
  <2> QED
    BY <2>6 DEF y
<1> QED
  BY <1>1, <1>4, <1>5

(* What a template goes on after stays ahead of all that is read later.    *)
LEMMA RunGoesOn ==
  ASSUME NEW text \in Seq(Tokens), NEW P \in Seq(Pieces), NEW f, NEW a \in 0 .. Len(text),
         \A i \in 1 .. Len(text) : f[i] = TemplateStep(f[i - 1], text[i]),
         \A i \in 0 .. Len(text) : f[i] \in Seq(Pieces),
         GoesOn(P, f[a])
  PROVE  GoesOn(P, f[Len(text)])
<1> DEFINE n == Len(text)
           T == {j \in Nat : GoesOn(P, f[a + j])}
<1>0. n \in Nat /\ a \in Nat /\ a <= n /\ n - a \in Nat /\ a + (n - a) = n
  OBVIOUS
<1>1. 0 \in T
  <2>1. a + 0 = a
    BY <1>0
  <2> QED
    BY <2>1
<1>2. ASSUME NEW j \in Nat, j < n - a, j \in T
      PROVE  j + 1 \in T
  <2>1. a + (j + 1) \in 1 .. n /\ a + (j + 1) - 1 = a + j /\ a + j \in 0 .. n
    BY <1>0, <1>2
  <2>2. text[a + (j + 1)] \in Tokens
    BY <2>1
  <2>3. f[a + (j + 1)] = TemplateStep(f[a + j], text[a + (j + 1)]) /\ f[a + j] \in Seq(Pieces)
    BY <2>1
  <2>4. GoesOn(P, f[a + j])
    BY <1>2
  <2>5. GoesOn(P, f[a + (j + 1)])
    BY <2>2, <2>3, <2>4, StepGoesOn
  <2> QED
    BY <2>5
<1> HIDE DEF T, n
<1>3. \A j \in 0 .. n - a : j \in T
  BY <1>0, <1>1, <1>2, UpTo
<1>4. n - a \in T
  BY <1>0, <1>3
<1> QED
  BY <1>0, <1>4 DEF T, n

(* The segments of a prefix: its template, without a blank at the end.     *)
LEMMA SegmentsAre ==
  ASSUME NEW x \in Seq(Pieces)
  PROVE  LET P == SegmentsOf(x)
         IN /\ P \in Seq(Pieces) /\ Len(P) <= Len(x)
            /\ \A i \in 1 .. Len(P) : x[i] = P[i]
            /\ x # << >> /\ x[Len(x)] = Blank => Len(P) = Len(x) - 1
<1> DEFINE D == Pieces
           b == Blank
           P == SegmentsOf(x)
<1>1. P = IF x # << >> /\ x[Len(x)] = b THEN Front(x) ELSE x
  BY DEF SegmentsOf, Last, Blank
<1>2. x \in Seq(D)
  OBVIOUS
<1> HIDE DEF D, b, P
<1>3. CASE x # << >> /\ x[Len(x)] = b
  <2>1. /\ P \in Seq(D) /\ Len(P) = Len(x) - 1
        /\ \A i \in 1 .. Len(x) - 1 : P[i] = x[i]
    BY <1>1, <1>2, <1>3, FrontIs
  <2>2. Len(P) <= Len(x) /\ \A i \in 1 .. Len(P) : x[i] = P[i]
    BY <1>2, <2>1
  <2> QED
    BY <2>1, <2>2 DEF P, D
<1>4. CASE ~(x # << >> /\ x[Len(x)] = b)
  <2>1. P = x
    BY <1>1, <1>4
  <2>2. P \in Seq(D) /\ Len(P) <= Len(x) /\ \A i \in 1 .. Len(P) : x[i] = P[i]
    BY <1>2, <2>1
  <2> QED
    BY <1>4, <2>2 DEF P, D, b
<1> QED
  BY <1>3, <1>4

LEMMA TemplateTyped ==
  ASSUME NEW text \in Seq(Tokens)
  PROVE  TemplateOf(text) \in Seq(Pieces)
<1>1. FoldLeft(TemplateStep, << >>, text) \in Seq(Pieces)
  <2>1. PICK f : ReadSoFar(f, text)
    BY TemplateRuns
  <2>2. Len(text) \in 0 .. Len(text)
    OBVIOUS
  <2> QED
    BY <2>1, <2>2 DEF ReadSoFar
<1>2. << >> \in Seq(Pieces)
  OBVIOUS
<1>3. TemplateOf(text) \in {<< >>, FoldLeft(TemplateStep, << >>, text)}
  BY DEF TemplateOf
<1> QED
  BY <1>1, <1>2, <1>3

(* What is read first of a text does not depend on what comes behind.      *)
LEMMA SameRun ==
  ASSUME NEW p \in Seq(Tokens), NEW q \in Seq(Tokens), NEW f, NEW g,
         Len(p) <= Len(q), \A i \in 1 .. Len(p) : q[i] = p[i],
         ReadSoFar(f, p), ReadSoFar(g, q)
  PROVE  g[Len(p)] = f[Len(p)]
<1> DEFINE n == Len(p)
           T == {i \in Nat : g[i] = f[i]}
<1>0. n \in Nat /\ \A i \in 1 .. n : i \in 1 .. Len(q)
  OBVIOUS
<1>1. 0 \in T
  BY DEF ReadSoFar
<1>2. ASSUME NEW k \in Nat, k < n, k \in T
      PROVE  k + 1 \in T
  <2>1. k + 1 \in 1 .. n /\ k + 1 - 1 = k
    BY <1>0, <1>2
  <2>2. /\ f[k + 1] = TemplateStep(f[k], p[k + 1])
        /\ g[k + 1] = TemplateStep(g[k], q[k + 1])
        /\ q[k + 1] = p[k + 1] /\ g[k] = f[k]
    BY <1>0, <1>2, <2>1 DEF ReadSoFar
  <2> QED
    BY <2>2
<1> HIDE DEF T, n
<1>3. \A k \in 0 .. n : k \in T
  BY <1>0, <1>1, <1>2, UpTo
<1>4. n \in T
  BY <1>0, <1>3
<1> QED
  BY <1>4 DEF T, n

LEMMA StartsIs ==
  ASSUME NEW text \in Seq(Tokens)
  PROVE  StartsInSlash(text) <=> Starts(Tokens, text)
<1>1. text # << >> => Head(text) = text[1]
  OBVIOUS
<1> QED
  BY <1>1 DEF StartsInSlash, Starts, IsSlash

(* The template of a text begins with that of a prefix it extends, on a    *)
(* segment boundary.                                                       *)
LEMMA TemplateBegins ==
  ASSUME NEW p \in Seq(Tokens), NEW q \in Seq(Tokens), Extends(Tokens, p, q)
  PROVE  IsPrefix(SegmentsOf(TemplateOf(p)), TemplateOf(q))
<1> DEFINE S == Tokens
<1>1. PICK r \in Seq(S) : /\ q = p \o r
                          /\ p = << >> \/ r = << >> \/ Ends(S, p) \/ Starts(S, r)
  BY DEF Extends
<1>2. CASE ~Starts(S, p)
  <2>1. TemplateOf(p) = << >>
    BY <1>2, StartsIs DEF TemplateOf
  <2>2. SegmentsOf(<< >>) = << >>
    BY DEF SegmentsOf
  <2>3. TemplateOf(q) \in Seq(Pieces) /\ << >> \in Seq(Pieces)
    BY TemplateTyped
  <2>4. IsPrefix(<< >>, TemplateOf(q))
    <3> DEFINE x == TemplateOf(q)
               e == << >>
               D == Pieces
    <3>1. Len(e) = 0 /\ Len(x) \in Nat /\ x \in Seq(D) /\ e \in Seq(D)
      BY <2>3
    <3> HIDE DEF x, e, D
    <3>2. Len(e) <= Len(x) /\ \A i \in 1 .. Len(e) : x[i] = e[i]
      BY <3>1
    <3>3. IsPrefix(e, x)
      BY <3>1, <3>2, SamePrefix
    <3> QED
      BY <3>3 DEF x, e
  <2> QED
    BY <2>1, <2>2, <2>4
<1>3. CASE Starts(S, p)
  <2> DEFINE k == Len(p)
             n == Len(q)
  <2>0. /\ k \in Nat /\ n \in Nat /\ n = k + Len(r) /\ Len(r) \in Nat /\ k # 0 /\ p # << >>
        /\ \A i \in 1 .. k : q[i] = p[i]
        /\ \A i \in 1 .. Len(r) : q[k + i] = r[i]
    <3>1. p # << >>
      BY <1>3 DEF Starts
    <3>2. k # 0
      BY <3>1, EmptyIs
    <3> HIDE DEF S
    <3> QED
      BY <1>1, <3>1, <3>2, ConcatIs DEF S
  <2>f. PICK f : ReadSoFar(f, p)
    BY TemplateRuns
  <2>g. PICK g : ReadSoFar(g, q)
    BY <1>1, TemplateRuns
  <2>1. FoldLeft(TemplateStep, << >>, p) = f[k]
    BY <2>f DEF ReadSoFar
  <2>2. /\ g[0] = << >>
        /\ \A i \in 1 .. n : g[i] = TemplateStep(g[i - 1], q[i])
        /\ \A i \in 0 .. n : g[i] \in Seq(Pieces)
        /\ FoldLeft(TemplateStep, << >>, q) = g[n]
    BY <2>g DEF ReadSoFar
  <2>3. g[k] = f[k]
    <3>1. Len(p) <= Len(q)
      BY <2>0
    <3>2. \A i \in 1 .. Len(p) : q[i] = p[i]
      BY <2>0
    <3>3. q \in Seq(Tokens)
      BY <1>1
    <3> QED
      BY <2>f, <2>g, <3>1, <3>2, <3>3, SameRun, SMTT(20)
  <2>4. Starts(S, q)
    BY <1>1, <1>3, StartsOn
  <2>5. TemplateOf(p) = g[k] /\ TemplateOf(q) = g[n]
    BY <1>3, <2>1, <2>2, <2>3, <2>4, StartsIs DEF TemplateOf
  <2> DEFINE P == SegmentsOf(g[k])
  <2>6. k \in 0 .. n /\ n \in 0 .. n /\ k \in 1 .. n /\ g[k] \in Seq(Pieces)
        /\ g[n] \in Seq(Pieces)
    BY <2>0, <2>2
  <2>7. /\ P \in Seq(Pieces) /\ Len(P) <= Len(g[k])
        /\ \A i \in 1 .. Len(P) : g[k][i] = P[i]
        /\ g[k] # << >> /\ g[k][Len(g[k])] = Blank => Len(P) = Len(g[k]) - 1
    BY <2>6, SegmentsAre
  <2> HIDE DEF P, k, n
  <2>8. CASE r = << >>
    <3>1. Len(r) = 0
      BY <2>8
    <3>2. n = k
      BY <2>0, <3>1
    <3> QED
      BY <2>5, <2>6, <2>7, <3>2, SamePrefix DEF P
  <2>9. ASSUME NEW a \in 0 .. n, GoesOn(P, g[a])
        PROVE  IsPrefix(P, g[n])
    <3>1. GoesOn(P, g[n])
      BY <2>2, <2>7, <2>9, RunGoesOn DEF n
    <3>2. Len(P) < Len(g[n]) /\ Len(P) \in Nat /\ Len(g[n]) \in Nat
          /\ \A i \in 1 .. Len(P) : g[n][i] = P[i]
      BY <2>6, <2>7, <3>1 DEF GoesOn
    <3>3. Len(P) <= Len(g[n])
      BY <3>2
    <3> QED
      BY <2>6, <2>7, <3>2, <3>3, SamePrefix
  <2>10. CASE Ends(S, p)
    <3>1. IsSlash(q[k]) /\ q[k] \in Tokens
      BY <2>0, <2>6, <2>10 DEF Ends, k, n
    <3>2. k - 1 \in 0 .. n /\ g[k - 1] \in Seq(Pieces)
      BY <2>0, <2>2, <2>6
    <3>3. g[k] = Append(g[k - 1], Blank)
      BY <2>2, <2>6, <3>1, <3>2, StepIs
    <3>4. g[k] # << >> /\ g[k][Len(g[k])] = Blank
      <4> DEFINE x == g[k - 1]
                 D == Pieces
                 b == Blank
      <4>1. x \in Seq(D) /\ b \in D /\ g[k] = Append(x, b)
        BY <3>2, <3>3 DEF Pieces
      <4> HIDE DEF x, D, b
      <4>3. /\ Append(x, b) # << >> /\ Len(Append(x, b)) = Len(x) + 1
            /\ Append(x, b)[Len(x) + 1] = b
        BY <4>1, AppendProperties
      <4>2. g[k] # << >> /\ g[k][Len(g[k])] = b
        BY <4>1, <4>3
      <4> QED
        BY <4>2 DEF b
    <3>5. Len(P) = Len(g[k]) - 1
      BY <2>7, <3>4
    <3>6. GoesOn(P, g[k])
      <4>1. Len(g[k]) \in Nat
        BY <2>6
      <4>2. Len(g[k]) > Len(P)
        BY <3>5, <4>1
      <4> QED
        BY <2>7, <4>2 DEF GoesOn
    <3> QED
      BY <2>5, <2>6, <2>9, <3>6 DEF P
  <2>11. CASE r # << >> /\ Starts(S, r)
    <3>1. Len(r) # 0 /\ IsSlash(r[1])
      BY <1>1, <2>11, EmptyIs DEF Starts
    <3>2. k + 1 \in 1 .. n /\ k + 1 - 1 = k /\ k + 1 \in 0 .. n /\ q[k + 1] = r[1]
      BY <2>0, <3>1
    <3>3. q[k + 1] \in Tokens /\ IsSlash(q[k + 1])
      BY <3>1, <3>2 DEF n
    <3>4. g[k + 1] = Append(g[k], Blank)
      <4>1. g[k + 1] = TemplateStep(g[k], q[k + 1])
        <5> DEFINE m == k + 1
        <5>1. m \in 1 .. n /\ m - 1 = k
          BY <2>0, <3>2
        <5> HIDE DEF m
        <5>2. g[m] = TemplateStep(g[m - 1], q[m])
          BY <2>2, <5>1
        <5>3. g[m] = TemplateStep(g[k], q[m])
          BY <5>1, <5>2
        <5> QED
          BY <5>3 DEF m
      <4>2. TemplateStep(g[k], q[k + 1]) = Append(g[k], Blank)
        BY <2>6, <3>3, StepIs
      <4> QED
        BY <4>1, <4>2
    <3>5. GoesOn(P, g[k + 1])
      <4> DEFINE x == g[k]
                 D == Pieces
                 b == Blank
      <4>1. x \in Seq(D) /\ b \in D /\ g[k + 1] = Append(x, b)
        BY <2>6, <3>4 DEF Pieces
      <4>2. P \in Seq(D) /\ Len(P) <= Len(x) /\ \A i \in 1 .. Len(P) : x[i] = P[i]
        BY <2>7
      <4> HIDE DEF x, D, b
      <4>3. Len(g[k + 1]) = Len(x) + 1 /\ \A i \in 1 .. Len(x) : g[k + 1][i] = x[i]
        BY <4>1
      <4>4. Len(x) \in Nat /\ Len(P) \in Nat
        BY <4>1, <4>2
      <4>5. Len(g[k + 1]) > Len(P) /\ \A i \in 1 .. Len(P) : g[k + 1][i] = P[i]
        BY <4>2, <4>3, <4>4
      <4> QED
        BY <4>5 DEF GoesOn
    <3> QED
      BY <2>5, <2>9, <3>2, <3>5 DEF P
  <2> QED
    BY <1>1, <2>0, <2>8, <2>10, <2>11
<1> QED
  BY <1>2, <1>3

(* Both patterns of a Mount are texts.                                     *)
LEMMA MountTexts ==
  ASSUME NEW S, "/" \in S, MountParam \in S, NEW prefix \in Seq(S)
  PROVE  /\ MountPatterns(prefix).self \in Seq(S)
         /\ MountPatterns(prefix).sub \in Seq(S)
<1> DEFINE trimmed == TrimSlashes(prefix)
           slash == <<"/">>
           behind == <<"/", MountParam>>
           rooted == IF trimmed = << >> \/ StartsInSlash(trimmed) THEN trimmed
                     ELSE slash \o trimmed
           named == {i \in DOMAIN prefix : prefix[i] # "/"}
<1>1. slash \in Seq(S) /\ behind \in Seq(S) /\ << >> \in Seq(S)
  <2>1. \A D : \A x, y \in D : <<x>> \in Seq(D) /\ <<x, y>> \in Seq(D)
    OBVIOUS
  <2>3. slash \in Seq(S) /\ behind \in Seq(S)
    BY <2>1, Zenon
  <2> QED
    BY <2>3
<1>2. trimmed \in Seq(S)
  <2>1. CASE named = {}
    BY <1>1, <2>1 DEF TrimSlashes
  <2>2. CASE named # {}
    <3> DEFINE n == Len(prefix)
               m == Max(named)
    <3>1. n \in Nat /\ named \in SUBSET (1 .. n) /\ \A i \in 1 .. n : prefix[i] \in S
      OBVIOUS
    <3> HIDE DEF named, n
    <3>2. m \in named
      BY <2>2, <3>1, MaxIsMember
    <3> HIDE DEF m
    <3>3. m \in 1 .. n /\ 1 \in Int /\ m \in Int /\ \A i \in 1 .. m : prefix[i] \in S
      BY <3>1, <3>2
    <3>4. SubSeq(prefix, 1, m) \in Seq(S)
      BY <3>3, SubSeqProperties
    <3> QED
      BY <2>2, <3>4 DEF TrimSlashes, m, named
  <2> QED
    BY <2>1, <2>2
<1>3. /\ MountPatterns(prefix).self = IF rooted = << >> THEN slash ELSE rooted
      /\ MountPatterns(prefix).sub = rooted \o behind
  BY DEF MountPatterns
<1> HIDE DEF trimmed, slash, behind
<1>4. rooted \in Seq(S)
  BY <1>1, <1>2, ConcatIs
<1> HIDE DEF rooted
<1> QED
  BY <1>1, <1>3, <1>4, ConcatIs

-----------------------------------------------------------------------------
(* Groups, and what they inherit *)

At(gs, g) == IF g = 0 THEN Root ELSE gs[g]

(* The groups around g that declare hosts.                                 *)
Declaring(gs, g) == {h \in Outer(gs, g) : At(gs, h).declares}
HostsAround(gs, g) == IF Declaring(gs, g) = {} THEN << >> ELSE gs[Max(Declaring(gs, g))].hosts

(* Prefixes are texts that go on from those of the groups around, and      *)
(* hosts are those of the nearest group that declares some.                *)
Inherits(gs, g) ==
    /\ At(gs, g).prefix \in Seq(Tokens)
    /\ \A h \in Outer(gs, g) : Extends(Tokens, At(gs, h).prefix, At(gs, g).prefix)
    /\ At(gs, g).hosts = HostsAround(gs, g)

(* A tree of groups that keeps its groups, but for their own middleware.   *)
Extended(gs, hs) ==
    /\ Rooted(gs) /\ Rooted(hs) /\ Len(gs) <= Len(hs)
    /\ \A g \in 1 .. Len(gs) :
         /\ hs[g].parent = gs[g].parent /\ hs[g].prefix = gs[g].prefix
         /\ hs[g].hosts = gs[g].hosts /\ hs[g].declares = gs[g].declares

(* A tree of groups that grows keeps what is around each group.            *)
LEMMA SameGroup ==
  ASSUME NEW gs, NEW hs, Extended(gs, hs), NEW g \in 0 .. Len(gs)
  PROVE  /\ At(hs, g).prefix = At(gs, g).prefix /\ At(hs, g).hosts = At(gs, g).hosts
         /\ At(hs, g).declares = At(gs, g).declares
         /\ g \in 0 .. Len(hs)
<1>1. Len(gs) \in Nat /\ Len(hs) \in Nat /\ Len(gs) <= Len(hs)
  BY DEF Extended, Rooted
<1>2. g # 0 => g \in 1 .. Len(gs)
  BY <1>1
<1> QED
  BY <1>1, <1>2 DEF Extended, At

LEMMA OuterWithin ==
  ASSUME NEW gs, Rooted(gs), NEW g \in 0 .. Len(gs)
  PROVE  Outer(gs, g) \subseteq 0 .. Len(gs)
BY DEF Outer

LEMMA DeclaringWithin ==
  ASSUME NEW gs, Rooted(gs), NEW g \in 0 .. Len(gs)
  PROVE  /\ Declaring(gs, g) \in SUBSET (1 .. Len(gs))
         /\ Declaring(gs, g) # {} => Max(Declaring(gs, g)) \in 1 .. Len(gs)
<1>1. ~At(gs, 0).declares
  BY DEF At, Root
<1>2. Declaring(gs, g) \in SUBSET (1 .. Len(gs)) /\ Len(gs) \in Nat
  BY <1>1, OuterWithin DEF Declaring, Rooted
<1>3. Declaring(gs, g) # {} => Max(Declaring(gs, g)) \in Declaring(gs, g)
  BY <1>2, MaxIsMember
<1> QED
  BY <1>2, <1>3

LEMMA SameAround ==
  ASSUME NEW gs, NEW hs, Extended(gs, hs), NEW g \in 0 .. Len(gs)
  PROVE  /\ Outer(hs, g) = Outer(gs, g) /\ Declaring(hs, g) = Declaring(gs, g)
         /\ HostsAround(hs, g) = HostsAround(gs, g)
<1>1. Outer(hs, g) = Outer(gs, g)
  BY OuterKept DEF Extended
<1>2. Outer(gs, g) \subseteq 0 .. Len(gs)
  BY OuterWithin DEF Extended
<1>3. Declaring(hs, g) = Declaring(gs, g)
  BY <1>1, <1>2, SameGroup DEF Declaring
<1>4. Declaring(gs, g) # {} => Max(Declaring(gs, g)) \in 1 .. Len(gs)
  BY DeclaringWithin DEF Extended
<1>5. HostsAround(hs, g) = HostsAround(gs, g)
  BY <1>3, <1>4 DEF HostsAround, Extended
<1> QED
  BY <1>1, <1>3, <1>5

LEMMA StillInherits ==
  ASSUME NEW gs, NEW hs, Extended(gs, hs), NEW g \in 0 .. Len(gs), Inherits(gs, g)
  PROVE  Inherits(hs, g)
<1>1. Outer(gs, g) \subseteq 0 .. Len(gs)
  BY OuterWithin DEF Extended
<1>2. \A h \in Outer(hs, g) : Extends(Tokens, At(hs, h).prefix, At(hs, g).prefix)
  BY <1>1, SameAround, SameGroup DEF Inherits
<1>3. At(hs, g).hosts = HostsAround(hs, g) /\ At(hs, g).prefix \in Seq(Tokens)
  BY SameAround, SameGroup DEF Inherits
<1> QED
  BY <1>2, <1>3 DEF Inherits

(* A new group inherits the hosts, or declares some of its own.            *)
LEMMA NewInherits ==
  ASSUME NEW gs, NEW hs, Extended(gs, hs), NEW p \in 0 .. Len(gs),
         \A g \in 0 .. Len(gs) : Inherits(gs, g),
         Len(hs) = Len(gs) + 1, hs[Len(hs)].parent = p,
         hs[Len(hs)].prefix \in Seq(Tokens),
         Extends(Tokens, At(gs, p).prefix, hs[Len(hs)].prefix),
         \/ ~hs[Len(hs)].declares /\ hs[Len(hs)].hosts = At(gs, p).hosts
         \/ hs[Len(hs)].declares
  PROVE  Inherits(hs, Len(hs))
<1> DEFINE n == Len(hs)
<1>0. Rooted(gs) /\ Rooted(hs) /\ n \in 1 .. n /\ n \in Nat /\ n # 0 /\ p \in 0 .. n
      /\ Len(gs) \in Nat /\ p < n /\ n = Len(gs) + 1
  BY DEF Extended, Rooted
<1>1. At(hs, n) = hs[n]
  BY <1>0 DEF At
<1>2. Outer(hs, n) = Outer(gs, p) \cup {n}
  BY <1>0, OuterOfGroup, SameAround
<1>3. Outer(gs, p) \subseteq 0 .. Len(gs)
  BY <1>0, OuterWithin
<1>4. ASSUME NEW h \in Outer(hs, n)
      PROVE  Extends(Tokens, At(hs, h).prefix, At(hs, n).prefix)
  <2>1. CASE h = n
    BY <1>1, <2>1, ExtendsItself
  <2>2. CASE h # n
    <3>1. h \in Outer(gs, p) /\ h \in 0 .. Len(gs)
      BY <1>2, <1>3, <2>2
    <3>2. At(hs, h).prefix = At(gs, h).prefix /\ At(hs, n).prefix = hs[n].prefix
      BY <1>1, <3>1, SameGroup
    <3>3. /\ Extends(Tokens, At(gs, h).prefix, At(gs, p).prefix)
          /\ At(gs, p).prefix \in Seq(Tokens) /\ At(gs, h).prefix \in Seq(Tokens)
      BY <3>1 DEF Inherits
    <3>4. Extends(Tokens, At(gs, h).prefix, hs[n].prefix)
      BY <3>3, ExtendsAgain
    <3> QED
      BY <3>2, <3>4
  <2> QED
    BY <2>1, <2>2
<1>5. At(hs, n).hosts = HostsAround(hs, n)
  <2>1. CASE ~hs[n].declares /\ hs[n].hosts = At(gs, p).hosts
    <3>1. Declaring(hs, n) = Declaring(hs, p)
      BY <1>1, <1>2, <2>1, SameAround DEF Declaring
    <3>2. HostsAround(hs, n) = HostsAround(gs, p)
      BY <3>1, SameAround DEF HostsAround
    <3> QED
      BY <1>1, <2>1, <3>2 DEF Inherits
  <2>2. CASE hs[n].declares
    <3> DEFINE D == Declaring(hs, n)
    <3>1. n \in D /\ D \in SUBSET Int /\ \A x \in D : n >= x
      BY <1>0, <1>1, <1>2, <1>3, <2>2 DEF Declaring
    <3> HIDE DEF D
    <3>2. Max(D) = n
      BY <3>1, MaxIs
    <3> QED
      BY <1>1, <3>1, <3>2 DEF HostsAround, D
  <2> QED
    BY <2>1, <2>2
<1> QED
  BY <1>1, <1>4, <1>5 DEF Inherits

-----------------------------------------------------------------------------
(* Routes, and the groups they are registered in *)

(* The route r is recorded with u: its text goes on from the prefix of its *)
(* group, and its hosts are its group's, unless it was given some.         *)
InPlace(gs, r, u) ==
    /\ \E q \in Seq(Tokens) : r.segs = TemplateOf(q) /\ Extends(Tokens, At(gs, u.group).prefix, q)
    /\ u.withHost \/ r.hosts = At(gs, u.group).hosts

PlaceInv ==
    /\ \A g \in 0 .. Len(groups) : Inherits(groups, g)
    /\ \A i \in DOMAIN under : InPlace(groups, routes[i], under[i])
    /\ mounting # << >> => mounting[1].sub \in Seq(Tokens)

RoutesInv == GInv /\ PlaceInv

LEMMA GroupsAreRooted ==
  GInv => Rooted(groups) /\ Groups = 0 .. Len(groups) /\ DOMAIN groups = 1 .. Len(groups)
<1> SUFFICES ASSUME GInv PROVE Rooted(groups) /\ Groups = 0 .. Len(groups)
                               /\ DOMAIN groups = 1 .. Len(groups)
  OBVIOUS
<1>1. PICK P, H : groups \in Seq(GroupShape(P, H))
  BY DEF GInv, ShapeInv
<1>2. Len(groups) \in Nat /\ DOMAIN groups = 1 .. Len(groups)
  BY <1>1
<1> QED
  BY <1>2 DEF Rooted, GInv, TypeOK, Groups

LEMMA StillRooted ==
  ASSUME GInv'
  PROVE  Rooted(groups')
<1>1. PICK P, H : groups' \in Seq(GroupShape(P, H))
  BY DEF GInv, ShapeInv
<1>2. Len(groups') \in Nat /\ DOMAIN groups' = 1 .. Len(groups')
  BY <1>1
<1> QED
  BY <1>2 DEF Rooted, GInv, TypeOK

(* Routes keep their place while the tree grows.                           *)
LEMMA StillFollows ==
  ASSUME NEW gs, NEW hs, Extended(gs, hs), NEW r, NEW u, u.group \in 0 .. Len(gs),
         InPlace(gs, r, u)
  PROVE  InPlace(hs, r, u)
BY SameGroup DEF InPlace

LEMMA InitPlaceInv == Init => PlaceInv
<1> SUFFICES ASSUME Init PROVE PlaceInv
  OBVIOUS
<1>1. groups = << >> /\ under = << >> /\ mounting = << >>
  BY DEF Init
<1>2. Len(groups) = 0 /\ Rooted(groups) /\ DOMAIN under = {}
  BY <1>1 DEF Rooted
<1>3. Outer(groups, 0) = {0}
  BY <1>2, OuterOfRoot
<1>4. At(groups, 0).prefix = << >> /\ At(groups, 0).hosts = << >> /\ ~At(groups, 0).declares
  BY DEF At, Root
<1>5. Declaring(groups, 0) = {}
  BY <1>3, <1>4 DEF Declaring
<1>6. << >> \in Seq(Tokens)
  OBVIOUS
<1>7. Inherits(groups, 0)
  BY <1>3, <1>4, <1>5, <1>6, ExtendsItself DEF Inherits, HostsAround
<1> QED
  BY <1>1, <1>2, <1>7 DEF PlaceInv

(* The groups change and the routes do not.                                *)
LEMMA GroupsGrow ==
  ASSUME RoutesInv, GInv', Extended(groups, groups'),
         UNCHANGED <<routes, under, mounting>>,
         \A g \in 0 .. Len(groups') : g \in 0 .. Len(groups) \/ Inherits(groups', g)
  PROVE  PlaceInv'
<1>1. ASSUME NEW g \in 0 .. Len(groups')
      PROVE  Inherits(groups', g)
  BY StillInherits DEF RoutesInv, PlaceInv
<1>2. ASSUME NEW i \in DOMAIN under
      PROVE  InPlace(groups', routes[i], under[i])
  <2>1. under[i].group \in 0 .. Len(groups)
    BY GroupsAreRooted DEF RoutesInv, GInv, TypeOK
  <2> QED
    BY <2>1, StillFollows DEF RoutesInv, PlaceInv
<1> QED
  BY <1>1, <1>2 DEF RoutesInv, PlaceInv

(* Each action keeps PlaceInv.                                             *)
LEMMA GroupAppended ==
  ASSUME RoutesInv, GInv', NEW p \in Groups, NEW node, groups' = Append(groups, node),
         UNCHANGED <<routes, under, mounting>>,
         node.parent = p, node.prefix \in Seq(Tokens),
         Extends(Tokens, GroupAt(p).prefix, node.prefix),
         \/ ~node.declares /\ node.hosts = GroupAt(p).hosts
         \/ node.declares
  PROVE  PlaceInv'
<1> DEFINE n == Len(groups) + 1
<1>1. PICK P, H : groups \in Seq(GroupShape(P, H))
  BY DEF RoutesInv, GInv, ShapeInv
<1>2. Len(groups') = n /\ (\A g \in 1 .. Len(groups) : groups'[g] = groups[g])
      /\ groups'[n] = node /\ Len(groups) \in Nat
  BY <1>1, AppendIs
<1>3. Rooted(groups) /\ Rooted(groups') /\ p \in 0 .. Len(groups)
  <2>1. Rooted(groups')
    BY StillRooted
  <2> QED
    BY <2>1, GroupsAreRooted DEF RoutesInv
<1>4. Extended(groups, groups')
  BY <1>2, <1>3 DEF Extended
<1>5. Inherits(groups', n)
  <2>1. At(groups, p).prefix = GroupAt(p).prefix /\ At(groups, p).hosts = GroupAt(p).hosts
    BY DEF At, GroupAt
  <2>2. \A g \in 0 .. Len(groups) : Inherits(groups, g)
    BY DEF RoutesInv, PlaceInv
  <2>3. /\ Len(groups') = Len(groups) + 1 /\ groups'[Len(groups')] = node
        /\ Len(groups') = n
    BY <1>2
  <2>4. Extends(Tokens, At(groups, p).prefix, node.prefix)
    BY <2>1
  <2>5. \/ ~node.declares /\ node.hosts = At(groups, p).hosts
        \/ node.declares
    BY <2>1
  <2>6. Inherits(groups', Len(groups'))
    BY <1>3, <1>4, <2>2, <2>3, <2>4, <2>5, NewInherits
  <2> QED
    BY <2>3, <2>6
<1>6. \A g \in 0 .. Len(groups') : g \in 0 .. Len(groups) \/ Inherits(groups', g)
  BY <1>2, <1>5
<1> QED
  BY <1>4, <1>6, GroupsGrow

LEMMA NewGroupPlaces ==
  ASSUME RoutesInv, NEW p \in Groups, NEW prefix \in GroupPaths,
         NEW own \in {<< >>, <<NextMw>>}, NewGroup(p, prefix, own)
  PROVE  RoutesInv'
<1> DEFINE node == [parent |-> p, prefix |-> JoinPrefix(GroupAt(p).prefix, prefix),
                    hosts |-> GroupAt(p).hosts, own |-> own, declares |-> FALSE]
<1>1. GInv'
  BY NewGroupTypes DEF RoutesInv
<1>2. groups' = Append(groups, node) /\ UNCHANGED <<routes, under, mounting>>
  BY DEF NewGroup, tableVars
<1>3. GroupAt(p).prefix \in Seq(Tokens)
  BY GroupsAreRooted DEF RoutesInv, PlaceInv, Inherits, At, GroupAt
<1>4. /\ node.parent = p /\ ~node.declares /\ node.hosts = GroupAt(p).hosts
      /\ node.prefix = JoinPrefix(GroupAt(p).prefix, prefix)
  OBVIOUS
<1>5. prefix \in Seq(Tokens) /\ "/" \in Tokens
  BY GivenTexts
<1>6. node.prefix \in Seq(Tokens) /\ Extends(Tokens, GroupAt(p).prefix, node.prefix)
  <2> HIDE DEF node
  <2> QED
    BY <1>3, <1>4, <1>5, JoinExtends
<1> HIDE DEF node
<1>7. PlaceInv'
  BY <1>1, <1>2, <1>4, <1>6, GroupAppended
<1> QED
  BY <1>1, <1>7 DEF RoutesInv

LEMMA HostPlaces ==
  ASSUME RoutesInv, NEW p \in Groups, NEW hosts, Host(p, hosts)
  PROVE  RoutesInv'
<1> DEFINE node == [parent |-> p, prefix |-> GroupAt(p).prefix, hosts |-> hosts,
                    own |-> << >>, declares |-> TRUE]
<1>1. GInv'
  BY HostTypes DEF RoutesInv
<1>2. groups' = Append(groups, node) /\ UNCHANGED <<routes, under, mounting>>
  BY DEF Host, tableVars
<1>3. GroupAt(p).prefix \in Seq(Tokens)
  BY GroupsAreRooted DEF RoutesInv, PlaceInv, Inherits, At, GroupAt
<1>4. node.parent = p /\ node.declares /\ node.prefix = GroupAt(p).prefix
  OBVIOUS
<1> HIDE DEF node
<1>5. node.prefix \in Seq(Tokens) /\ Extends(Tokens, GroupAt(p).prefix, node.prefix)
  BY <1>3, <1>4, ExtendsItself
<1>6. PlaceInv'
  BY <1>1, <1>2, <1>4, <1>5, GroupAppended
<1> QED
  BY <1>1, <1>6 DEF RoutesInv

LEMMA GroupUsePlaces ==
  ASSUME RoutesInv, NEW g \in Groups \ {0}, GroupUse(g)
  PROVE  RoutesInv'
<1>1. GInv' /\ g \in DOMAIN groups
  BY GroupUseTypes DEF RoutesInv
<1>2. groups' = [groups EXCEPT ![g].own = Append(@, NextMw)]
      /\ UNCHANGED <<routes, under, mounting>>
  BY DEF GroupUse, tableVars
<1>3. PICK P, H : groups \in Seq(GroupShape(P, H))
  BY DEF RoutesInv, GInv, ShapeInv
<1>4. /\ Len(groups') = Len(groups)
      /\ \A h \in 1 .. Len(groups) :
           /\ groups'[h].parent = groups[h].parent /\ groups'[h].prefix = groups[h].prefix
           /\ groups'[h].hosts = groups[h].hosts /\ groups'[h].declares = groups[h].declares
  <2> DEFINE x == [groups[g] EXCEPT !.own = Append(@, NextMw)]
  <2>1. /\ x.parent = groups[g].parent /\ x.prefix = groups[g].prefix
        /\ x.hosts = groups[g].hosts /\ x.declares = groups[g].declares
    BY <1>1, <1>3 DEF GroupShape
  <2>2. groups' = [groups EXCEPT ![g] = x]
    BY <1>2
  <2> HIDE DEF x
  <2>3. Len(groups') = Len(groups)
        /\ \A h \in 1 .. Len(groups) : groups'[h] = IF h = g THEN x ELSE groups[h]
    BY <1>3, <2>2
  <2> QED
    BY <2>1, <2>3
<1>5. Rooted(groups) /\ Rooted(groups')
  <2>1. Rooted(groups')
    BY <1>1, StillRooted
  <2> QED
    BY <2>1, GroupsAreRooted DEF RoutesInv
<1>6. Extended(groups, groups')
  BY <1>4, <1>5 DEF Extended, Rooted
<1>7. PlaceInv'
  BY <1>1, <1>2, <1>4, <1>6, GroupsGrow
<1> QED
  BY <1>1, <1>7 DEF RoutesInv

(* A route of a registration follows its group.                            *)
LEMMA RegisteredPlaces ==
  ASSUME RoutesInv, NEW g \in Groups, NEW method, NEW text \in Seq(Tokens), NEW opts, NEW own,
         Registered(g, method, text, opts, own), groups' = groups,
         mounting' # << >> => mounting'[1].sub \in Seq(Tokens)
  PROVE  PlaceInv'
<1> DEFINE q == JoinPrefix(GroupAt(g).prefix, text)
           call == [method |-> method, segs |-> TemplateOf(q),
                    hosts |-> IF opts.hosts = <<Inherited>> THEN GroupAt(g).hosts ELSE opts.hosts,
                    priority |-> opts.priority, name |-> NoName]
           w == opts.hosts # <<Inherited>>
           leaf == [group |-> g, own |-> own, withHost |-> w]
           n == Len(routes) + 1
<1>1. /\ Handle(call)
      /\ under' = IF Accepted THEN Append(under, leaf) ELSE under
  BY DEF Registered, Declared
<1>2. /\ call.segs = TemplateOf(q)
      /\ opts.hosts = <<Inherited>> => call.hosts = GroupAt(g).hosts
      /\ leaf.group = g /\ leaf.withHost = w
  OBVIOUS
<1>3. q \in Seq(Tokens) /\ Extends(Tokens, At(groups, g).prefix, q)
  <2>1. GroupAt(g).prefix \in Seq(Tokens) /\ GroupAt(g).prefix = At(groups, g).prefix
    BY GroupsAreRooted DEF RoutesInv, PlaceInv, Inherits, At, GroupAt
  <2> QED
    BY <2>1, JoinExtends, GivenTexts
<1>4. InPlace(groups, call, leaf)
  <2>1. GroupAt(g).hosts = At(groups, g).hosts
    BY DEF At, GroupAt
  <2>2. CASE opts.hosts = <<Inherited>>
    <3>1. call.hosts = At(groups, g).hosts
      BY <1>2, <2>1, <2>2
    <3> HIDE DEF call, leaf
    <3> QED
      BY <1>2, <1>3, <3>1 DEF InPlace
  <2>3. CASE opts.hosts # <<Inherited>>
    <3>1. leaf.withHost
      BY <1>2, <2>3
    <3> HIDE DEF call, leaf
    <3> QED
      BY <1>2, <1>3, <3>1 DEF InPlace
  <2> QED
    BY <2>2, <2>3
<1> HIDE DEF call, leaf
<1>5. PICK C : routes \in Seq(C)
  BY DEF RoutesInv, GInv, ShapeInv
<1>6. under \in Seq(Leaf) /\ DOMAIN under = DOMAIN routes
  BY DEF RoutesInv, GInv, ShapeInv, TypeOK
<1>7. \A i \in DOMAIN under' : InPlace(groups, routes'[i], under'[i])
  <2>1. CASE routes' = routes
    BY <1>1, <2>1 DEF Accepted, RoutesInv, PlaceInv
  <2>2. CASE routes' = Append(routes, call)
    <3>1. Len(under) = Len(routes) /\ n \in Nat
      BY <1>5, <1>6
    <3>2. /\ routes' # routes /\ routes'[n] = call
          /\ \A i \in 1 .. Len(routes) : routes'[i] = routes[i]
      BY <1>5, <2>2, AppendIs
    <3>3. under' = Append(under, leaf)
      BY <1>1, <3>2 DEF Accepted
    <3>4. /\ under'[n] = leaf /\ DOMAIN under' = 1 .. n
          /\ \A i \in 1 .. Len(routes) : under'[i] = under[i]
      BY <1>6, <3>1, <3>3, AppendIs
    <3>5. ASSUME NEW i \in 1 .. n
          PROVE  InPlace(groups, routes'[i], under'[i])
      <4>1. CASE i = n
        BY <1>4, <3>2, <3>4, <4>1
      <4>2. CASE i # n
        <5>1. i \in 1 .. Len(routes) /\ i \in DOMAIN under
          BY <1>6, <3>1, <4>2
        <5>2. InPlace(groups, routes[i], under[i])
          BY <5>1 DEF RoutesInv, PlaceInv
        <5> QED
          BY <3>2, <3>4, <5>1, <5>2
      <4> QED
        BY <4>1, <4>2
    <3> QED
      BY <3>4, <3>5
  <2> QED
    BY <1>1, <2>1, <2>2, HandleOutcome
<1> QED
  BY <1>7 DEF RoutesInv, PlaceInv

LEMMA SamePlaces ==
  ASSUME RoutesInv, UNCHANGED <<groups, routes, under, mounting>>
  PROVE  PlaceInv'
BY DEF RoutesInv, PlaceInv

(* RoutesInv is inductive.                                                 *)
LEMMA NextRoutesInv ==
  ASSUME RoutesInv, [Next]_vars
  PROVE  RoutesInv'
<1>0. GInv'
  BY NextGInv DEF RoutesInv
<1>1. ASSUME NEW p \in Groups, NEW prefix \in GroupPaths, NEW own \in {<< >>, <<NextMw>>},
             NewGroup(p, prefix, own)
      PROVE  RoutesInv'
  BY <1>1, NewGroupPlaces
<1>2. ASSUME NEW p \in Groups, NEW hosts \in HostLists, Host(p, hosts)
      PROVE  RoutesInv'
  BY <1>2, HostPlaces
<1>3. ASSUME NEW g \in Groups \ {0}, GroupUse(g)
      PROVE  RoutesInv'
  BY <1>3, GroupUsePlaces
<1>4. ASSUME NEW g \in Groups, NEW m \in Methods, NEW text \in Patterns,
             NEW opts \in Options, NEW own \in {<< >>, <<NextMw>>},
             HandleIn(g, m, text, opts, own)
      PROVE  RoutesInv'
  <2>1. Registered(g, m, text, opts, own) /\ UNCHANGED <<groups, mounting>>
    BY <1>4 DEF HandleIn
  <2>2. text \in Seq(Tokens)
    BY GivenTexts
  <2>3. mounting' # << >> => mounting'[1].sub \in Seq(Tokens)
    BY <2>1 DEF RoutesInv, PlaceInv
  <2>4. PlaceInv'
    BY <2>1, <2>2, <2>3, RegisteredPlaces
  <2> QED
    BY <1>0, <2>4 DEF RoutesInv
<1>5. ASSUME NEW g \in Groups, NEW prefix \in MountPoints, NEW opts \in Options,
             MountSelf(g, prefix, opts)
      PROVE  RoutesInv'
  <2> DEFINE both == MountPatterns(prefix)
  <2>1. /\ Registered(g, MethodAny, both.self, opts, << >>) /\ groups' = groups
        /\ mounting' = IF Accepted THEN <<[group |-> g, sub |-> both.sub, opts |-> opts]>>
                       ELSE << >>
    BY <1>5 DEF MountSelf
  <2>2. both.self \in Seq(Tokens) /\ both.sub \in Seq(Tokens)
    BY GivenTexts, MountTexts
  <2> HIDE DEF both
  <2>3. mounting' # << >> => mounting'[1].sub \in Seq(Tokens)
    <3>1. CASE Accepted
      <4>1. mounting'[1] = [group |-> g, sub |-> both.sub, opts |-> opts]
        BY <2>1, <3>1
      <4> QED
        BY <2>2, <4>1
    <3> QED
      BY <2>1, <3>1
  <2>4. PlaceInv'
    BY <2>1, <2>2, <2>3, RegisteredPlaces
  <2> QED
    BY <1>0, <2>4 DEF RoutesInv
<1>6. ASSUME MountSub
      PROVE  RoutesInv'
  <2> DEFINE m == mounting[1]
  <2>1. /\ Registered(m.group, MethodAny, m.sub, m.opts, << >>) /\ groups' = groups
        /\ mounting' = << >> /\ mounting # << >>
    BY <1>6 DEF MountSub
  <2>2. m.group \in Groups /\ m.sub \in Seq(Tokens)
    BY <2>1 DEF RoutesInv, PlaceInv, GInv, MountInv
  <2> HIDE DEF m
  <2>3. PlaceInv'
    BY <2>1, <2>2, RegisteredPlaces
  <2> QED
    BY <1>0, <2>3 DEF RoutesInv
<1>7. ASSUME RouterUse \/ BuilderUse
      PROVE  RoutesInv'
  <2>1. UNCHANGED <<groups, routes, under, mounting>>
    BY <1>7 DEF RouterUse, BuilderUse, tableVars
  <2> QED
    BY <1>0, <2>1, SamePlaces DEF RoutesInv
<1>8. ASSUME Install \/ Recompile
      PROVE  RoutesInv'
  <2>1. UNCHANGED <<groups, routes, under, mounting>>
    BY <1>8 DEF Install, Recompile, groupVars, tableVars
  <2> QED
    BY <1>0, <2>1, SamePlaces DEF RoutesInv
<1>9. CASE UNCHANGED vars
  <2>1. UNCHANGED <<groups, routes, under, mounting>>
    BY <1>9 DEF vars, groupVars, tableVars
  <2> QED
    BY <1>0, <2>1, SamePlaces DEF RoutesInv
<1> QED
  BY <1>1, <1>2, <1>3, <1>4, <1>5, <1>6, <1>7, <1>8, <1>9 DEF Next

(* Every text of a group goes on from the texts of the groups around it,   *)
(* and every text of a route from that of its group; hosts come from the   *)
(* nearest group that declares some.                                       *)
THEOREM PlacesInvariance == GroupSpec => []RoutesInv
<1>1. Init => RoutesInv
  BY InitGInv, InitPlaceInv DEF RoutesInv
<1>2. RoutesInv /\ [Next]_vars => RoutesInv'
  BY NextRoutesInv
<1> QED
  BY <1>1, <1>2, PTL DEF GroupSpec

(* What PlaceInv says of a route, as RoutesStayInTheirGroups says it.      *)
LEMMA PlacedInGroups ==
  ASSUME RoutesInv, NEW i \in DOMAIN routes
  PROVE  /\ \A g \in Around(i) :
              IsPrefix(SegmentsOf(TemplateOf(GroupAt(g).prefix)), routes[i].segs)
         /\ under[i].withHost \/
              routes[i].hosts = IF Nearest(i) = {} THEN << >>
                                ELSE groups[Max(Nearest(i))].hosts
<1> DEFINE k == under[i].group
<1>1. /\ Rooted(groups) /\ k \in 0 .. Len(groups) /\ InPlace(groups, routes[i], under[i])
      /\ \A g \in 0 .. Len(groups) : Inherits(groups, g)
  BY GroupsAreRooted DEF RoutesInv, PlaceInv, GInv, TypeOK
<1>2. Around(i) = Outer(groups, k)
  BY AroundIs
<1>3. \A g : GroupAt(g) = At(groups, g)
  BY DEF GroupAt, At
<1> HIDE DEF k
<1>4. Outer(groups, k) \subseteq 0 .. Len(groups)
  BY <1>1, OuterWithin
<1>5. ASSUME NEW g \in Around(i)
      PROVE  IsPrefix(SegmentsOf(TemplateOf(GroupAt(g).prefix)), routes[i].segs)
  <2>1. PICK q \in Seq(Tokens) : /\ routes[i].segs = TemplateOf(q)
                                 /\ Extends(Tokens, At(groups, k).prefix, q)
    BY <1>1 DEF InPlace, k
  <2>2. /\ At(groups, g).prefix \in Seq(Tokens) /\ At(groups, k).prefix \in Seq(Tokens)
        /\ Extends(Tokens, At(groups, g).prefix, At(groups, k).prefix)
    BY <1>1, <1>2, <1>4 DEF Inherits
  <2>3. Extends(Tokens, At(groups, g).prefix, q)
    BY <2>1, <2>2, ExtendsAgain
  <2>4. IsPrefix(SegmentsOf(TemplateOf(At(groups, g).prefix)), TemplateOf(q))
    BY <2>2, <2>3, TemplateBegins
  <2> QED
    BY <1>3, <2>1, <2>4
<1>6. Nearest(i) = Declaring(groups, k)
  BY <1>2, <1>3 DEF Nearest, Declaring
<1>7. under[i].withHost \/ routes[i].hosts = HostsAround(groups, k)
  BY <1>1 DEF InPlace, Inherits, k
<1> QED
  BY <1>5, <1>6, <1>7 DEF HostsAround

(* Nothing moves a route out of its group: its template begins with the    *)
(* prefix of every group around it, on a segment boundary, and its hosts   *)
(* are those declared nearest to it, however its group was nested, mounted *)
(* under or joined to it.                                                  *)
THEOREM RoutesKeepTheirGroups == GroupSpec => []RoutesStayInTheirGroups
<1>1. RoutesInv => RoutesStayInTheirGroups
  BY PlacedInGroups DEF RoutesStayInTheirGroups
<1> QED
  BY <1>1, PlacesInvariance, PTL
=============================================================================
