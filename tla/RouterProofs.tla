----------------------------- MODULE RouterProofs -----------------------------
(***************************************************************************)
(* Theorems about Router, for every set of goroutines, builders and routes *)
(* and every bound.                                                        *)
(*                                                                         *)
(* IInv is shown to be inductive: one lemma per action, each in five       *)
(* steps.  <1>1 is the types; <1>2 the mutex and the calls under way; <1>3 *)
(* who owns which builder and which table, with NoMapRace; <1>4 what       *)
(* compile has written; <1>5 what a request was promised and what it gets. *)
(*                                                                         *)
(* The frame tuples are expanded everywhere; a leaf names everything else  *)
(* it needs, starting with the parts of IInv.                              *)
(***************************************************************************)
EXTENDS Router, TLAPS

USE DEF routerVars, builderVars, procVars, requestVars

-----------------------------------------------------------------------------
(* Registration on a builder *)

(* Registration keeps the types of what it registers on.                   *)
LEMMA RefuseType ==
  ASSUME TypeOK, NEW g, Refuse(g)
  PROVE  /\ errs' \in [Builders -> BOOLEAN]
         /\ entries' \in [Builders -> SUBSET Routes]
  BY DEF TypeOK, Refuse

LEMMA RegisterType ==
  ASSUME TypeOK, NEW g, NEW r \in Routes, Register(g, r)
  PROVE  /\ errs' \in [Builders -> BOOLEAN]
         /\ entries' \in [Builders -> SUBSET Routes]
  BY DEF TypeOK, Register

(* A registration, accepted or refused, removes no route and touches only  *)
(* the builder it is made on.                                              *)
LEMMA RegistrationGrows ==
  ASSUME TypeOK, NEW g, Refuse(g) \/ \E r \in Routes : Register(g, r)
  PROVE  \A h \in Builders : /\ entries[h] \subseteq entries'[h]
                             /\ h # g => entries'[h] = entries[h]
  BY DEF TypeOK, Refuse, Register

(* compile writes a handler: what it writes is a chain.                    *)
LEMMA ChainOfIsChain ==
  ASSUME TypeOK, NEW g \in Builders
  PROVE  chainOf(g) # NoChain
<1>1. chainOf(g) \in Chain
  BY DEF TypeOK, chainOf, Chain
<1> QED
  BY <1>1, SentinelAssumption

(* Once the whole of a builder is written, all its routes have handlers.   *)
LEMMA WrittenIsCompiled ==
  ASSUME IInv, NEW p \in Procs, pc[p] = "install"
  PROVE  Compiled(work[p])
<1>1. work[p] \in Builders
  BY DEF IInv, TypeOK, WorkInv, Installing
<1>2. \A r \in entries[work[p]] : served[work[p]][r] = chainOf(work[p])
  BY DEF IInv, CompileInv, Installing
<1> QED
  BY <1>1, <1>2, ChainOfIsChain DEF IInv, Compiled

(* What GroupHandle does to the goroutine when the route is accepted.      *)
Started(p, g) ==
    /\ Start(p, GroupKind(g, "groupHandle"), g, "invalidate")
    /\ UNCHANGED todo

-----------------------------------------------------------------------------
(* Every action preserves the invariant *)

(* Each action keeps IInv.                                                 *)
LEMMA BeginStep ==
  ASSUME IInv, DocumentedUse, NEW p \in Procs, Begin(p)
  PROVE  IInv'
<1>1. TypeOK'
  BY SMTT(10) DEF IInv, Begin, TypeOK, Answer, Chain, Goto, Kinds, PCs, Table,
     View, builder
<1>2. LockInv' /\ JobInv' /\ DisciplineInv'
  BY SMTT(10) DEF DocumentedUse, IInv, Begin, TypeOK, LockInv, JobInv,
     DisciplineInv, Answer, Chain, Goto, Installing, Kinds, PCs, Table, View,
     builder
<1>3. WorkInv' /\ TableInv' /\ FreshInv' /\ NoMapRace'
  BY SMTT(10) DEF IInv, Begin, WorkInv, TableInv, FreshInv, NoMapRace, Goto,
     Installing, Kinds, builder
<1>4. ServedInv' /\ CompileInv' /\ LiveInv' /\ CoherentInv'
  BY SMTT(10) DEF DocumentedUse, IInv, Begin, ServedInv, CompileInv, LiveInv,
     CoherentInv, Compiled, Goto, Installing, Kinds, Registering, builder,
     chainOf
<1>5. ViewInv' /\ NoNilHandler' /\ AnswersOwnTable'
  BY SMTT(10) DEF IInv, Begin, ViewInv, NoNilHandler, AnswersOwnTable, Goto,
     Kinds, builder
<1> QED
  BY <1>1, <1>2, <1>3, <1>4, <1>5 DEF IInv

LEMMA LoadHitStep ==
  ASSUME IInv, DocumentedUse, NEW p \in Procs, LoadHit(p)
  PROVE  IInv'
<1>1. TypeOK'
  BY SMTT(10) DEF IInv, LoadHit, TypeOK, Answer, Chain, Config, Goto, Kinds,
     PCs, Pin, Table, View, builder, chainOf
<1>2. LockInv' /\ JobInv' /\ DisciplineInv'
  BY SMTT(10) DEF IInv, LoadHit, LockInv, JobInv, DisciplineInv, Config, Goto,
     Installing, Kinds, Pin, builder, chainOf
<1>3. WorkInv' /\ TableInv' /\ FreshInv' /\ NoMapRace'
  BY ConstantsAssumption, SentinelAssumption, SMTT(20) DEF DocumentedUse, IInv,
     LoadHit, TypeOK, LockInv, JobInv, DisciplineInv, WorkInv, TableInv,
     FreshInv, NoMapRace, ServedInv, CompileInv, LiveInv, CoherentInv, ViewInv,
     NoNilHandler, AnswersOwnTable, Answer, Chain, Compiled, Config, Goto,
     Installing, Kinds, PCs, Pin, Registering, Table, View, builder, chainOf
<1>4. ServedInv' /\ CompileInv' /\ LiveInv' /\ CoherentInv'
  BY SMTT(10) DEF IInv, LoadHit, ServedInv, CompileInv, LiveInv, CoherentInv,
     Compiled, Config, Goto, Installing, Kinds, Pin, Registering, builder,
     chainOf
<1>5. ViewInv' /\ NoNilHandler' /\ AnswersOwnTable'
  BY SMTT(20) DEF IInv, LoadHit, TypeOK, LockInv, JobInv, DisciplineInv,
     WorkInv, TableInv, FreshInv, NoMapRace, ServedInv, CompileInv, LiveInv,
     CoherentInv, ViewInv, NoNilHandler, AnswersOwnTable, Answer, Chain,
     Compiled, Config, Goto, Installing, Kinds, PCs, Pin, Registering, Table,
     View, builder, chainOf
<1> QED
  BY <1>1, <1>2, <1>3, <1>4, <1>5 DEF IInv

LEMMA LoadMissStep ==
  ASSUME IInv, DocumentedUse, NEW p \in Procs, LoadMiss(p)
  PROVE  IInv'
<1>1. TypeOK'
  BY SMTT(10) DEF IInv, LoadMiss, TypeOK, Answer, Chain, Goto, Kinds, PCs,
     Table, View, builder
<1>2. LockInv' /\ JobInv' /\ DisciplineInv'
  BY SMTT(10) DEF IInv, LoadMiss, LockInv, JobInv, DisciplineInv, Goto,
     Installing, Kinds
<1>3. WorkInv' /\ TableInv' /\ FreshInv' /\ NoMapRace'
  BY SMTT(10) DEF IInv, LoadMiss, WorkInv, TableInv, FreshInv, NoMapRace, Goto,
     Installing, builder
<1>4. ServedInv' /\ CompileInv' /\ LiveInv' /\ CoherentInv'
  BY SMTT(10) DEF IInv, LoadMiss, ServedInv, CompileInv, LiveInv, CoherentInv,
     Compiled, Goto, Installing, Kinds, Registering, builder, chainOf
<1>5. ViewInv' /\ NoNilHandler' /\ AnswersOwnTable'
  BY SMTT(10) DEF IInv, LoadMiss, ViewInv, NoNilHandler, AnswersOwnTable, Goto,
     builder
<1> QED
  BY <1>1, <1>2, <1>3, <1>4, <1>5 DEF IInv

LEMMA RecheckHitStep ==
  ASSUME IInv, DocumentedUse, NEW p \in Procs, RecheckHit(p)
  PROVE  IInv'
<1>1. TypeOK'
  BY SMTT(10) DEF IInv, RecheckHit, TypeOK, Answer, Chain, Config, Goto, Kinds,
     PCs, Pin, Table, View, builder, chainOf
<1>2. LockInv' /\ JobInv' /\ DisciplineInv'
  BY SMTT(10) DEF IInv, RecheckHit, LockInv, JobInv, DisciplineInv, Config,
     Goto, Installing, Kinds, Pin, builder, chainOf
<1>3. WorkInv' /\ TableInv' /\ FreshInv' /\ NoMapRace'
  <2>1. WorkInv'
    BY ConstantsAssumption, SentinelAssumption, SMTT(20) DEF DocumentedUse,
       IInv, RecheckHit, TypeOK, LockInv, JobInv, DisciplineInv, WorkInv,
       TableInv, FreshInv, NoMapRace, ServedInv, CompileInv, LiveInv,
       CoherentInv, ViewInv, NoNilHandler, AnswersOwnTable, Answer, Chain,
       Compiled, Config, Goto, Installing, Kinds, PCs, Pin, Registering, Table,
       View, builder, chainOf
  <2>2. TableInv'
    BY ConstantsAssumption, SentinelAssumption, SMTT(20) DEF DocumentedUse,
       IInv, RecheckHit, TypeOK, LockInv, JobInv, DisciplineInv, WorkInv,
       TableInv, FreshInv, NoMapRace, ServedInv, CompileInv, LiveInv,
       CoherentInv, ViewInv, NoNilHandler, AnswersOwnTable, Answer, Chain,
       Compiled, Config, Goto, Installing, Kinds, PCs, Pin, Registering, Table,
       View, builder, chainOf
  <2>3. FreshInv'
    BY ConstantsAssumption, SentinelAssumption, SMTT(20) DEF DocumentedUse,
       IInv, RecheckHit, TypeOK, LockInv, JobInv, DisciplineInv, WorkInv,
       TableInv, FreshInv, NoMapRace, ServedInv, CompileInv, LiveInv,
       CoherentInv, ViewInv, NoNilHandler, AnswersOwnTable, Answer, Chain,
       Compiled, Config, Goto, Installing, Kinds, PCs, Pin, Registering, Table,
       View, builder, chainOf
  <2>4. NoMapRace'
    BY ConstantsAssumption, SentinelAssumption, SMTT(20) DEF DocumentedUse,
       IInv, RecheckHit, TypeOK, LockInv, JobInv, DisciplineInv, WorkInv,
       TableInv, FreshInv, NoMapRace, ServedInv, CompileInv, LiveInv,
       CoherentInv, ViewInv, NoNilHandler, AnswersOwnTable, Answer, Chain,
       Compiled, Config, Goto, Installing, Kinds, PCs, Pin, Registering, Table,
       View, builder, chainOf
  <2> QED
    BY <2>1, <2>2, <2>3, <2>4
<1>4. ServedInv' /\ CompileInv' /\ LiveInv' /\ CoherentInv'
  BY SMTT(10) DEF IInv, RecheckHit, ServedInv, CompileInv, LiveInv,
     CoherentInv, Compiled, Config, Goto, Installing, Kinds, Pin, Registering,
     builder, chainOf
<1>5. ViewInv' /\ NoNilHandler' /\ AnswersOwnTable'
  BY SMTT(20) DEF IInv, RecheckHit, TypeOK, LockInv, JobInv, DisciplineInv,
     WorkInv, TableInv, FreshInv, NoMapRace, ServedInv, CompileInv, LiveInv,
     CoherentInv, ViewInv, NoNilHandler, AnswersOwnTable, Answer, Chain,
     Compiled, Config, Goto, Installing, Kinds, PCs, Pin, Registering, Table,
     View, builder, chainOf
<1> QED
  BY <1>1, <1>2, <1>3, <1>4, <1>5 DEF IInv

LEMMA RecheckMissStep ==
  ASSUME IInv, DocumentedUse, NEW p \in Procs, RecheckMiss(p)
  PROVE  IInv'
<1>1. TypeOK'
  BY ConstantsAssumption, SMTT(10) DEF DocumentedUse, IInv, RecheckMiss,
     TypeOK, Answer, Chain, Goto, Kinds, PCs, Table, View, builder
<1>2. LockInv' /\ JobInv' /\ DisciplineInv'
  BY ConstantsAssumption, SMTT(10) DEF DocumentedUse, IInv, RecheckMiss,
     TypeOK, LockInv, JobInv, DisciplineInv, Answer, Chain, Goto, Installing,
     Kinds, PCs, Table, View, builder
<1>3. WorkInv' /\ TableInv' /\ FreshInv' /\ NoMapRace'
  BY ConstantsAssumption, SMTT(10) DEF DocumentedUse, IInv, RecheckMiss,
     TypeOK, LockInv, JobInv, DisciplineInv, WorkInv, TableInv, FreshInv,
     NoMapRace, Answer, Chain, Goto, Installing, Kinds, PCs, Table, View,
     builder
<1>4. ServedInv' /\ CompileInv' /\ LiveInv' /\ CoherentInv'
  BY SMTT(10) DEF IInv, RecheckMiss, TypeOK, ServedInv, CompileInv, LiveInv,
     CoherentInv, Answer, Chain, Compiled, Goto, Installing, Kinds, PCs,
     Registering, Table, View, builder, chainOf
<1>5. ViewInv' /\ NoNilHandler' /\ AnswersOwnTable'
  BY SMTT(10) DEF IInv, RecheckMiss, ViewInv, NoNilHandler, AnswersOwnTable,
     Goto, builder
<1> QED
  BY <1>1, <1>2, <1>3, <1>4, <1>5 DEF IInv

LEMMA CompileRouteStep ==
  ASSUME IInv, DocumentedUse, NEW p \in Procs, CompileRoute(p)
  PROVE  IInv'
<1>1. TypeOK'
  BY SMTT(10) DEF IInv, CompileRoute, TypeOK, LockInv, JobInv, DisciplineInv,
     WorkInv, Answer, Chain, Installing, Kinds, PCs, Table, View, builder,
     chainOf
<1>2. LockInv' /\ JobInv' /\ DisciplineInv'
  BY SMTT(10) DEF IInv, CompileRoute, LockInv, JobInv, DisciplineInv,
     Installing, Kinds, builder, chainOf
<1>3. WorkInv' /\ TableInv' /\ FreshInv' /\ NoMapRace'
  BY SMTT(10) DEF IInv, CompileRoute, WorkInv, TableInv, FreshInv, NoMapRace,
     Installing, builder, chainOf
<1>4. ServedInv' /\ CompileInv' /\ LiveInv' /\ CoherentInv'
  BY SentinelAssumption, SMTT(10) DEF DocumentedUse, IInv, CompileRoute,
     TypeOK, LockInv, JobInv, DisciplineInv, WorkInv, ServedInv, CompileInv,
     LiveInv, CoherentInv, Answer, Chain, Compiled, Installing, Kinds, PCs,
     Registering, Table, View, builder, chainOf
<1>5. ViewInv' /\ NoNilHandler' /\ AnswersOwnTable'
  BY SMTT(10) DEF IInv, CompileRoute, TypeOK, LockInv, JobInv, DisciplineInv,
     WorkInv, TableInv, FreshInv, NoMapRace, ViewInv, NoNilHandler,
     AnswersOwnTable, Answer, Chain, Installing, Kinds, PCs, Table, View,
     builder, chainOf
<1> QED
  BY <1>1, <1>2, <1>3, <1>4, <1>5 DEF IInv

LEMMA CompileDoneStep ==
  ASSUME IInv, DocumentedUse, NEW p \in Procs, CompileDone(p)
  PROVE  IInv'
<1>1. TypeOK'
  BY SMTT(10) DEF IInv, CompileDone, TypeOK, LockInv, JobInv, DisciplineInv,
     WorkInv, Answer, Chain, Goto, Installing, Kinds, PCs, Table, View, builder
<1>2. LockInv' /\ JobInv' /\ DisciplineInv'
  BY SMTT(10) DEF IInv, CompileDone, LockInv, JobInv, DisciplineInv, Goto,
     Installing, Kinds, builder
<1>3. WorkInv' /\ TableInv' /\ FreshInv' /\ NoMapRace'
  BY SMTT(10) DEF IInv, CompileDone, TypeOK, WorkInv, TableInv, FreshInv,
     NoMapRace, Answer, Chain, Goto, Installing, Kinds, PCs, Table, View,
     builder
<1>4. ServedInv' /\ CompileInv' /\ LiveInv' /\ CoherentInv'
  BY SMTT(10) DEF IInv, CompileDone, ServedInv, CompileInv, LiveInv,
     CoherentInv, Compiled, Goto, Installing, Kinds, Registering, builder,
     chainOf
<1>5. ViewInv' /\ NoNilHandler' /\ AnswersOwnTable'
  BY SMTT(10) DEF IInv, CompileDone, ViewInv, NoNilHandler, AnswersOwnTable,
     Goto, builder
<1> QED
  BY <1>1, <1>2, <1>3, <1>4, <1>5 DEF IInv

LEMMA CompilePanicStep ==
  ASSUME IInv, DocumentedUse, NEW p \in Procs, CompilePanic(p)
  PROVE  IInv'
<1>1. TypeOK'
  BY SMTT(10) DEF IInv, CompilePanic, TypeOK, Answer, Chain, Goto, Kinds, PCs,
     Return, Table, View, builder
<1>2. LockInv' /\ JobInv' /\ DisciplineInv'
  BY ConstantsAssumption, SMTT(10) DEF DocumentedUse, IInv, CompilePanic,
     TypeOK, LockInv, JobInv, DisciplineInv, Answer, Chain, Goto, Installing,
     Kinds, PCs, Return, Table, View, builder
<1>3. WorkInv' /\ TableInv' /\ FreshInv' /\ NoMapRace'
  BY SMTT(10) DEF IInv, CompilePanic, TypeOK, WorkInv, TableInv, FreshInv,
     NoMapRace, Answer, Chain, Goto, Installing, Kinds, PCs, Return, Table,
     View, builder
<1>4. ServedInv' /\ CompileInv' /\ LiveInv' /\ CoherentInv'
  BY SMTT(10) DEF IInv, CompilePanic, TypeOK, LockInv, JobInv, DisciplineInv,
     WorkInv, ServedInv, CompileInv, LiveInv, CoherentInv, Answer, Chain,
     Compiled, Goto, Installing, Kinds, PCs, Registering, Return, Table, View,
     builder, chainOf
<1>5. ViewInv' /\ NoNilHandler' /\ AnswersOwnTable'
  BY SMTT(10) DEF IInv, CompilePanic, TypeOK, LockInv, JobInv, DisciplineInv,
     WorkInv, TableInv, FreshInv, NoMapRace, ViewInv, NoNilHandler,
     AnswersOwnTable, Answer, Chain, Goto, Installing, Kinds, PCs, Return,
     Table, View, builder
<1> QED
  BY <1>1, <1>2, <1>3, <1>4, <1>5 DEF IInv

LEMMA InstallServeStep ==
  ASSUME IInv, DocumentedUse, NEW p \in Procs, InstallServe(p)
  PROVE  IInv'
<1>1. TypeOK'
  BY SMTT(10) DEF IInv, InstallServe, TypeOK, LockInv, JobInv, DisciplineInv,
     WorkInv, TableInv, FreshInv, NoMapRace, Answer, Chain, Goto, Installing,
     Kinds, PCs, Table, View, builder
<1>2. LockInv' /\ JobInv' /\ DisciplineInv'
  BY ConstantsAssumption, SMTT(10) DEF DocumentedUse, IInv, InstallServe,
     TypeOK, LockInv, JobInv, DisciplineInv, Answer, Chain, Goto, Installing,
     Kinds, PCs, Table, View, builder
<1>3. WorkInv' /\ TableInv' /\ FreshInv' /\ NoMapRace'
  BY SentinelAssumption, SMTT(10) DEF DocumentedUse, IInv, InstallServe,
     TypeOK, WorkInv, TableInv, FreshInv, NoMapRace, Answer, Chain, Goto,
     Installing, Kinds, PCs, Table, View, builder
<1>4. ServedInv' /\ CompileInv' /\ LiveInv' /\ CoherentInv'
  BY SentinelAssumption, SMTT(10) DEF DocumentedUse, IInv, InstallServe,
     TypeOK, LockInv, JobInv, DisciplineInv, WorkInv, TableInv, FreshInv,
     NoMapRace, ServedInv, CompileInv, LiveInv, CoherentInv, Answer, Chain,
     Compiled, Goto, Installing, Kinds, PCs, Registering, Table, View, builder,
     chainOf
<1>5. ViewInv' /\ NoNilHandler' /\ AnswersOwnTable'
  <2>1. ViewInv'
    BY ConstantsAssumption, SentinelAssumption, SMTT(20) DEF DocumentedUse,
       IInv, InstallServe, TypeOK, LockInv, JobInv, DisciplineInv, WorkInv,
       TableInv, FreshInv, NoMapRace, ServedInv, CompileInv, LiveInv,
       CoherentInv, ViewInv, NoNilHandler, AnswersOwnTable, Answer, Chain,
       Compiled, Goto, Installing, Kinds, PCs, Registering, Table, View,
       builder, chainOf
  <2>2. NoNilHandler'
    <3>0. pc[p] = "install"
      BY DEF InstallServe
    <3>1. tab[p].of = work[p] /\ Compiled(work[p])
      <4>1. tab[p] = [of |-> work[p], router |-> rmw, builder |-> bmw[work[p]]]
        BY <3>0, Zenon DEF IInv, TableInv
      <4>2. Compiled(work[p])
        BY <3>0, WrittenIsCompiled
      <4> QED
        BY <4>1, <4>2
    <3>2. \A q \in Procs : pc'[q] = "find" => q = p \/ pc[q] = "find"
      BY DEF IInv, TypeOK, InstallServe, Goto
    <3>3. UNCHANGED <<tab, entries, served>>
      BY DEF InstallServe
    <3> QED
      BY <3>1, <3>2, <3>3 DEF IInv, NoNilHandler, Compiled
  <2>3. AnswersOwnTable'
    BY ConstantsAssumption, SentinelAssumption, SMTT(20) DEF DocumentedUse,
       IInv, InstallServe, TypeOK, LockInv, JobInv, DisciplineInv, WorkInv,
       TableInv, FreshInv, NoMapRace, ServedInv, CompileInv, LiveInv,
       CoherentInv, ViewInv, NoNilHandler, AnswersOwnTable, Answer, Chain,
       Compiled, Goto, Installing, Kinds, PCs, Registering, Table, View,
       builder, chainOf
  <2> QED
    BY <2>1, <2>2, <2>3
<1> QED
  BY <1>1, <1>2, <1>3, <1>4, <1>5 DEF IInv

LEMMA FindStep ==
  ASSUME IInv, DocumentedUse, NEW p \in Procs, Find(p)
  PROVE  IInv'
<1>1. TypeOK'
  BY SMTT(10) DEF IInv, Find, TypeOK, LockInv, JobInv, DisciplineInv, WorkInv,
     TableInv, FreshInv, NoMapRace, Answer, Chain, Goto, Installing, Kinds,
     PCs, Table, View, builder
<1>2. LockInv' /\ JobInv' /\ DisciplineInv'
  BY SMTT(10) DEF IInv, Find, LockInv, JobInv, DisciplineInv, Goto, Installing,
     Kinds, builder
<1>3. WorkInv' /\ TableInv' /\ FreshInv' /\ NoMapRace'
  BY SMTT(10) DEF IInv, Find, WorkInv, TableInv, FreshInv, NoMapRace, Goto,
     Installing, builder
<1>4. ServedInv' /\ CompileInv' /\ LiveInv' /\ CoherentInv'
  BY SMTT(10) DEF IInv, Find, ServedInv, CompileInv, LiveInv, CoherentInv,
     Compiled, Goto, Installing, Kinds, Registering, builder, chainOf
<1>5. ViewInv' /\ NoNilHandler' /\ AnswersOwnTable'
  BY SMTT(20) DEF IInv, Find, TypeOK, LockInv, JobInv, DisciplineInv, WorkInv,
     TableInv, FreshInv, NoMapRace, ServedInv, CompileInv, LiveInv,
     CoherentInv, ViewInv, NoNilHandler, AnswersOwnTable, Answer, Chain,
     Compiled, Goto, Installing, Kinds, PCs, Registering, Table, View, builder,
     chainOf
<1> QED
  BY <1>1, <1>2, <1>3, <1>4, <1>5 DEF IInv

LEMMA ReplyStep ==
  ASSUME IInv, DocumentedUse, NEW p \in Procs, Reply(p)
  PROVE  IInv'
<1>1. TypeOK'
  BY SMTT(10) DEF IInv, Reply, TypeOK, Answer, Chain, Goto, Kinds, PCs, Return,
     Table, View, builder
<1>2. LockInv' /\ JobInv' /\ DisciplineInv'
  BY SMTT(10) DEF IInv, Reply, TypeOK, LockInv, JobInv, DisciplineInv, Answer,
     Chain, Goto, Installing, Kinds, PCs, Return, Table, View, builder
<1>3. WorkInv' /\ TableInv' /\ FreshInv' /\ NoMapRace'
  BY SMTT(10) DEF IInv, Reply, WorkInv, TableInv, FreshInv, NoMapRace, Goto,
     Installing, Return, builder
<1>4. ServedInv' /\ CompileInv' /\ LiveInv' /\ CoherentInv'
  BY SMTT(10) DEF IInv, Reply, TypeOK, LockInv, JobInv, ServedInv, CompileInv,
     LiveInv, CoherentInv, Answer, Chain, Compiled, Goto, Installing, Kinds,
     PCs, Registering, Return, Table, View, builder, chainOf
<1>5. ViewInv' /\ NoNilHandler' /\ AnswersOwnTable'
  BY SMTT(10) DEF IInv, Reply, TypeOK, LockInv, JobInv, DisciplineInv, WorkInv,
     TableInv, FreshInv, NoMapRace, ViewInv, NoNilHandler, AnswersOwnTable,
     Answer, Chain, Goto, Installing, Kinds, PCs, Return, Table, View, builder
<1> QED
  BY <1>1, <1>2, <1>3, <1>4, <1>5 DEF IInv

LEMMA SwapBeginStep ==
  ASSUME IInv, DocumentedUse, NEW p \in Procs, SwapBegin(p)
  PROVE  IInv'
<1>1. TypeOK'
  BY SMTT(10) DEF IInv, SwapBegin, TypeOK, Answer, Chain, Goto, Kinds, PCs,
     Table, View, builder
<1>2. LockInv' /\ JobInv' /\ DisciplineInv'
  BY SMTT(10) DEF IInv, SwapBegin, TypeOK, LockInv, JobInv, DisciplineInv,
     Answer, Chain, Goto, Installing, Kinds, PCs, Table, View, builder
<1>3. WorkInv' /\ TableInv' /\ FreshInv' /\ NoMapRace'
  BY SMTT(10) DEF IInv, SwapBegin, TypeOK, WorkInv, TableInv, FreshInv,
     NoMapRace, Answer, Chain, Goto, Installing, Kinds, PCs, Table, View,
     builder
<1>4. ServedInv' /\ CompileInv' /\ LiveInv' /\ CoherentInv'
  BY SMTT(10) DEF IInv, SwapBegin, TypeOK, LockInv, JobInv, ServedInv,
     CompileInv, LiveInv, CoherentInv, Answer, Chain, Compiled, Goto,
     Installing, Kinds, PCs, Registering, Table, View, builder, chainOf
<1>5. ViewInv' /\ NoNilHandler' /\ AnswersOwnTable'
  BY SMTT(10) DEF IInv, SwapBegin, ViewInv, NoNilHandler, AnswersOwnTable,
     Goto, builder
<1> QED
  BY <1>1, <1>2, <1>3, <1>4, <1>5 DEF IInv

LEMMA BuildHandleStep ==
  ASSUME IInv, DocumentedUse, NEW p \in Procs, BuildHandle(p)
  PROVE  IInv'
<1>1. TypeOK'
  <2>1. /\ errs' \in [Builders -> BOOLEAN]
        /\ entries' \in [Builders -> SUBSET Routes]
    BY RefuseType, RegisterType DEF IInv, BuildHandle
  <2> QED
    BY <2>1 DEF IInv, BuildHandle, TypeOK
<1>2. LockInv' /\ JobInv' /\ DisciplineInv'
  BY SMTT(10) DEF IInv, BuildHandle, LockInv, JobInv, DisciplineInv,
     Installing, Kinds, Refuse, Register
<1>3. WorkInv' /\ TableInv' /\ FreshInv' /\ NoMapRace'
  BY SMTT(10) DEF IInv, BuildHandle, WorkInv, TableInv, FreshInv, NoMapRace,
     Installing, Refuse, Register, builder
<1>4. ServedInv' /\ CompileInv' /\ LiveInv' /\ CoherentInv'
  <2>1. ServedInv'
    <3>1. \A h \in Builders : entries[h] \subseteq entries'[h]
      BY RegistrationGrows DEF IInv, BuildHandle
    <3>2. \A q \in Procs : Installing(q) => work[q] \in Builders
      BY DEF IInv, TypeOK, WorkInv
    <3> QED
      BY <3>1, <3>2 DEF IInv, ServedInv, BuildHandle, Installing
  <2>2. CompileInv'
    BY ConstantsAssumption, SentinelAssumption, SMTT(20) DEF DocumentedUse,
       IInv, BuildHandle, TypeOK, LockInv, JobInv, DisciplineInv, WorkInv,
       TableInv, FreshInv, NoMapRace, ServedInv, CompileInv, LiveInv,
       CoherentInv, ViewInv, NoNilHandler, AnswersOwnTable, Answer, Chain,
       Compiled, Installing, Kinds, PCs, Refuse, Register, Registering, Table,
       View, builder, chainOf
  <2>3. LiveInv'
    <3>1. tbl # NoTable => tbl.of # work[p] /\ tbl.of \in Builders
      BY DEF IInv, TypeOK, TableInv, WorkInv, BuildHandle, Table
    <3>2. \A h \in Builders : h # work[p] => entries'[h] = entries[h]
      BY RegistrationGrows DEF IInv, BuildHandle
    <3> QED
      BY <3>1, <3>2 DEF IInv, BuildHandle, LiveInv, Registering, Compiled
  <2>4. CoherentInv'
    <3>1. \A h \in Builders : h # work[p] => entries'[h] = entries[h]
      BY RegistrationGrows DEF IInv, BuildHandle
    <3>2. tbl # NoTable => tbl.of # work[p] /\ tbl.of \in Builders
      BY DEF IInv, TypeOK, TableInv, WorkInv, BuildHandle, Table
    <3>3. UNCHANGED <<rmw, b, tbl, bmw, own, served, pc, job>>
      BY DEF BuildHandle
    <3> QED
      BY <3>1, <3>2, <3>3 DEF IInv, CoherentInv, Registering, Installing, chainOf
  <2> QED
    BY <2>1, <2>2, <2>3, <2>4
<1>5. ViewInv' /\ NoNilHandler' /\ AnswersOwnTable'
  BY SMTT(10) DEF IInv, BuildHandle, TypeOK, LockInv, JobInv, DisciplineInv,
     WorkInv, TableInv, FreshInv, NoMapRace, ViewInv, NoNilHandler,
     AnswersOwnTable, Answer, Chain, Installing, Kinds, PCs, Refuse, Register,
     Table, View, builder
<1> QED
  BY <1>1, <1>2, <1>3, <1>4, <1>5 DEF IInv

LEMMA BuildUseStep ==
  ASSUME IInv, DocumentedUse, NEW p \in Procs, BuildUse(p)
  PROVE  IInv'
<1>1. TypeOK'
  <2>1. bmw' \in [Builders -> Nat] /\ own' \in [Builders -> Nat]
    BY SMTT(20) DEF IInv, TypeOK, BuildUse
  <2> QED
    BY <2>1 DEF IInv, BuildUse, TypeOK
<1>2. LockInv' /\ JobInv' /\ DisciplineInv'
  BY SMTT(10) DEF IInv, BuildUse, LockInv, JobInv, DisciplineInv, Installing,
     Kinds
<1>3. WorkInv' /\ TableInv' /\ FreshInv' /\ NoMapRace'
  BY SMTT(10) DEF IInv, BuildUse, TypeOK, WorkInv, TableInv, FreshInv,
     NoMapRace, Answer, Chain, Installing, Kinds, PCs, Table, View, builder
<1>4. ServedInv' /\ CompileInv' /\ LiveInv' /\ CoherentInv'
  BY ConstantsAssumption, SMTT(10) DEF DocumentedUse, IInv, BuildUse, TypeOK,
     LockInv, JobInv, DisciplineInv, WorkInv, ServedInv, CompileInv, LiveInv,
     CoherentInv, Answer, Chain, Compiled, Installing, Kinds, PCs, Registering,
     Table, View, builder, chainOf
<1>5. ViewInv' /\ NoNilHandler' /\ AnswersOwnTable'
  BY SMTT(10) DEF IInv, BuildUse, ViewInv, NoNilHandler, AnswersOwnTable,
     builder
<1> QED
  BY <1>1, <1>2, <1>3, <1>4, <1>5 DEF IInv

LEMMA SwapRejectStep ==
  ASSUME IInv, DocumentedUse, NEW p \in Procs, SwapReject(p)
  PROVE  IInv'
<1>1. TypeOK'
  BY SMTT(10) DEF IInv, SwapReject, TypeOK, LockInv, JobInv, DisciplineInv,
     WorkInv, Answer, Chain, Goto, Installing, Kinds, PCs, Return, Table, View,
     builder
<1>2. LockInv' /\ JobInv' /\ DisciplineInv'
  BY SMTT(10) DEF IInv, SwapReject, TypeOK, LockInv, JobInv, DisciplineInv,
     Answer, Chain, Goto, Installing, Kinds, PCs, Return, Table, View, builder
<1>3. WorkInv' /\ TableInv' /\ FreshInv' /\ NoMapRace'
  BY SMTT(10) DEF IInv, SwapReject, TypeOK, WorkInv, TableInv, FreshInv,
     NoMapRace, Answer, Chain, Goto, Installing, Kinds, PCs, Return, Table,
     View, builder
<1>4. ServedInv' /\ CompileInv' /\ LiveInv' /\ CoherentInv'
  BY ConstantsAssumption, SMTT(10) DEF DocumentedUse, IInv, SwapReject, TypeOK,
     LockInv, JobInv, DisciplineInv, WorkInv, ServedInv, CompileInv, LiveInv,
     CoherentInv, Answer, Chain, Compiled, Goto, Installing, Kinds, PCs,
     Registering, Return, Table, View, builder, chainOf
<1>5. ViewInv' /\ NoNilHandler' /\ AnswersOwnTable'
  BY SMTT(10) DEF IInv, SwapReject, ViewInv, NoNilHandler, AnswersOwnTable,
     Goto, Return, builder
<1> QED
  BY <1>1, <1>2, <1>3, <1>4, <1>5 DEF IInv

LEMMA SwapAcceptStep ==
  ASSUME IInv, DocumentedUse, NEW p \in Procs, SwapAccept(p)
  PROVE  IInv'
<1>1. TypeOK'
  BY SMTT(10) DEF IInv, SwapAccept, TypeOK, Answer, Chain, Goto, Kinds, PCs,
     Table, View, builder
<1>2. LockInv' /\ JobInv' /\ DisciplineInv'
  BY SMTT(10) DEF IInv, SwapAccept, LockInv, JobInv, DisciplineInv, Goto,
     Installing, Kinds
<1>3. WorkInv' /\ TableInv' /\ FreshInv' /\ NoMapRace'
  BY SMTT(10) DEF IInv, SwapAccept, WorkInv, TableInv, FreshInv, NoMapRace,
     Goto, Installing, builder
<1>4. ServedInv' /\ CompileInv' /\ LiveInv' /\ CoherentInv'
  BY SMTT(10) DEF IInv, SwapAccept, ServedInv, CompileInv, LiveInv,
     CoherentInv, Compiled, Goto, Installing, Kinds, Registering, builder,
     chainOf
<1>5. ViewInv' /\ NoNilHandler' /\ AnswersOwnTable'
  BY SMTT(10) DEF IInv, SwapAccept, ViewInv, NoNilHandler, AnswersOwnTable,
     Goto, builder
<1> QED
  BY <1>1, <1>2, <1>3, <1>4, <1>5 DEF IInv

LEMMA SwapAdoptStep ==
  ASSUME IInv, DocumentedUse, NEW p \in Procs, SwapAdopt(p)
  PROVE  IInv'
<1>1. TypeOK'
  BY SMTT(10) DEF IInv, SwapAdopt, TypeOK, LockInv, JobInv, DisciplineInv,
     WorkInv, Answer, Chain, Goto, Installing, Kinds, PCs, Table, View, builder
<1>2. LockInv' /\ JobInv' /\ DisciplineInv'
  BY ConstantsAssumption, SMTT(10) DEF DocumentedUse, IInv, SwapAdopt, TypeOK,
     LockInv, JobInv, DisciplineInv, Answer, Chain, Goto, Installing, Kinds,
     PCs, Table, View, builder
<1>3. WorkInv' /\ TableInv' /\ FreshInv' /\ NoMapRace'
  BY ConstantsAssumption, SMTT(10) DEF DocumentedUse, IInv, SwapAdopt, TypeOK,
     LockInv, JobInv, WorkInv, TableInv, FreshInv, NoMapRace, Answer, Chain,
     Goto, Installing, Kinds, PCs, Table, View, builder
<1>4. ServedInv' /\ CompileInv' /\ LiveInv' /\ CoherentInv'
  BY SMTT(10) DEF IInv, SwapAdopt, TypeOK, LockInv, JobInv, ServedInv,
     CompileInv, LiveInv, CoherentInv, Answer, Chain, Compiled, Goto,
     Installing, Kinds, PCs, Registering, Table, View, builder, chainOf
<1>5. ViewInv' /\ NoNilHandler' /\ AnswersOwnTable'
  BY SMTT(10) DEF IInv, SwapAdopt, ViewInv, NoNilHandler, AnswersOwnTable,
     Goto, builder
<1> QED
  BY <1>1, <1>2, <1>3, <1>4, <1>5 DEF IInv

LEMMA InstallSwapStep ==
  ASSUME IInv, DocumentedUse, NEW p \in Procs, InstallSwap(p)
  PROVE  IInv'
<1>1. TypeOK'
  BY SMTT(10) DEF IInv, InstallSwap, TypeOK, Answer, Chain, Goto, Kinds, PCs,
     Return, Table, View, builder
<1>2. LockInv' /\ JobInv' /\ DisciplineInv'
  BY ConstantsAssumption, SMTT(10) DEF DocumentedUse, IInv, InstallSwap,
     TypeOK, LockInv, JobInv, DisciplineInv, Answer, Chain, Goto, Installing,
     Kinds, PCs, Return, Table, View, builder
<1>3. WorkInv' /\ TableInv' /\ FreshInv' /\ NoMapRace'
  BY SMTT(10) DEF IInv, InstallSwap, TypeOK, WorkInv, TableInv, FreshInv,
     NoMapRace, Answer, Chain, Goto, Installing, Kinds, PCs, Return, Table,
     View, builder
<1>4. ServedInv' /\ CompileInv' /\ LiveInv' /\ CoherentInv'
  <2>1. ServedInv'
    BY ConstantsAssumption DEF IInv, InstallSwap, TypeOK, ServedInv, Installing,
       Goto, Return
  <2>2. CompileInv'
    BY ConstantsAssumption DEF IInv, InstallSwap, TypeOK, LockInv, CompileInv,
       Installing, Goto, Return, chainOf
  <2>3. LiveInv'
    <3>0. pc[p] = "install"
      BY DEF InstallSwap
    <3>1. tab[p].of = work[p] /\ Compiled(work[p])
      <4>1. tab[p] = [of |-> work[p], router |-> rmw, builder |-> bmw[work[p]]]
        BY <3>0, Zenon DEF IInv, TableInv
      <4>2. Compiled(work[p])
        BY <3>0, WrittenIsCompiled
      <4> QED
        BY <4>1, <4>2
    <3>2. tbl' = tab[p] /\ UNCHANGED <<entries, served>>
      BY DEF InstallSwap
    <3> QED
      BY <3>1, <3>2 DEF LiveInv, Compiled
  <2>4. CoherentInv'
    BY SMTT(20) DEF IInv, InstallSwap, TypeOK, JobInv, WorkInv, TableInv, CompileInv,
       CoherentInv, Registering, Installing, Goto, Return, chainOf
  <2> QED
    BY <2>1, <2>2, <2>3, <2>4
<1>5. ViewInv' /\ NoNilHandler' /\ AnswersOwnTable'
  BY SMTT(10) DEF IInv, InstallSwap, ViewInv, NoNilHandler, AnswersOwnTable,
     Goto, Return, builder
<1> QED
  BY <1>1, <1>2, <1>3, <1>4, <1>5 DEF IInv

LEMMA UseStep ==
  ASSUME IInv, DocumentedUse, NEW p \in Procs, Use(p)
  PROVE  IInv'
<1>1. TypeOK'
  BY SMTT(10) DEF IInv, Use, TypeOK, Answer, Chain, Goto, Kinds, MayStart, PCs,
     Start, Table, View, builder
<1>2. LockInv' /\ JobInv' /\ DisciplineInv'
  BY ConstantsAssumption, SMTT(10) DEF DocumentedUse, IInv, Use, TypeOK,
     LockInv, JobInv, DisciplineInv, Answer, Chain, Goto, Installing, Kinds,
     MayStart, PCs, Start, Table, View, builder
<1>3. WorkInv' /\ TableInv' /\ FreshInv' /\ NoMapRace'
  BY ConstantsAssumption, SMTT(10) DEF DocumentedUse, IInv, Use, TypeOK,
     LockInv, JobInv, WorkInv, TableInv, FreshInv, NoMapRace, Answer, Chain,
     Goto, Installing, Kinds, MayStart, PCs, Start, Table, View, builder
<1>4. ServedInv' /\ CompileInv' /\ LiveInv' /\ CoherentInv'
  BY ConstantsAssumption, SMTT(10) DEF DocumentedUse, IInv, Use, TypeOK,
     LockInv, JobInv, ServedInv, CompileInv, LiveInv, CoherentInv, Answer,
     Chain, Compiled, Goto, Installing, Kinds, MayStart, PCs, Registering,
     Start, Table, View, builder, chainOf
<1>5. ViewInv' /\ NoNilHandler' /\ AnswersOwnTable'
  BY SMTT(10) DEF IInv, Use, ViewInv, NoNilHandler, AnswersOwnTable, Goto,
     MayStart, Start, builder
<1> QED
  BY <1>1, <1>2, <1>3, <1>4, <1>5 DEF IInv

LEMMA ObtainStep ==
  ASSUME IInv, DocumentedUse, NEW p \in Procs, Obtain(p)
  PROVE  IInv'
<1>1. TypeOK'
  BY ConstantsAssumption, SMTT(10) DEF DocumentedUse, IInv, Obtain, TypeOK,
     Answer, Chain, Kinds, PCs, Table, View, builder
<1>2. LockInv' /\ JobInv' /\ DisciplineInv'
  BY SMTT(10) DEF IInv, Obtain, LockInv, JobInv, DisciplineInv, Installing,
     Kinds, builder
<1>3. WorkInv' /\ TableInv' /\ FreshInv' /\ NoMapRace'
  BY SMTT(10) DEF IInv, Obtain, WorkInv, TableInv, FreshInv, NoMapRace,
     Installing, builder
<1>4. ServedInv' /\ CompileInv' /\ LiveInv' /\ CoherentInv'
  BY ConstantsAssumption, SMTT(10) DEF DocumentedUse, IInv, Obtain, TypeOK,
     ServedInv, CompileInv, LiveInv, CoherentInv, Answer, Chain, Compiled,
     Installing, Kinds, PCs, Registering, Table, View, builder, chainOf
<1>5. ViewInv' /\ NoNilHandler' /\ AnswersOwnTable'
  BY SMTT(10) DEF IInv, Obtain, ViewInv, NoNilHandler, AnswersOwnTable, builder
<1> QED
  BY <1>1, <1>2, <1>3, <1>4, <1>5 DEF IInv

LEMMA HandleStep ==
  ASSUME IInv, DocumentedUse, NEW p \in Procs, Handle(p)
  PROVE  IInv'
<1>1. TypeOK'
  <2>1. /\ errs' \in [Builders -> BOOLEAN]
        /\ entries' \in [Builders -> SUBSET Routes]
    BY RefuseType, RegisterType DEF IInv, Handle
  <2>2. builder \in Builders
    BY ConstantsAssumption DEF IInv, TypeOK, builder
  <2> QED
    BY <2>1, <2>2 DEF IInv, Handle, TypeOK, Start, Goto, Kinds, PCs
<1>2. LockInv' /\ JobInv' /\ DisciplineInv'
  BY ConstantsAssumption, SMTT(10) DEF DocumentedUse, IInv, Handle, TypeOK,
     LockInv, JobInv, DisciplineInv, Answer, Chain, Goto, Installing, Kinds,
     MayStart, PCs, Refuse, Register, Start, Table, Unshared, View, builder
<1>3. WorkInv' /\ TableInv' /\ FreshInv' /\ NoMapRace'
  BY SMTT(10) DEF DocumentedUse, IInv, Handle, TypeOK, LockInv, JobInv,
     WorkInv, TableInv, FreshInv, NoMapRace, Answer, Chain, Goto, Installing,
     Kinds, MayStart, PCs, Refuse, Register, Start, Table, Unshared, View,
     builder
<1>4. ServedInv' /\ CompileInv' /\ LiveInv' /\ CoherentInv'
  BY ConstantsAssumption, SMTT(10) DEF DocumentedUse, IInv, Handle, TypeOK,
     LockInv, JobInv, ServedInv, CompileInv, LiveInv, CoherentInv, Answer,
     Chain, Compiled, Goto, Installing, Kinds, MayStart, PCs, Refuse, Register,
     Registering, Start, Table, Unshared, View, builder, chainOf
<1>5. ViewInv' /\ NoNilHandler' /\ AnswersOwnTable'
  BY SMTT(10) DEF DocumentedUse, IInv, Handle, TypeOK, LockInv, JobInv,
     ViewInv, NoNilHandler, AnswersOwnTable, Answer, Chain, Goto, Installing,
     Kinds, MayStart, PCs, Refuse, Register, Start, Table, Unshared, View,
     builder
<1> QED
  BY <1>1, <1>2, <1>3, <1>4, <1>5 DEF IInv

LEMMA DropStep ==
  ASSUME IInv, DocumentedUse, NEW p \in Procs, Drop(p)
  PROVE  IInv'
<1>1. TypeOK'
  BY SMTT(10) DEF IInv, Drop, TypeOK, Answer, Chain, Goto, Kinds, PCs, Return,
     Table, View, builder
<1>2. LockInv' /\ JobInv' /\ DisciplineInv'
  BY ConstantsAssumption, SMTT(10) DEF DocumentedUse, IInv, Drop, TypeOK,
     LockInv, JobInv, DisciplineInv, Answer, Chain, Goto, Installing, Kinds,
     PCs, Return, Table, View, builder
<1>3. WorkInv' /\ TableInv' /\ FreshInv' /\ NoMapRace'
  BY SMTT(10) DEF IInv, Drop, TypeOK, LockInv, JobInv, DisciplineInv, WorkInv,
     TableInv, FreshInv, NoMapRace, Answer, Chain, Goto, Installing, Kinds,
     PCs, Return, Table, View, builder
<1>4. ServedInv' /\ CompileInv' /\ LiveInv' /\ CoherentInv'
  BY SMTT(10) DEF IInv, Drop, ServedInv, CompileInv, LiveInv, CoherentInv,
     Compiled, Goto, Installing, Kinds, Registering, Return, builder, chainOf
<1>5. ViewInv' /\ NoNilHandler' /\ AnswersOwnTable'
  BY SMTT(10) DEF IInv, Drop, ViewInv, NoNilHandler, AnswersOwnTable, Goto,
     Return, builder
<1> QED
  BY <1>1, <1>2, <1>3, <1>4, <1>5 DEF IInv

LEMMA GroupHandleStep ==
  ASSUME IInv, DocumentedUse, NEW p \in Procs, GroupHandle(p)
  PROVE  IInv'
<1> PICK g \in adopted :
      /\ MayStart(p, GroupKind(g, "groupHandle")) /\ Unshared(g)
      /\ Refuse(g) \/ \E r \in Routes : Register(g, r)
      /\ UNCHANGED procVars \/ Started(p, g)
      /\ UNCHANGED <<routerVars, bmw, own, served, adopted, requestVars>>
  BY DEF GroupHandle, Started
<1>1. TypeOK'
  <2>1. /\ errs' \in [Builders -> BOOLEAN]
        /\ entries' \in [Builders -> SUBSET Routes]
    BY RefuseType, RegisterType DEF IInv
  <2>2. /\ pc' \in [Procs -> PCs]
        /\ work' \in [Procs -> Builders \cup {NoBuilder}]
        /\ job' \in [Procs -> Kinds \cup {"none", "serve", "swap"}]
        /\ todo' = todo
    <3>1. CASE UNCHANGED procVars
      BY <3>1 DEF IInv, TypeOK
    <3>2. CASE Started(p, g)
      <4>1. g \in Builders /\ GroupKind(g, "groupHandle") \in Kinds
        BY DEF IInv, TypeOK, GroupKind, Kinds
      <4> QED
        BY <3>2, <4>1 DEF IInv, TypeOK, Started, Start, Goto, PCs
    <3> QED
      BY <3>1, <3>2
  <2> QED
    BY <2>1, <2>2 DEF IInv, TypeOK
<1>2. LockInv' /\ JobInv' /\ DisciplineInv'
  BY SMTT(10) DEF DocumentedUse, IInv, GroupHandle, TypeOK, LockInv, JobInv,
     DisciplineInv, Answer, Chain, Goto, GroupKind, Installing, Kinds,
     MayStart, PCs, Refuse, Register, Start, Table, Unshared, View, builder
<1>3. WorkInv' /\ TableInv' /\ FreshInv' /\ NoMapRace'
  <2>1. WorkInv'
    <3>1. CASE UNCHANGED procVars
      BY <3>1 DEF IInv, WorkInv, Installing
    <3>2. CASE Started(p, g)
      BY <3>2 DEF IInv, TypeOK, WorkInv, Started, Start, Goto, Unshared, Installing
    <3> QED
      BY <3>1, <3>2
  <2>2. TableInv'
    BY ConstantsAssumption, SentinelAssumption, SMTT(20) DEF DocumentedUse,
       IInv, GroupHandle, TypeOK, LockInv, JobInv, DisciplineInv, WorkInv,
       TableInv, FreshInv, NoMapRace, ServedInv, CompileInv, LiveInv,
       CoherentInv, ViewInv, NoNilHandler, AnswersOwnTable, Answer, Chain,
       Compiled, Goto, GroupKind, Installing, Kinds, MayStart, PCs, Refuse,
       Register, Registering, Start, Table, Unshared, View, builder, chainOf
  <2>3. FreshInv'
    BY ConstantsAssumption, SentinelAssumption, SMTT(20) DEF DocumentedUse,
       IInv, GroupHandle, TypeOK, LockInv, JobInv, DisciplineInv, WorkInv,
       TableInv, FreshInv, NoMapRace, ServedInv, CompileInv, LiveInv,
       CoherentInv, ViewInv, NoNilHandler, AnswersOwnTable, Answer, Chain,
       Compiled, Goto, GroupKind, Installing, Kinds, MayStart, PCs, Refuse,
       Register, Registering, Start, Table, Unshared, View, builder, chainOf
  <2>4. NoMapRace'
    BY ConstantsAssumption, SentinelAssumption, SMTT(20) DEF DocumentedUse,
       IInv, GroupHandle, TypeOK, LockInv, JobInv, DisciplineInv, WorkInv,
       TableInv, FreshInv, NoMapRace, ServedInv, CompileInv, LiveInv,
       CoherentInv, ViewInv, NoNilHandler, AnswersOwnTable, Answer, Chain,
       Compiled, Goto, GroupKind, Installing, Kinds, MayStart, PCs, Refuse,
       Register, Registering, Start, Table, Unshared, View, builder, chainOf
  <2> QED
    BY <2>1, <2>2, <2>3, <2>4
<1>4. ServedInv' /\ CompileInv' /\ LiveInv' /\ CoherentInv'
  <2>1. ServedInv'
    <3>1. \A h \in Builders : entries[h] \subseteq entries'[h]
      BY RegistrationGrows DEF IInv
    <3>2. todo' = todo
      BY DEF Started
    <3>3. \A q \in Procs : Installing(q)' => Installing(q) /\ work'[q] = work[q]
      BY DEF IInv, TypeOK, Started, Start, Goto, Installing
    <3>4. \A q \in Procs : Installing(q) => work[q] \in Builders
      BY DEF IInv, TypeOK, WorkInv
    <3>5. \A q \in Procs : Installing(q)' => todo'[q] \subseteq entries'[work'[q]]
      BY <3>1, <3>2, <3>3, <3>4 DEF IInv, ServedInv
    <3> QED
      BY <3>1, <3>5 DEF IInv, ServedInv
  <2>2. CompileInv'
    BY ConstantsAssumption, SentinelAssumption, SMTT(20) DEF DocumentedUse,
       IInv, GroupHandle, TypeOK, LockInv, JobInv, DisciplineInv, WorkInv,
       TableInv, FreshInv, NoMapRace, ServedInv, CompileInv, LiveInv,
       CoherentInv, ViewInv, NoNilHandler, AnswersOwnTable, Answer, Chain,
       Compiled, Goto, GroupKind, Installing, Kinds, MayStart, PCs, Refuse,
       Register, Registering, Start, Table, Unshared, View, builder, chainOf
  <2>3. LiveInv'
    BY ConstantsAssumption, SentinelAssumption, SMTT(20) DEF DocumentedUse,
       IInv, GroupHandle, TypeOK, LockInv, JobInv, DisciplineInv, WorkInv,
       TableInv, FreshInv, NoMapRace, ServedInv, CompileInv, LiveInv,
       CoherentInv, ViewInv, NoNilHandler, AnswersOwnTable, Answer, Chain,
       Compiled, Goto, GroupKind, Installing, Kinds, MayStart, PCs, Refuse,
       Register, Registering, Start, Table, Unshared, View, builder, chainOf
  <2>4. CoherentInv'
    BY ConstantsAssumption, SentinelAssumption, SMTT(20) DEF DocumentedUse,
       IInv, GroupHandle, TypeOK, LockInv, JobInv, DisciplineInv, WorkInv,
       TableInv, FreshInv, NoMapRace, ServedInv, CompileInv, LiveInv,
       CoherentInv, ViewInv, NoNilHandler, AnswersOwnTable, Answer, Chain,
       Compiled, Goto, GroupKind, Installing, Kinds, MayStart, PCs, Refuse,
       Register, Registering, Start, Table, Unshared, View, builder, chainOf
  <2> QED
    BY <2>1, <2>2, <2>3, <2>4
<1>5. ViewInv' /\ NoNilHandler' /\ AnswersOwnTable'
  BY SMTT(10) DEF DocumentedUse, IInv, GroupHandle, TypeOK, LockInv, JobInv,
     ViewInv, NoNilHandler, AnswersOwnTable, Answer, Chain, Goto, GroupKind,
     Installing, Kinds, MayStart, PCs, Refuse, Register, Start, Table,
     Unshared, View, builder
<1> QED
  BY <1>1, <1>2, <1>3, <1>4, <1>5 DEF IInv

LEMMA GroupUseStep ==
  ASSUME IInv, DocumentedUse, NEW p \in Procs, GroupUse(p)
  PROVE  IInv'
<1>1. TypeOK'
  BY SMTT(10) DEF IInv, GroupUse, TypeOK, Answer, Chain, Goto, GroupKind,
     Kinds, MayStart, PCs, Start, Table, Unshared, View, builder
<1>2. LockInv' /\ JobInv' /\ DisciplineInv'
  BY SMTT(10) DEF DocumentedUse, IInv, GroupUse, TypeOK, LockInv, JobInv,
     DisciplineInv, Answer, Chain, Goto, GroupKind, Installing, Kinds,
     MayStart, PCs, Start, Table, Unshared, View, builder
<1>3. WorkInv' /\ TableInv' /\ FreshInv' /\ NoMapRace'
  BY SMTT(10) DEF DocumentedUse, IInv, GroupUse, TypeOK, LockInv, JobInv,
     WorkInv, TableInv, FreshInv, NoMapRace, Answer, Chain, Goto, GroupKind,
     Installing, Kinds, MayStart, PCs, Start, Table, Unshared, View, builder
<1>4. ServedInv' /\ CompileInv' /\ LiveInv' /\ CoherentInv'
  BY SMTT(10) DEF IInv, GroupUse, TypeOK, ServedInv, CompileInv, LiveInv,
     CoherentInv, Answer, Chain, Compiled, Goto, GroupKind, Installing, Kinds,
     MayStart, PCs, Registering, Start, Table, Unshared, View, builder, chainOf
<1>5. ViewInv' /\ NoNilHandler' /\ AnswersOwnTable'
  BY SMTT(10) DEF IInv, GroupUse, ViewInv, NoNilHandler, AnswersOwnTable, Goto,
     GroupKind, MayStart, Start, Unshared, builder
<1> QED
  BY <1>1, <1>2, <1>3, <1>4, <1>5 DEF IInv

LEMMA InvalidateStep ==
  ASSUME IInv, DocumentedUse, NEW p \in Procs, Invalidate(p)
  PROVE  IInv'
<1>1. TypeOK'
  BY SMTT(10) DEF IInv, Invalidate, TypeOK, Answer, Chain, Goto, Kinds, PCs,
     Return, Table, View, builder
<1>2. LockInv' /\ JobInv' /\ DisciplineInv'
  BY SMTT(10) DEF IInv, Invalidate, TypeOK, LockInv, JobInv, DisciplineInv,
     Answer, Chain, Goto, Installing, Kinds, PCs, Return, Table, View, builder
<1>3. WorkInv' /\ TableInv' /\ FreshInv' /\ NoMapRace'
  BY SMTT(10) DEF IInv, Invalidate, TypeOK, LockInv, JobInv, DisciplineInv,
     WorkInv, TableInv, FreshInv, NoMapRace, Answer, Chain, Goto, Installing,
     Kinds, PCs, Return, Table, View, builder
<1>4. ServedInv' /\ CompileInv' /\ LiveInv' /\ CoherentInv'
  BY SMTT(10) DEF IInv, Invalidate, ServedInv, CompileInv, LiveInv,
     CoherentInv, Compiled, Goto, Installing, Kinds, Registering, Return,
     builder, chainOf
<1>5. ViewInv' /\ NoNilHandler' /\ AnswersOwnTable'
  BY SMTT(10) DEF IInv, Invalidate, ViewInv, NoNilHandler, AnswersOwnTable,
     Goto, Return, builder
<1> QED
  BY <1>1, <1>2, <1>3, <1>4, <1>5 DEF IInv

LEMMA BuilderUseStep ==
  ASSUME IInv, DocumentedUse, NEW p \in Procs, BuilderUse(p)
  PROVE  IInv'
<1>1. TypeOK'
  BY SMTT(10) DEF IInv, BuilderUse, TypeOK, Answer, Chain, GroupKind, Kinds,
     MayStart, PCs, Table, Unshared, View, builder
<1>2. LockInv' /\ JobInv' /\ DisciplineInv'
  BY SMTT(10) DEF IInv, BuilderUse, LockInv, JobInv, DisciplineInv, GroupKind,
     Installing, Kinds, MayStart, Unshared
<1>3. WorkInv' /\ TableInv' /\ FreshInv' /\ NoMapRace'
  BY SMTT(10) DEF IInv, BuilderUse, WorkInv, TableInv, FreshInv, NoMapRace,
     GroupKind, Installing, MayStart, Unshared, builder
<1>4. ServedInv' /\ CompileInv' /\ LiveInv' /\ CoherentInv'
  BY SMTT(10) DEF DocumentedUse, IInv, BuilderUse, ServedInv, CompileInv,
     LiveInv, CoherentInv, Compiled, GroupKind, Installing, Kinds, MayStart,
     Registering, Unshared, builder, chainOf
<1>5. ViewInv' /\ NoNilHandler' /\ AnswersOwnTable'
  BY SMTT(10) DEF IInv, BuilderUse, ViewInv, NoNilHandler, AnswersOwnTable,
     GroupKind, MayStart, Unshared, builder
<1> QED
  BY <1>1, <1>2, <1>3, <1>4, <1>5 DEF IInv

LEMMA StutterStep ==
  ASSUME IInv, UNCHANGED vars
  PROVE  IInv'
<1>1. TypeOK' /\ LockInv' /\ JobInv' /\ DisciplineInv'
  BY DEF IInv, TypeOK, LockInv, JobInv, DisciplineInv, Installing, vars
<1>2. WorkInv' /\ TableInv' /\ FreshInv' /\ NoMapRace'
  BY DEF IInv, WorkInv, TableInv, FreshInv, NoMapRace, Installing, builder, vars
<1>3. ServedInv' /\ CompileInv' /\ LiveInv' /\ CoherentInv'
  BY DEF IInv, ServedInv, CompileInv, LiveInv, CoherentInv, Installing,
     Registering, Compiled, chainOf, vars
<1>4. ViewInv' /\ NoNilHandler' /\ AnswersOwnTable'
  BY DEF IInv, ViewInv, NoNilHandler, AnswersOwnTable, vars
<1> QED
  BY <1>1, <1>2, <1>3, <1>4 DEF IInv

LEMMA InitIInv ==
  ASSUME Init
  PROVE  IInv
<1>1. TypeOK
  BY ConstantsAssumption DEF Init, TypeOK, Unregistered, PCs, Kinds
<1>2. LockInv /\ JobInv /\ DisciplineInv
  BY ConstantsAssumption DEF Init, LockInv, JobInv, DisciplineInv, Installing, Kinds
<1>3. WorkInv /\ TableInv /\ FreshInv /\ NoMapRace
  BY ConstantsAssumption DEF Init, WorkInv, TableInv, FreshInv, NoMapRace, Installing
<1>4. ServedInv /\ CompileInv /\ LiveInv /\ CoherentInv
  BY DEF Init, Unregistered, ServedInv, CompileInv, LiveInv, CoherentInv,
     Installing
<1>5. ViewInv /\ NoNilHandler /\ AnswersOwnTable
  BY DEF Init, ViewInv, NoNilHandler, AnswersOwnTable
<1> QED
  BY <1>1, <1>2, <1>3, <1>4, <1>5 DEF IInv

(* IInv is inductive.                                                      *)
LEMMA NextStep ==
  ASSUME IInv, DocumentedUse, [Next]_vars
  PROVE  IInv'
<1>1. CASE Next
  <2> PICK p \in Procs :
        Begin(p) \/ Request(p) \/ SwapBegin(p) \/ Swap(p) \/ Registration(p)
    BY <1>1 DEF Next
  <2>1. CASE Begin(p)
    BY <2>1, BeginStep
  <2>2. CASE LoadHit(p)
    BY <2>2, LoadHitStep
  <2>3. CASE LoadMiss(p)
    BY <2>3, LoadMissStep
  <2>4. CASE RecheckHit(p)
    BY <2>4, RecheckHitStep
  <2>5. CASE RecheckMiss(p)
    BY <2>5, RecheckMissStep
  <2>6. CASE CompileRoute(p)
    BY <2>6, CompileRouteStep
  <2>7. CASE CompileDone(p)
    BY <2>7, CompileDoneStep
  <2>8. CASE CompilePanic(p)
    BY <2>8, CompilePanicStep
  <2>9. CASE InstallServe(p)
    BY <2>9, InstallServeStep
  <2>10. CASE Find(p)
    BY <2>10, FindStep
  <2>11. CASE Reply(p)
    BY <2>11, ReplyStep
  <2>12. CASE SwapBegin(p)
    BY <2>12, SwapBeginStep
  <2>13. CASE BuildHandle(p)
    BY <2>13, BuildHandleStep
  <2>14. CASE BuildUse(p)
    BY <2>14, BuildUseStep
  <2>15. CASE SwapReject(p)
    BY <2>15, SwapRejectStep
  <2>16. CASE SwapAccept(p)
    BY <2>16, SwapAcceptStep
  <2>17. CASE SwapAdopt(p)
    BY <2>17, SwapAdoptStep
  <2>18. CASE InstallSwap(p)
    BY <2>18, InstallSwapStep
  <2>19. CASE Use(p)
    BY <2>19, UseStep
  <2>20. CASE Obtain(p)
    BY <2>20, ObtainStep
  <2>21. CASE Handle(p)
    BY <2>21, HandleStep
  <2>22. CASE Drop(p)
    BY <2>22, DropStep
  <2>23. CASE GroupHandle(p)
    BY <2>23, GroupHandleStep
  <2>24. CASE GroupUse(p)
    BY <2>24, GroupUseStep
  <2>25. CASE Invalidate(p)
    BY <2>25, InvalidateStep
  <2>26. CASE BuilderUse(p)
    BY <2>26, BuilderUseStep
  <2> QED
    BY <2>1, <2>2, <2>3, <2>4, <2>5, <2>6, <2>7, <2>8, <2>9, <2>10, <2>11,
       <2>12, <2>13, <2>14, <2>15, <2>16, <2>17, <2>18, <2>19, <2>20, <2>21,
       <2>22, <2>23, <2>24, <2>25, <2>26
       DEF Request, Swap, Registration
<1>2. CASE UNCHANGED vars
  BY <1>2, StutterStep
<1> QED
  BY <1>1, <1>2

-----------------------------------------------------------------------------
(* Theorems *)

(* As long as registration keeps to its documented use, the inductive      *)
(* invariant holds in every reachable state, compile panics included.      *)
THEOREM Invariance ==
  ASSUME DocumentedUse
  PROVE  Spec => []IInv
<1>1. Init => IInv
  BY InitIInv
<1>2. IInv /\ [Next]_vars => IInv'
  BY NextStep
<1> QED
  BY <1>1, <1>2, PTL DEF Spec

(* Every variable keeps its shape.                                         *)
THEOREM TypeCorrect ==
  ASSUME DocumentedUse
  PROVE  Spec => []TypeOK
<1>1. IInv => TypeOK
  BY DEF IInv
<1> QED
  BY <1>1, Invariance, PTL

(* No lookup reads a builder's maps while a compile or a registration      *)
(* writes them, however requests, reloads and stale registrations overlap. *)
THEOREM LookupsNeverRace ==
  ASSUME DocumentedUse
  PROVE  Spec => []NoMapRace
<1>1. IInv => NoMapRace
  BY DEF IInv
<1> QED
  BY <1>1, Invariance, PTL

(* Every route a request can find has a handler: ServeHTTP never calls a   *)
(* nil one, not even after a middleware constructor panicked in compile.   *)
THEOREM HandlersAreCompiled ==
  ASSUME DocumentedUse
  PROVE  Spec => []NoNilHandler
<1>1. IInv => NoNilHandler
  BY DEF IInv
<1> QED
  BY <1>1, Invariance, PTL

(* A request is answered by the table it started with, whatever was        *)
(* swapped in since.                                                       *)
THEOREM RequestsKeepTheirTable ==
  ASSUME DocumentedUse
  PROVE  Spec => []AnswersOwnTable
<1>1. IInv => AnswersOwnTable
  BY DEF IInv
<1> QED
  BY <1>1, Invariance, PTL

(* Between registrations the live table is what the builder and the        *)
(* router's middleware would compile to: no Use and no route is lost, if   *)
(* no constructor panics and no Builder is used after its Swap.            *)
THEOREM LiveTableIsCurrent ==
  ASSUME DocumentedUse, ~MayPanic, "builderUse" \notin Offline
  PROVE  Spec => []Coherent
<1>1. IInv => Coherent
  <2> SUFFICES ASSUME IInv, mu = Free, tbl # NoTable,
                      \A p \in Procs : job[p] \notin Kinds
               PROVE  /\ tbl.of = b
                      /\ tbl.router = rmw /\ tbl.builder = bmw[b]
                      /\ \A r \in entries[b] : served[b][r] = chainOf(b)
    BY DEF Coherent
  <2>1. \A p \in Procs : ~Installing(p)
    BY ConstantsAssumption DEF IInv, LockInv, Installing
  <2>2. ~Registering
    BY DEF Registering
  <2> QED
    BY <2>1, <2>2 DEF IInv, CoherentInv
<1> QED
  BY <1>1, Invariance, PTL

(* What a Swap callback builds is invisible until Swap adopts it.          *)
THEOREM ConstructionIsHidden ==
  ASSUME DocumentedUse
  PROVE  Spec => []UnderConstructionHidden
<1>1. IInv => UnderConstructionHidden
  BY DEF IInv, WorkInv, TableInv, UnderConstructionHidden
<1> QED
  BY <1>1, Invariance, PTL

-----------------------------------------------------------------------------
(* The refinement: Router implements AtomicRouter, if registration keeps   *)
(* to documented use and no middleware constructor panics.                 *)
(*                                                                         *)
(* RInv is shown to be invariant beside IInv, one lemma per group of       *)
(* actions; then every step is shown to be a step of AtomicRouter or none: *)
(* a request looks when it takes its table, answers when it finds its      *)
(* route, and the configuration changes where a table is dropped, swapped, *)
(* or not there while something is registered.                             *)

Refines == DocumentedUse /\ ~MayPanic

(* The abstract variables, one by one.                                     *)
Replaced == (adopted \cup {First}) \ {Config.of, b}
Same == UNCHANGED <<Config, Replaced, view, got>>

-----------------------------------------------------------------------------
(* RInv *)

(* A new router.                                                           *)
LEMMA InitRInv ==
  ASSUME Init
  PROVE  RInv
<1>1. PromiseInv
  BY DEF Init, PromiseInv
<1>2. InForceInv
  BY DEF Init, InForceInv
<1>3. GrowthInv
  BY DEF Init, GrowthInv, Unregistered
<1> QED
  BY <1>1, <1>2, <1>3 DEF RInv

(* A promise is a view, an answer is an answer: neither is its marker.     *)
LEMMA PromiseStep ==
  ASSUME IInv, IInv', RInv, Refines, NEW p \in Procs,
         Begin(p) \/ Request(p) \/ SwapBegin(p) \/ Swap(p) \/ Registration(p)
  PROVE  PromiseInv'
<1> USE DEF RInv, PromiseInv
<1>1. CASE Begin(p) \/ SwapBegin(p) \/ LoadMiss(p) \/ RecheckMiss(p)
           \/ CompileRoute(p) \/ CompileDone(p)
  BY <1>1, SMTT(20) DEF IInv, TypeOK, Begin, SwapBegin, LoadMiss, RecheckMiss,
     CompileRoute, CompileDone, Goto
<1>2. CASE Swap(p)
  BY <1>2, SMTT(20) DEF IInv, TypeOK, Swap, BuildHandle, BuildUse, SwapReject,
     SwapAccept, SwapAdopt, InstallSwap, Goto, Return
<1>3. CASE Use(p) \/ Obtain(p) \/ Handle(p) \/ Drop(p)
  BY <1>3, SMTT(20) DEF IInv, TypeOK, Use, Obtain, Handle, Drop, Goto, Return,
     Start, MayStart
<1>4. CASE GroupHandle(p) \/ GroupUse(p) \/ Invalidate(p) \/ BuilderUse(p)
  BY <1>4, SMTT(20) DEF IInv, TypeOK, GroupHandle, GroupUse, Invalidate,
     BuilderUse, Goto, Return, Start, MayStart
<1>5. CASE LoadHit(p) \/ RecheckHit(p)
  <2>1. view'[p] \in View
    BY <1>5, SMTT(20) DEF IInv, TypeOK, LoadHit, RecheckHit, Pin, Config, View, Table
  <2> QED
    BY <1>5, <2>1, MarkerAssumption, SMTT(20) DEF IInv, TypeOK, LoadHit,
       RecheckHit, Pin, Goto
<1>6. CASE InstallServe(p)
  <2>1. view'[p] \in View
    BY <1>6, SMTT(20) DEF IInv, TypeOK, InstallServe, TableInv, WorkInv,
       Installing, View, Table
  <2> QED
    BY <1>6, <2>1, MarkerAssumption, SMTT(20) DEF IInv, TypeOK, InstallServe, Goto
<1>7. CASE Find(p)
  <2>1. tab[p] \in Table
    BY <1>7 DEF IInv, TypeOK, TableInv, Find
  <2>2. /\ tab[p].of \in Builders
        /\ [router |-> tab[p].router, builder |-> tab[p].builder,
            group |-> 0] \in Chain
    BY <2>1 DEF Table, Chain
  <2>3. \A r \in Routes : served[tab[p].of][r] \in Chain \cup {NoChain}
    BY <2>2 DEF IInv, TypeOK
  <2>4. got'[p] \in Answer
    BY <1>7, <2>2, <2>3, SMTT(20) DEF IInv, TypeOK, Find, Answer
  <2>5. /\ got' = [got EXCEPT ![p] = got'[p]]
        /\ pc[p] = "find" /\ pc' = [pc EXCEPT ![p] = "reply"] /\ view' = view
    BY <1>7 DEF IInv, TypeOK, Find, Goto
  <2>6. got'[p] # NoAnswer
    BY <2>4, MarkerAssumption
  <2> QED
    BY <2>5, <2>6 DEF IInv, TypeOK
<1>8. CASE Reply(p)
  BY <1>8, SMTT(20) DEF IInv, TypeOK, Reply, Return, Goto
<1>9. CASE CompilePanic(p)
  BY <1>9 DEF CompilePanic, Refines
<1> QED
  BY <1>1, <1>2, <1>3, <1>4, <1>5, <1>6, <1>7, <1>8, <1>9 DEF Request, Registration

(* Whoever is about to drop the table holds the mutex, so no Swap          *)
(* completes meanwhile.                                                    *)
LEMMA InForceStep ==
  ASSUME IInv, IInv', RInv, Refines, NEW p \in Procs,
         Begin(p) \/ Request(p) \/ SwapBegin(p) \/ Swap(p) \/ Registration(p)
  PROVE  InForceInv'
<1> USE DEF RInv, InForceInv, Installing
<1>1. CASE Begin(p) \/ SwapBegin(p) \/ LoadHit(p) \/ LoadMiss(p) \/ RecheckHit(p)
  BY <1>1, SMTT(20) DEF IInv, TypeOK, Begin, SwapBegin, LoadHit, LoadMiss,
     RecheckHit, Pin, Goto
<1>2. CASE RecheckMiss(p) \/ Drop(p) \/ Invalidate(p)
  BY <1>2, SMTT(20) DEF IInv, TypeOK, RecheckMiss, Drop, Invalidate, Goto
<1>3. CASE CompileRoute(p) \/ CompileDone(p)
  BY <1>3, SMTT(20) DEF IInv, TypeOK, JobInv, Installing, CompileRoute,
     CompileDone, Goto
<1>4. CASE InstallServe(p) \/ InstallSwap(p)
  BY <1>4, SMTT(20) DEF IInv, TypeOK, TableInv, WorkInv, Installing,
     InstallServe, InstallSwap, Goto
<1>5. CASE Find(p) \/ Reply(p) \/ SwapReject(p) \/ SwapAccept(p)
           \/ BuildHandle(p) \/ BuildUse(p)
  BY <1>5, SMTT(20) DEF IInv, TypeOK, Find, Reply, SwapReject, SwapAccept,
     BuildHandle, BuildUse, Return, Goto
<1>6. CASE SwapAdopt(p)
  BY <1>6, SMTT(20) DEF IInv, TypeOK, JobInv, LockInv, SwapAdopt, Goto
<1>7. CASE Use(p) \/ Obtain(p) \/ Handle(p)
  <2>1. \A q \in Procs : pc[q] \notin {"compile", "install"}
    BY <1>7, ConstantsAssumption DEF IInv, LockInv, Use, Obtain, Handle
  <2>2. tbl # NoTable => b \in Builders /\ builder = b
    BY <2>1, ConstantsAssumption DEF IInv, TypeOK, Table, builder
  <2>3. CASE Use(p)
    BY <2>1, <2>3 DEF IInv, TypeOK, Use, MayStart, Start, Goto
  <2>4. CASE Obtain(p)
    BY <2>1, <2>2, <2>4 DEF Obtain
  <2>5. CASE Handle(p)
    BY <2>1, <2>2, <2>5 DEF IInv, TypeOK, Handle, MayStart, Start, Goto
  <2> QED
    BY <1>7, <2>3, <2>4, <2>5
<1>8. CASE GroupHandle(p) \/ GroupUse(p) \/ BuilderUse(p)
  <2>1. UNCHANGED <<rmw, b, tbl>>
    BY <1>8 DEF GroupHandle, GroupUse, BuilderUse
  <2>2. pc[p] = "idle" /\ \A q \in Procs : q # p => /\ pc'[q] = pc[q]
                                                    /\ job'[q] = job[q]
    BY <1>8 DEF IInv, TypeOK, GroupHandle, GroupUse, BuilderUse, MayStart,
       Start, Goto
  <2> QED
    BY <2>1, <2>2
<1>9. CASE CompilePanic(p)
  BY <1>9 DEF CompilePanic, Refines
<1> QED
  BY <1>1, <1>2, <1>3, <1>4, <1>5, <1>6, <1>7, <1>8, <1>9
     DEF Request, Swap, Registration

(* Longer middleware lists leave every table and chain behind them.        *)
LEMMA GrowthCarries ==
  ASSUME IInv, IInv', RInv, UNCHANGED <<rmw, tbl, served>>,
         \A g \in Builders : bmw'[g] >= bmw[g] /\ own'[g] >= own[g]
  PROVE  GrowthInv'
<1>1. tbl # NoTable => tbl.of \in Builders /\ tbl.builder \in Nat
  BY DEF IInv, TypeOK, Table
<1>2. \A g \in Builders : /\ bmw[g] \in Nat /\ own[g] \in Nat
                          /\ bmw'[g] \in Nat /\ own'[g] \in Nat
  BY DEF IInv, TypeOK
<1>3. \A g \in Builders, r \in Routes : served[g][r] # NoChain =>
        served[g][r].builder \in Nat /\ served[g][r].group \in Nat
  BY DEF IInv, TypeOK, Chain
<1> QED
  BY <1>1, <1>2, <1>3 DEF RInv, GrowthInv

(* Each group of actions keeps RInv.                                       *)
LEMMA GrowthStep ==
  ASSUME IInv, IInv', RInv, Refines, NEW p \in Procs,
         Begin(p) \/ Request(p) \/ SwapBegin(p) \/ Swap(p) \/ Registration(p)
  PROVE  GrowthInv'
<1> USE DEF RInv, GrowthInv
<1>1. CASE Begin(p) \/ SwapBegin(p) \/ LoadHit(p) \/ LoadMiss(p) \/ RecheckHit(p)
           \/ RecheckMiss(p) \/ CompileDone(p) \/ Find(p) \/ Reply(p)
  BY <1>1, SMTT(20) DEF Begin, SwapBegin, LoadHit, LoadMiss,
     RecheckHit, RecheckMiss, CompileDone, Find, Reply, Pin
<1>2. CASE CompileRoute(p)
  BY <1>2, SMTT(20) DEF IInv, TypeOK, WorkInv, Installing, CompileRoute, chainOf
<1>3. CASE InstallServe(p) \/ InstallSwap(p)
  BY <1>3, SMTT(20) DEF IInv, TypeOK, TableInv, WorkInv, Installing,
     InstallServe, InstallSwap, Table
<1>4. CASE SwapAccept(p) \/ SwapAdopt(p) \/ BuildHandle(p) \/ Obtain(p)
           \/ Handle(p) \/ Drop(p) \/ GroupHandle(p) \/ Invalidate(p)
  BY <1>4, SMTT(20) DEF SwapAccept, SwapAdopt, BuildHandle, Obtain, Handle,
     Drop, GroupHandle, Invalidate
<1>5. CASE BuildUse(p)
  <2>1. \A g \in Builders : bmw'[g] >= bmw[g] /\ own'[g] >= own[g]
    <3> TAKE g \in Builders
    <3>1. bmw[g] \in Nat /\ own[g] \in Nat
      BY DEF IInv, TypeOK
    <3>2. /\ bmw'[g] = bmw[g] \/ bmw'[g] = bmw[g] + 1
          /\ own'[g] = own[g] \/ own'[g] = own[g] + 1
      BY <1>5 DEF IInv, TypeOK, BuildUse
    <3> QED
      BY <3>1, <3>2
  <2>2. UNCHANGED <<rmw, tbl, served>>
    BY <1>5 DEF BuildUse
  <2> QED
    BY <2>1, <2>2, GrowthCarries DEF RInv
<1>6. CASE SwapReject(p)
  BY <1>6, SMTT(20) DEF IInv, TypeOK, WorkInv, TableInv, ServedInv, SwapReject
<1>7. CASE Use(p)
  BY <1>7, SMTT(20) DEF IInv, TypeOK, Table, Chain, Use
<1>8. CASE GroupUse(p) \/ BuilderUse(p)
  <2>1. \A g \in Builders : bmw'[g] >= bmw[g] /\ own'[g] >= own[g]
    <3> TAKE g \in Builders
    <3>1. bmw[g] \in Nat /\ own[g] \in Nat
      BY DEF IInv, TypeOK
    <3>2. /\ bmw'[g] = bmw[g] \/ bmw'[g] = bmw[g] + 1
          /\ own'[g] = own[g] \/ own'[g] = own[g] + 1
      BY <1>8 DEF IInv, TypeOK, GroupUse, BuilderUse
    <3> QED
      BY <3>1, <3>2
  <2>2. UNCHANGED <<rmw, tbl, served>>
    BY <1>8 DEF GroupUse, BuilderUse
  <2> QED
    BY <2>1, <2>2, GrowthCarries DEF RInv
<1>9. CASE CompilePanic(p)
  BY <1>9 DEF CompilePanic, Refines
<1> QED
  BY <1>1, <1>2, <1>3, <1>4, <1>5, <1>6, <1>7, <1>8, <1>9
     DEF Request, Swap, Registration

(* RInv is inductive.                                                      *)
LEMMA RInvStep ==
  ASSUME IInv, IInv', RInv, Refines, [Next]_vars
  PROVE  RInv'
<1>1. CASE Next
  BY <1>1, PromiseStep, InForceStep, GrowthStep DEF Next, RInv
<1>2. CASE UNCHANGED vars
  BY <1>2 DEF RInv, PromiseInv, InForceInv, GrowthInv, Installing, vars
<1> QED
  BY <1>1, <1>2

(* With no panicking constructor, everything the refinement rests on holds *)
(* in every reachable state: requests hold promises only while they look   *)
(* up and answer, and the live table is never ahead of what is registered. *)
THEOREM RefinementInvariance ==
  ASSUME Refines
  PROVE  Spec => [](IInv /\ RInv)
<1>1. Init => IInv /\ RInv
  BY InitIInv, InitRInv
<1>2. IInv /\ RInv /\ [Next]_vars => IInv' /\ RInv'
  BY NextStep, RInvStep DEF Refines
<1> QED
  BY <1>1, <1>2, PTL DEF Spec

-----------------------------------------------------------------------------
(* The configuration in force *)

(* What the abstract configuration is read from.                           *)
LEMMA ConfigIsOne ==
  ASSUME IInv
  PROVE  Config \in View
<1>1. builder \in Builders
  BY ConstantsAssumption DEF IInv, TypeOK, builder
<1>2. chainOf(builder) \in Chain
  BY <1>1 DEF IInv, TypeOK, chainOf, Chain
<1>3. CASE tbl = NoTable
  BY <1>1, <1>2, <1>3 DEF IInv, TypeOK, Config, View
<1>4. CASE tbl # NoTable
  BY <1>4 DEF IInv, TypeOK, Config, View, Table
<1> QED
  BY <1>3, <1>4

(* A live table is proof that the router has its builder.                  *)
LEMMA LiveHasBuilder ==
  ASSUME IInv, RInv, tbl # NoTable
  PROVE  b \in Builders /\ builder = b
<1>1. b # NoBuilder
  BY ConstantsAssumption
     DEF IInv, TypeOK, WorkInv, RInv, InForceInv, Installing, Table
<1> QED
  BY <1>1 DEF IInv, TypeOK, builder

(* Creating the builder of a zero Router replaces nothing.                 *)
LEMMA ReplacedKept ==
  ASSUME IInv, RInv, Config'.of = Config.of,
         \/ b' = b /\ adopted' = adopted
         \/ b' = builder /\ adopted' = adopted \cup {builder}
  PROVE  Replaced' = Replaced
<1>1. CASE b' = b /\ adopted' = adopted
  BY <1>1 DEF Replaced
<1>2. CASE b' = builder /\ adopted' = adopted \cup {builder} /\ b # NoBuilder
  <2>1. builder = b /\ b \in adopted
    BY <1>2 DEF IInv, WorkInv, builder
  <2> QED
    BY <1>2, <2>1 DEF Replaced
<1>3. CASE b' = builder /\ adopted' = adopted \cup {builder} /\ b = NoBuilder
  <2>1. builder = First /\ Config.of = First
    BY <1>3, LiveHasBuilder, ConstantsAssumption DEF builder, Config
  <2>2. NoBuilder \notin adopted \cup {First}
    BY ConstantsAssumption DEF IInv, TypeOK
  <2> QED
    BY <1>3, <2>1, <2>2 DEF Replaced
<1> QED
  BY <1>1, <1>2, <1>3

(* Nothing a table or the next compile is made of has changed.             *)
LEMMA SameKept ==
  ASSUME IInv, RInv,
         UNCHANGED <<tbl, view, got>>,
         tbl # NoTable => served'[tbl.of] = served[tbl.of],
         tbl = NoTable => UNCHANGED <<rmw, bmw, own, entries>>,
         \/ b' = b /\ adopted' = adopted
         \/ b' = builder /\ adopted' = adopted \cup {builder}
  PROVE  Same
<1>1. builder' = builder
  BY DEF builder
<1>2. Config' = Config
  BY <1>1 DEF Config, chainOf
<1> QED
  BY <1>2, ReplacedKept DEF Same

-----------------------------------------------------------------------------
(* Steps that the atomic router does not see *)

(* Steps that leave the abstract state alone.                              *)
LEMMA QuietRequest ==
  ASSUME IInv, RInv, NEW p \in Procs,
         \/ Begin(p) \/ LoadMiss(p) \/ RecheckMiss(p)
         \/ CompileRoute(p) \/ CompileDone(p)
  PROVE  Same
<1>1. CASE Begin(p) \/ LoadMiss(p) \/ CompileDone(p)
  BY <1>1, SameKept DEF Begin, LoadMiss, CompileDone
<1>2. CASE RecheckMiss(p)
  BY <1>2, SameKept DEF RecheckMiss
<1>3. CASE CompileRoute(p)
  <2>1. Installing(p)
    BY <1>3 DEF CompileRoute, Installing
  <2>2. tbl # NoTable => tbl.of # work[p]
    BY <2>1 DEF IInv, JobInv, FreshInv
  <2>3. tbl # NoTable => served'[tbl.of] = served[tbl.of]
    BY <1>3, <2>2 DEF IInv, TypeOK, Table, CompileRoute
  <2> QED
    BY <1>3, <2>3, SameKept DEF CompileRoute
<1> QED
  BY <1>1, <1>2, <1>3

(* What a Swap callback does to its builder shows in no configuration.     *)
LEMMA QuietSwap ==
  ASSUME IInv, RInv, NEW p \in Procs,
         \/ SwapBegin(p) \/ BuildHandle(p) \/ BuildUse(p)
         \/ SwapReject(p) \/ SwapAccept(p)
  PROVE  Same
<1>1. CASE SwapBegin(p) \/ SwapAccept(p)
  BY <1>1, SameKept DEF SwapBegin, SwapAccept
<1>2. CASE BuildHandle(p) \/ BuildUse(p) \/ SwapReject(p)
  <2>1. builder \in Builders /\ builder \in adopted \cup {First}
    BY ConstantsAssumption DEF IInv, TypeOK, WorkInv, builder
  <2>2. work[p] # builder
    BY <1>2, <2>1 DEF IInv, WorkInv, BuildHandle, BuildUse, SwapReject
  <2>3. UNCHANGED <<tbl, view, got, rmw, served, b, adopted>>
    BY <1>2 DEF BuildHandle, BuildUse, SwapReject
  <2>4. /\ bmw'[builder] = bmw[builder] /\ own'[builder] = own[builder]
        /\ entries'[builder] = entries[builder]
    <3>1. CASE BuildHandle(p)
      BY <3>1, <2>1, <2>2 DEF IInv, TypeOK, BuildHandle, Refuse, Register
    <3>2. CASE BuildUse(p)
      BY <3>2, <2>1, <2>2 DEF IInv, TypeOK, BuildUse
    <3>3. CASE SwapReject(p)
      BY <3>3, <2>1, <2>2 DEF IInv, TypeOK, SwapReject
    <3> QED
      BY <1>2, <3>1, <3>2, <3>3
  <2>5. builder' = builder
    BY <2>3 DEF builder
  <2>6. Config' = Config
    BY <2>3, <2>4, <2>5 DEF Config, chainOf
  <2> QED
    BY <2>3, <2>6, ReplacedKept DEF Same
<1> QED
  BY <1>1, <1>2

(* A table compiled from the registrations as they are is the              *)
(* configuration already in force: publishing it shows nothing.            *)
LEMMA CompiledIsInForce ==
  ASSUME IInv, NEW p \in Procs, pc[p] = "install", tbl = NoTable
  PROVE  /\ work[p] = builder /\ builder = b /\ b \in adopted
         /\ tab[p] # NoTable
         /\ Config = [of |-> work[p], router |-> tab[p].router,
                      builder |-> tab[p].builder, chains |-> served[work[p]]]
<1>1. work[p] = b /\ b \in adopted /\ b \in Builders /\ builder = b
  BY DEF IInv, TypeOK, WorkInv, Installing, builder
<1>2. tab[p] = [of |-> b, router |-> rmw, builder |-> bmw[b]]
  BY <1>1 DEF IInv, TableInv
<1>3. tab[p] # NoTable
  BY <1>1, <1>2, SentinelAssumption DEF IInv, TypeOK, Table
<1>4. \A r \in Routes :
        served[b][r] = IF r \in entries[b] THEN chainOf(b) ELSE NoChain
  BY <1>1 DEF IInv, CompileInv, ServedInv, Installing
<1>5. served[b] = [r \in Routes |-> IF r \in entries[b] THEN chainOf(b) ELSE NoChain]
  BY <1>1, <1>4 DEF IInv, TypeOK
<1> QED
  BY <1>1, <1>2, <1>3, <1>5 DEF Config

(* What an installer publishes belongs to the builder it compiled.         *)
LEMMA CompiledTable ==
  ASSUME IInv, NEW p \in Procs, pc[p] = "install"
  PROVE  /\ tab[p] = [of |-> work[p], router |-> rmw, builder |-> bmw[work[p]]]
         /\ tab[p].of = work[p] /\ tab[p].router = rmw
         /\ tab[p].builder = bmw[work[p]]
<1>1. tab[p] = [of |-> work[p], router |-> rmw, builder |-> bmw[work[p]]]
  BY DEF IInv, TableInv
<1> QED
  BY <1>1

LEMMA QuietInstallSwap ==
  ASSUME IInv, RInv, NEW p \in Procs, InstallSwap(p), tbl = NoTable
  PROVE  Same
<1>1. pc[p] = "install" /\ tbl' = tab[p] /\ UNCHANGED <<b, adopted, served, view, got>>
  BY DEF InstallSwap
<1>2. tab[p].of = work[p]
  BY <1>1, CompiledTable
<1>3. Config' = Config
  BY <1>1, <1>2, CompiledIsInForce DEF Config
<1> QED
  BY <1>1, <1>3, ReplacedKept DEF Same

-----------------------------------------------------------------------------
(* Steps of a request *)

(* A request takes its table: the abstract look.                           *)
LEMMA LookStep ==
  ASSUME IInv, RInv, NEW p \in Procs,
         LoadHit(p) \/ RecheckHit(p) \/ InstallServe(p)
  PROVE  Abstract!Look(p)
<1>1. view[p] = NoView
  BY DEF RInv, PromiseInv, LoadHit, RecheckHit, InstallServe
<1>2. CASE LoadHit(p) \/ RecheckHit(p)
  <2>1. UNCHANGED <<rmw, b, tbl, bmw, own, entries, served, adopted, got>>
    BY <1>2 DEF LoadHit, RecheckHit, Pin
  <2>2. Config' = Config
    BY <2>1 DEF Config, chainOf, builder
  <2>3. view' = [view EXCEPT ![p] = Config]
    BY <1>2 DEF LoadHit, RecheckHit, Pin
  <2> QED
    BY <1>1, <2>1, <2>2, <2>3 DEF Abstract!Look
<1>3. CASE InstallServe(p)
  <2>1. /\ pc[p] = "install" /\ tbl' = tab[p]
        /\ UNCHANGED <<b, adopted, served, got>>
        /\ view' = [view EXCEPT ![p] =
             [of |-> work[p], router |-> tab[p].router,
              builder |-> tab[p].builder, chains |-> served[work[p]]]]
    BY <1>3 DEF InstallServe
  <2>2. tbl = NoTable
    BY <1>3 DEF IInv, FreshInv, Installing, InstallServe
  <2>3. tab[p].of = work[p]
    BY <2>1, CompiledTable
  <2>4. Config' = Config /\ view' = [view EXCEPT ![p] = Config]
    BY <2>1, <2>2, <2>3, CompiledIsInForce DEF Config
  <2> QED
    BY <1>1, <2>1, <2>4 DEF Abstract!Look
<1> QED
  BY <1>2, <1>3

(* A lookup answers from the maps of its table, which are still the ones   *)
(* it was promised.                                                        *)
LEMMA RespondStep ==
  ASSUME IInv, RInv, NEW p \in Procs, Find(p)
  PROVE  Abstract!Respond(p)
<1> DEFINE g == tab[p].of
<1>1. pc[p] = "find" /\ UNCHANGED <<rmw, b, tbl, bmw, own, entries, served, adopted, view>>
  BY DEF Find
<1>2. view[p] # NoView /\ got[p] = NoAnswer
  BY <1>1 DEF RInv, PromiseInv
<1>3. g \in Builders
  BY <1>1 DEF IInv, TypeOK, TableInv, Table
<1>4. view[p] = [of |-> g, router |-> tab[p].router,
                 builder |-> tab[p].builder, chains |-> served[g]]
  BY <1>1 DEF IInv, ViewInv
<1>5. /\ view[p].chains = served[g] /\ view[p].router = tab[p].router
      /\ view[p].builder = tab[p].builder
  BY <1>4
<1>6. \A r \in Routes : r \in entries[g] <=> served[g][r] # NoChain
  BY <1>1, <1>3 DEF IInv, NoNilHandler, ServedInv
<1>7. PICK r \in Routes : got' = [got EXCEPT ![p] =
              IF r \in entries[g]
              THEN [route |-> r, hit |-> TRUE, chain |-> served[g][r]]
              ELSE [route |-> r, hit |-> FALSE,
                    chain |-> [router |-> tab[p].router,
                               builder |-> tab[p].builder, group |-> 0]]]
  BY DEF Find
<1>8. got' = [got EXCEPT ![p] = Abstract!AnswerTo(view[p], r)]
  BY <1>5, <1>6, <1>7 DEF Abstract!AnswerTo
<1>9. Config' = Config
  BY <1>1 DEF Config, chainOf, builder
<1> QED
  BY <1>1, <1>2, <1>8, <1>9 DEF Abstract!Respond

(* The abstract answer.                                                    *)
LEMMA FinishStep ==
  ASSUME IInv, RInv, NEW p \in Procs, Reply(p)
  PROVE  Abstract!Finish(p)
<1>1. got[p] # NoAnswer
  BY DEF RInv, PromiseInv, Reply
<1>2. Config' = Config
  BY DEF Reply, Config, chainOf, builder
<1> QED
  BY <1>1, <1>2 DEF Reply, Abstract!Finish

-----------------------------------------------------------------------------
(* Steps that reconfigure *)

LEMMA Computed ==
  ASSUME IInv, tbl = NoTable
  PROVE  /\ Config.of = builder /\ Config.router = rmw
         /\ Config.builder = bmw[builder]
         /\ \A r \in Routes : Config.chains[r] =
              IF r \in entries[builder] THEN chainOf(builder) ELSE NoChain
  BY DEF Config

LEMMA Live ==
  ASSUME tbl # NoTable
  PROVE  /\ Config.of = tbl.of /\ Config.router = tbl.router
         /\ Config.builder = tbl.builder /\ Config.chains = served[tbl.of]
  BY DEF Config

(* What the next request would compile covers every route alike.           *)
LEMMA ComputedIsUniform == IInv /\ tbl = NoTable => Abstract!Uniform(Config)
<1> SUFFICES ASSUME IInv, tbl = NoTable
             PROVE  Abstract!Uniform(Config)
  OBVIOUS
<1>1. chainOf(builder).router = rmw /\ chainOf(builder).builder = bmw[builder]
  BY DEF chainOf
<1> QED
  BY <1>1, Computed DEF Abstract!Uniform

LEMMA ConfigIsAbstract == IInv => Config \in Abstract!Configs
  BY ConfigIsOne DEF View, Chain, Abstract!Configs, Abstract!Chain

(* With no table, a registration on the current builder is a growth of the *)
(* configuration the next request compiles.                                *)
LEMMA GrowStep ==
  ASSUME IInv, IInv', RInv, tbl = NoTable, UNCHANGED <<tbl, view, got>>,
         \/ b' = b /\ adopted' = adopted
         \/ b' = builder /\ adopted' = adopted \cup {builder},
         rmw' >= rmw, bmw'[builder] >= bmw[builder], own'[builder] >= own[builder],
         entries[builder] \subseteq entries'[builder]
  PROVE  Abstract!Reconfigure
<1>1. builder' = builder /\ builder \in Builders
  BY ConstantsAssumption DEF IInv, TypeOK, builder
<1>2. (tbl = NoTable)'
  OBVIOUS
<1>3. /\ Config'.of = builder /\ Config'.router = rmw'
      /\ Config'.builder = bmw'[builder]
      /\ \A r \in Routes : Config'.chains[r] =
           IF r \in entries'[builder]
           THEN [router |-> rmw', builder |-> bmw'[builder], group |-> own'[builder]]
           ELSE NoChain
  BY <1>1, <1>2 DEF Config, chainOf
<1>4. \A r \in entries'[builder] : r \in Routes
  BY <1>1 DEF IInv, TypeOK
<1>5. [router |-> rmw', builder |-> bmw'[builder], group |-> own'[builder]] # NoChain
  <2>1. rmw' \in Nat /\ bmw'[builder] \in Nat /\ own'[builder] \in Nat
    BY <1>1 DEF IInv, TypeOK
  <2> QED
    BY <2>1, SentinelAssumption DEF Chain
<1>6. Abstract!Grow(Config, Config')
  BY <1>3, <1>5, Computed DEF Abstract!Grow, chainOf
<1>7. (Config \in Abstract!Configs)' /\ (Abstract!Uniform(Config))'
  BY <1>2, ConfigIsAbstract, ComputedIsUniform, PTL
<1>8. Replaced' = Replaced
  BY <1>3, Computed, ReplacedKept
<1> QED
  BY <1>6, <1>7, <1>8 DEF Abstract!Reconfigure, Replaced

(* Registration on the live router, table or no table: what it changes     *)
(* shows in the configuration only where the table is not there.           *)
LEMMA RegisterStep ==
  ASSUME IInv, IInv', RInv, NEW p \in Procs,
         \/ Use(p) \/ Obtain(p) \/ Handle(p)
         \/ GroupHandle(p) \/ GroupUse(p) \/ BuilderUse(p)
  PROVE  Same \/ Abstract!Reconfigure
<1>1. /\ UNCHANGED <<tbl, served, view, got>>
      /\ \/ b' = b /\ adopted' = adopted
         \/ b' = builder /\ adopted' = adopted \cup {builder}
  BY DEF Use, Obtain, Handle, GroupHandle, GroupUse, BuilderUse
<1>2. CASE tbl # NoTable
  BY <1>1, <1>2, SameKept
<1>3. CASE tbl = NoTable
  <2>1. builder \in Builders
    BY ConstantsAssumption DEF IInv, TypeOK, builder
  <2>2. rmw \in Nat /\ bmw[builder] \in Nat /\ own[builder] \in Nat
    BY <2>1 DEF IInv, TypeOK
  <2>3. rmw' = rmw \/ rmw' = rmw + 1
    BY DEF Use, Obtain, Handle, GroupHandle, GroupUse, BuilderUse
  <2>4. bmw'[builder] = bmw[builder] \/ bmw'[builder] = bmw[builder] + 1
    BY <2>1 DEF IInv, TypeOK, Use, Obtain, Handle, GroupHandle, GroupUse, BuilderUse
  <2>5. own'[builder] = own[builder] \/ own'[builder] = own[builder] + 1
    BY <2>1 DEF IInv, TypeOK, Use, Obtain, Handle, GroupHandle, GroupUse, BuilderUse
  <2>6. entries[builder] \subseteq entries'[builder]
    BY <2>1, RegistrationGrows DEF IInv, Use, Obtain, Handle, GroupHandle,
       GroupUse, BuilderUse
  <2>7. rmw' >= rmw /\ bmw'[builder] >= bmw[builder] /\ own'[builder] >= own[builder]
    BY <2>2, <2>3, <2>4, <2>5
  <2> QED
    BY <1>1, <1>3, <2>6, <2>7, GrowStep
<1> QED
  BY <1>2, <1>3

(* Giving up the live table shows what was registered since it was         *)
(* compiled; when a Swap is compiling, it shows the builder that Swap has  *)
(* adopted.                                                                *)
LEMMA DropStepsOn ==
  ASSUME IInv, IInv', RInv, NEW p \in Procs, Drop(p) \/ Invalidate(p)
  PROVE  Same \/ Abstract!Reconfigure
<1>1. /\ tbl' = NoTable
      /\ UNCHANGED <<rmw, b, bmw, own, entries, served, adopted, view, got>>
  BY DEF Drop, Invalidate
<1>2. CASE tbl = NoTable
  BY <1>1, <1>2, SameKept
<1>3. CASE tbl # NoTable
  <2>1. b \in Builders /\ builder = b /\ builder' = b
    BY <1>1, <1>3, LiveHasBuilder DEF builder
  <2>2. /\ Config'.of = b /\ Config'.router = rmw /\ Config'.builder = bmw[b]
        /\ \A r \in Routes : Config'.chains[r] =
             IF r \in entries[b] THEN chainOf(b) ELSE NoChain
    BY <1>1, <2>1 DEF Config, chainOf
  <2>3. (Config \in Abstract!Configs)' /\ (Abstract!Uniform(Config))'
    <3>1. (tbl = NoTable)'
      BY <1>1
    <3> QED
      BY <3>1, ConfigIsAbstract, ComputedIsUniform, PTL
  <2>4. CASE tbl.of = b
    <3>1. rmw >= tbl.router /\ bmw[b] >= tbl.builder
      BY <1>3, <2>1, <2>4 DEF RInv, GrowthInv, IInv, TypeOK, Table
    <3>2. \A r \in Routes : served[b][r] # NoChain =>
            /\ r \in entries[b]
            /\ rmw >= served[b][r].router /\ bmw[b] >= served[b][r].builder
            /\ own[b] >= served[b][r].group
      BY <2>1 DEF RInv, GrowthInv, IInv, ServedInv, TypeOK, Chain
    <3>3. /\ chainOf(b).router = rmw /\ chainOf(b).builder = bmw[b]
          /\ chainOf(b).group = own[b] /\ chainOf(b) # NoChain
      BY <2>1, ChainOfIsChain DEF IInv, chainOf
    <3>4. Abstract!Grow(Config, Config')
      BY <1>3, <2>2, <2>4, <3>1, <3>2, <3>3, Live DEF Abstract!Grow
    <3>5. Replaced' = Replaced
      BY <1>1, <1>3, <2>2, <2>4, Live, ReplacedKept
    <3> QED
      BY <1>1, <2>3, <3>4, <3>5 DEF Abstract!Reconfigure, Replaced
  <2>5. CASE tbl.of # b
    <3>1. PICK q \in Procs : Installing(q) /\ job[q] = "swap"
      BY <1>3, <2>5 DEF RInv, InForceInv
    <3>2. \A s \in Procs : pc[s] # "drop"
      BY <3>1 DEF IInv, LockInv, Installing
    <3>3. tbl.router = rmw
      BY <1>3, <3>2 DEF RInv, InForceInv
    <3>4. tbl.of \in adopted
      BY <1>3 DEF IInv, TableInv
    <3>5. Replaced' = Replaced \cup {Config.of} /\ b \notin Replaced
      BY <1>1, <1>3, <2>2, <2>5, <3>4, Live DEF Replaced
    <3>6. Abstract!Replace(Config, Config')
      BY <1>3, <2>2, <2>5, <3>3, <3>5, Live DEF Abstract!Replace, Replaced
    <3> QED
      BY <1>1, <2>3, <3>5, <3>6 DEF Abstract!Reconfigure, Replaced
  <2> QED
    BY <2>4, <2>5
<1> QED
  BY <1>2, <1>3

(* Swap replaces the configuration as soon as it adopts the new builder if *)
(* there is no table to go on serving from ...                             *)
LEMMA SwapAdoptStepsOn ==
  ASSUME IInv, IInv', RInv, NEW p \in Procs, SwapAdopt(p)
  PROVE  Same \/ Abstract!Reconfigure
<1>1. /\ b' = work[p] /\ adopted' = adopted \cup {work[p]}
      /\ work[p] \in Builders \ (adopted \cup {First})
      /\ UNCHANGED <<rmw, tbl, bmw, own, entries, served, view, got>>
  BY DEF IInv, WorkInv, SwapAdopt
<1>2. b \in adopted \cup {NoBuilder} /\ NoBuilder \notin adopted \cup {First}
  BY ConstantsAssumption DEF IInv, TypeOK, WorkInv
<1>3. CASE tbl # NoTable
  <2>1. tbl.of = b
    <3>1. \A q \in Procs : ~Installing(q)
      BY ConstantsAssumption DEF IInv, LockInv, SwapAdopt, Installing
    <3> QED
      BY <1>3, <3>1 DEF RInv, InForceInv
  <2>2. Config' = Config
    BY <1>1, <1>3 DEF Config
  <2>3. Replaced' = Replaced
    BY <1>1, <1>2, <1>3, <2>1, <2>2, Live DEF Replaced
  <2> QED
    BY <1>1, <2>2, <2>3 DEF Same
<1>4. CASE tbl = NoTable
  <2>1. builder' = work[p] /\ builder \in adopted \cup {First}
    BY <1>1, <1>2, ConstantsAssumption DEF builder
  <2>2. Config'.of = work[p] /\ Config'.router = rmw
    BY <1>1, <1>4, <2>1 DEF Config
  <2>3. (Config \in Abstract!Configs)' /\ (Abstract!Uniform(Config))'
    <3>1. (tbl = NoTable)'
      BY <1>1, <1>4
    <3> QED
      BY <3>1, ConfigIsAbstract, ComputedIsUniform, PTL
  <2>4. Abstract!Replace(Config, Config')
    BY <1>1, <1>4, <2>1, <2>2, Computed DEF Abstract!Replace, Replaced
  <2>5. b = builder \/ b = NoBuilder
    BY DEF builder
  <2>6. Replaced' = Replaced \cup {Config.of}
    BY <1>1, <1>2, <1>4, <2>1, <2>2, <2>5, Computed DEF Replaced
  <2> QED
    BY <1>1, <2>3, <2>4, <2>6 DEF Abstract!Reconfigure, Replaced
<1> QED
  BY <1>3, <1>4

(* ... and otherwise when it installs the table compiled from it.          *)
LEMMA InstallSwapStepsOn ==
  ASSUME IInv, IInv', RInv, NEW p \in Procs, InstallSwap(p)
  PROVE  Same \/ Abstract!Reconfigure
<1>1. /\ pc[p] = "install" /\ job[p] = "swap" /\ tbl' = tab[p]
      /\ UNCHANGED <<rmw, b, bmw, own, entries, served, adopted, view, got>>
  BY DEF InstallSwap
<1>2. CASE tbl = NoTable
  BY <1>2, QuietInstallSwap
<1>3. CASE tbl # NoTable
  <2>1. Installing(p) /\ work[p] = b /\ b \in adopted /\ b \in Builders
    BY <1>1 DEF IInv, TypeOK, WorkInv, Installing
  <2>2. tbl.of # b /\ tbl.of \in adopted
    BY <1>1, <1>3, <2>1 DEF IInv, FreshInv, TableInv
  <2>3. tbl.router = rmw
    <3>1. \A q \in Procs : pc[q] # "drop"
      BY <1>1 DEF IInv, LockInv
    <3> QED
      BY <1>3, <3>1 DEF RInv, InForceInv
  <2>4. tab[p] # NoTable
    BY <1>1, <2>1, CompiledTable, SentinelAssumption DEF IInv, TypeOK, Table
  <2>5. /\ Config'.of = b /\ Config'.router = rmw
        /\ Config'.builder = bmw[b] /\ Config'.chains = served[b]
    BY <1>1, <2>1, <2>4, CompiledTable DEF Config
  <2>6. (Config \in Abstract!Configs)'
    BY ConfigIsAbstract, PTL
  <2>7. Abstract!Uniform(Config')
    <3>1. \A r \in Routes : served[b][r] # NoChain => served[b][r] = chainOf(b)
      BY <1>1, <2>1 DEF IInv, ServedInv, CompileInv
    <3>2. chainOf(b).router = rmw /\ chainOf(b).builder = bmw[b]
      BY DEF chainOf
    <3> QED
      BY <2>5, <3>1, <3>2 DEF Abstract!Uniform
  <2>8. Replaced' = Replaced \cup {Config.of} /\ b \notin Replaced
    BY <1>1, <1>3, <2>2, <2>5, Live DEF Replaced
  <2>9. Abstract!Replace(Config, Config')
    BY <1>3, <2>2, <2>3, <2>5, <2>8, Live DEF Abstract!Replace, Replaced
  <2> QED
    BY <1>1, <2>6, <2>7, <2>8, <2>9 DEF Abstract!Reconfigure, Replaced
<1> QED
  BY <1>2, <1>3

-----------------------------------------------------------------------------
(* Theorems *)

(* Initial states map to initial states.                                   *)
LEMMA AbstractInit ==
  ASSUME Init
  PROVE  Abstract!Init
<1>1. builder \in Builders /\ tbl = NoTable
  BY ConstantsAssumption DEF Init, builder
<1>2. Config = [of |-> builder, router |-> 0, builder |-> 0,
                chains |-> [r \in Routes |-> NoChain]]
  BY <1>1 DEF Init, Config
<1>3. Config.of = builder
  BY <1>2
<1>4. Replaced = {}
  BY <1>3, ConstantsAssumption DEF Init, builder, Replaced
<1> QED
  BY <1>1, <1>2, <1>4 DEF Init, Abstract!Init, Replaced

(* Every step maps to a step of AtomicRouter or to none.                   *)
LEMMA AbstractNext ==
  ASSUME IInv, IInv', RInv, Refines, [Next]_vars
  PROVE  [Abstract!Next]_(Abstract!vars)
<1>1. Same => UNCHANGED Abstract!vars
  BY DEF Same, Abstract!vars, Replaced
<1>2. CASE Next
  <2> PICK p \in Procs :
        Begin(p) \/ Request(p) \/ SwapBegin(p) \/ Swap(p) \/ Registration(p)
    BY <1>2 DEF Next
  <2>1. CASE Begin(p) \/ LoadMiss(p) \/ RecheckMiss(p) \/ CompileRoute(p)
             \/ CompileDone(p)
    BY <1>1, <2>1, QuietRequest
  <2>2. CASE SwapBegin(p) \/ BuildHandle(p) \/ BuildUse(p) \/ SwapReject(p)
             \/ SwapAccept(p)
    BY <1>1, <2>2, QuietSwap
  <2>3. CASE LoadHit(p) \/ RecheckHit(p) \/ InstallServe(p)
    BY <2>3, LookStep DEF Abstract!Next
  <2>4. CASE Find(p)
    BY <2>4, RespondStep DEF Abstract!Next
  <2>5. CASE Reply(p)
    BY <2>5, FinishStep DEF Abstract!Next
  <2>6. CASE Use(p) \/ Obtain(p) \/ Handle(p) \/ GroupHandle(p) \/ GroupUse(p)
             \/ BuilderUse(p)
    BY <1>1, <2>6, RegisterStep DEF Abstract!Next
  <2>7. CASE Drop(p) \/ Invalidate(p)
    BY <1>1, <2>7, DropStepsOn DEF Abstract!Next
  <2>8. CASE SwapAdopt(p)
    BY <1>1, <2>8, SwapAdoptStepsOn DEF Abstract!Next
  <2>9. CASE InstallSwap(p)
    BY <1>1, <2>9, InstallSwapStepsOn DEF Abstract!Next
  <2>10. CASE CompilePanic(p)
    BY <2>10 DEF CompilePanic, Refines
  <2> QED
    BY <2>1, <2>2, <2>3, <2>4, <2>5, <2>6, <2>7, <2>8, <2>9, <2>10
       DEF Request, Swap, Registration
<1>3. CASE UNCHANGED vars
  <2>1. Config' = Config
    BY <1>3 DEF vars, Config, chainOf, builder
  <2> QED
    BY <1>3, <2>1 DEF vars, Abstract!vars
<1> QED
  BY <1>2, <1>3

(* The router with its mutex, its atomic pointer and the chain maps its    *)
(* tables share is a router that changes its whole configuration in single *)
(* steps and answers each request from the one it looked at, if            *)
(* registration keeps to its documented use and no middleware constructor  *)
(* panics: a Swap is atomic to requests, a registration only adds, and     *)
(* middleware covers all routes of a configuration alike.                  *)
THEOREM RouterIsAtomic ==
  ASSUME Refines
  PROVE  Spec => ImplementsAtomicRouter
<1>1. Init => Abstract!Init
  BY AbstractInit
<1>2. IInv /\ IInv' /\ RInv /\ [Next]_vars => [Abstract!Next]_(Abstract!vars)
  BY AbstractNext
<1> QED
  BY <1>1, <1>2, RefinementInvariance, PTL DEF Spec, ImplementsAtomicRouter, Abstract!Spec
=============================================================================
