-------------------------- MODULE ConfigDaemon_proof --------------------------
(***************************************************************************)
(* Proofs about ConfigDaemon, for any number of plugins.                   *)
(***************************************************************************)
EXTENDS ConfigDaemon, TLAPS

Ran == {"success", "other"}

(* What each place of the main thread says of the plugins, ...              *)
PluginInv ==
    /\ \A p \in Plugins \ Made : state[p] = "made"
    /\ pc = "start" => created = 0
    /\ pc = "initialize" =>
          \A p \in Made : state[p] = IF p < next THEN "initialized" ELSE "made"
    /\ pc = "run" =>
          \A p \in Made : IF p < next THEN state[p] \in Ran ELSE state[p] = "initialized"
    /\ pc = "plugin" =>
          /\ next \in Made /\ state[next] = "running"
          /\ \A p \in Made \ {next} :
                IF p < next THEN state[p] \in Ran ELSE state[p] = "initialized"
    /\ pc = "serving" => \A p \in Made : state[p] \in Ran
    /\ pc = "unwind" =>
          \A p \in Made : IF p < next THEN state[p] = "deinitialized"
                          ELSE state[p] # "made" /\ state[p] # "deinitialized"
    /\ pc \in {"destroy", "destroyRest", "done"} =>
          \A p \in Made : state[p] \in {"made", "initialized", "deinitialized"}

(* ... and of the service.                                                  *)
ServiceInv ==
    /\ pc \in {"start", "initialize"} => holding = {} /\ service = "none"
    /\ pc \in {"run", "plugin"} => service = "created"
    /\ pc = "serving" => service \in {"created", "offered"}
    /\ pc = "unwind" => service \in {"created", "withdrawn"}
    /\ pc = "destroy" => service # "offered" /\ (holding # {} => service # "none")
    /\ pc \in {"destroyRest", "done"} => holding = {} /\ service # "offered"

IInv == TypeOK /\ PluginInv /\ ServiceInv

USE CreatorsAssumption

(* The first plugin is one, or lies just behind the last.                   *)
LEMMA FirstInBounds ==
    \A n \in {0, NumCreators} : n \in 0..NumCreators /\ 1 \in 1..(n + 1)
OBVIOUS

(* The invariant holds of the application before it is initialised.         *)
LEMMA InitInv == Init => IInv
<1> SUFFICES ASSUME Init PROVE IInv
  OBVIOUS
<1> USE DEF Init, Plugins, Made
<1>1. TypeOK
  <2>1. created \in 0..NumCreators /\ next \in 1..(created + 1)
    OBVIOUS
  <2>2. state \in [Plugins -> {"made", "initialized", "running", "success",
                              "failure", "other", "deinitialized"}]
    OBVIOUS
  <2> QED
    BY <2>1, <2>2 DEF TypeOK
<1>2. PluginInv
  BY DEF PluginInv
<1>3. ServiceInv
  BY DEF ServiceInv
<1> QED
  BY <1>1, <1>2, <1>3 DEF IInv

(* Initialize keeps it: the plugins before next are initialised.            *)
LEMMA InitializeKeepsInv == IInv /\ Initialize => IInv'
<1> SUFFICES ASSUME IInv, Initialize PROVE IInv'
  OBVIOUS
<1> USE DEF IInv, Plugins, Made, Leave, Proceed, Becomes
<1>1. CASE NoCollector
  <2>1. TypeOK'
    BY <1>1 DEF NoCollector, TypeOK
  <2>2. PluginInv'
    BY <1>1 DEF NoCollector, TypeOK, PluginInv
  <2>3. ServiceInv'
    BY <1>1 DEF NoCollector, ServiceInv
  <2> QED
    BY <2>1, <2>2, <2>3
<1>2. CASE PreparePlugins
  <2>1. TypeOK'
    <3>1. created' \in 0..NumCreators /\ next' \in 1..(created' + 1)
      <4>1. created' \in {0, NumCreators} /\ next' = 1
        BY <1>2 DEF PreparePlugins
      <4> QED
        BY <4>1, FirstInBounds
    <3> QED
      BY <1>2, <3>1 DEF PreparePlugins, TypeOK
  <2>2. PluginInv'
    BY <1>2 DEF PreparePlugins, TypeOK, PluginInv
  <2>3. ServiceInv'
    BY <1>2 DEF PreparePlugins, ServiceInv
  <2> QED
    BY <2>1, <2>2, <2>3
<1>3. CASE InitializePlugin
  <2>1. TypeOK'
    BY <1>3 DEF InitializePlugin, TypeOK
  <2>2. PluginInv'
    BY <1>3 DEF InitializePlugin, TypeOK, PluginInv
  <2>3. ServiceInv'
    BY <1>3 DEF InitializePlugin, ServiceInv
  <2> QED
    BY <2>1, <2>2, <2>3
<1>4. CASE InitializeFails
  <2>1. TypeOK'
    BY <1>4 DEF InitializeFails, TypeOK
  <2>2. PluginInv'
    BY <1>4 DEF InitializeFails, TypeOK, PluginInv
  <2>3. ServiceInv'
    BY <1>4 DEF InitializeFails, ServiceInv
  <2> QED
    BY <2>1, <2>2, <2>3
<1>5. CASE CreateService
  <2>1. TypeOK'
    BY <1>5 DEF CreateService, TypeOK
  <2>2. PluginInv'
    BY <1>5 DEF CreateService, TypeOK, PluginInv
  <2>3. ServiceInv'
    BY <1>5 DEF CreateService, ServiceInv
  <2> QED
    BY <2>1, <2>2, <2>3
<1> QED
  BY <1>1, <1>2, <1>3, <1>4, <1>5 DEF Initialize

(* Run keeps it: the plugins before next have been run, on the way out they *)
(* are deinitialised.                                                       *)
LEMMA RunKeepsInv == IInv /\ Run => IInv'
<1> SUFFICES ASSUME IInv, Run PROVE IInv'
  OBVIOUS
<1> USE DEF IInv, TypeOK, PluginInv, ServiceInv, Plugins, Made, Leave, Proceed,
            Becomes, Ran
<1>1. CASE RunPlugin
  <2>1. SendersMade
    BY <1>1 DEF RunPlugin, SendersMade, CreateInitialQualifierStateSender,
                CreateLastUpdatedParameterSetSender
  <2>2. /\ pc = "run" /\ next \in 1..created /\ pc' = "plugin"
        /\ state' = [state EXCEPT ![next] = "running"] /\ holding' = holding \cup {next}
        /\ UNCHANGED <<created, next, service, stop, code>>
    BY <1>1, <2>1 DEF RunPlugin
  <2> QED
    BY <2>2
<1>2. CASE StartServices
  BY <1>2 DEF StartServices
<1>3. CASE StopServices
  BY <1>3 DEF StopServices, WayOut
<1>4. ASSUME NEW result \in {"success", "failure", "other"}, PluginReturns(result)
      PROVE  IInv'
  <2>1. CASE IsFailure(result)
    BY <1>4, <2>1 DEF PluginReturns, IsFailure, WayOut
  <2>2. CASE ~IsFailure(result)
    BY <1>4, <2>2 DEF PluginReturns, IsFailure
  <2> QED
    BY <2>1, <2>2
<1>5. CASE Deinitialize
  BY <1>5 DEF Deinitialize
<1>6. CASE Unwound
  BY <1>6 DEF Unwound
<1> QED
  BY <1>1, <1>2, <1>3, <1>4, <1>5, <1>6 DEF Run

(* The destruction, the stop and steps that change nothing keep it.         *)
LEMMA OthersKeepInv ==
    IInv /\ (Destroy \/ DestroyRest \/ StopRequested \/ UNCHANGED vars) => IInv'
<1> SUFFICES ASSUME IInv, Destroy \/ DestroyRest \/ StopRequested \/ UNCHANGED vars
             PROVE  IInv'
  OBVIOUS
<1> USE DEF IInv, TypeOK, PluginInv, ServiceInv, Plugins, Made, Leave, Proceed
<1>1. CASE Destroy
  BY <1>1 DEF Destroy, FirstDestroyed
<1>2. CASE DestroyRest
  BY <1>2 DEF DestroyRest
<1>3. CASE StopRequested
  BY <1>3 DEF StopRequested
<1>4. CASE UNCHANGED vars
  BY <1>4 DEF vars
<1> QED
  BY <1>1, <1>2, <1>3, <1>4

(* The inductive invariant holds in every reachable state.                  *)
THEOREM DInvariance == Spec => []IInv
<1>1. IInv /\ [Next]_vars => IInv'
  BY InitializeKeepsInv, RunKeepsInv, OthersKeepInv DEF Next, Main
<1> QED
  BY InitInv, <1>1, PTL DEF Spec

-----------------------------------------------------------------------------
(* Every variable keeps its type.                                           *)
THEOREM DTypeCorrect == Spec => []TypeOK
<1>1. IInv => TypeOK
  BY DEF IInv
<1> QED
  BY DInvariance, <1>1, PTL

(* The service is only offered while the data model is populated.           *)
THEOREM OnlyPopulatedIsOffered == Spec => []OfferedIsPopulated
<1>1. IInv => OfferedIsPopulated
  BY DEF IInv, TypeOK, PluginInv, ServiceInv, OfferedIsPopulated, Made, Ran
<1> QED
  BY DInvariance, <1>1, PTL

(* Every plugin that was run is deinitialised.                              *)
THEOREM RunsAreCleanedUp == Spec => []EveryRunIsCleanedUp
<1>1. IInv => EveryRunIsCleanedUp
  BY DEF IInv, PluginInv, EveryRunIsCleanedUp, Plugins, Made
<1> QED
  BY DInvariance, <1>1, PTL

(* The service outlives the plugins that may use it.                        *)
THEOREM ServiceOutlivesSenders == Spec => []SendersHaveService
<1>1. IInv => SendersHaveService
  BY DEF IInv, TypeOK, ServiceInv, SendersHaveService
<1> QED
  BY DInvariance, <1>1, PTL

(* The calls of a plugin come in their order.                               *)
THEOREM ProtocolIsKept == Spec => PluginProtocol
<1> DEFINE Kept == \A p \in Plugins :
              /\ state'[p] = "running" => state[p] \in {"initialized", "running"}
              /\ state'[p] = "deinitialized" => state[p] # "made"
              /\ state[p] = "deinitialized" => state'[p] = "deinitialized"
<1>1. IInv /\ [Next]_vars => [Kept]_state
  <2> SUFFICES ASSUME IInv, [Next]_vars, state' # state PROVE Kept
    OBVIOUS
  <2> USE DEF IInv, TypeOK, PluginInv, Plugins, Made, Becomes
  <2>1. CASE InitializePlugin
    BY <2>1 DEF InitializePlugin
  <2>2. CASE RunPlugin
    BY <2>2 DEF RunPlugin, Leave
  <2>3. ASSUME NEW result \in {"success", "failure", "other"}, PluginReturns(result)
        PROVE  Kept
    <3>1. state' = [state EXCEPT ![next] = result] /\ pc = "plugin"
      BY <2>3 DEF PluginReturns
    <3>2. state[next] # "deinitialized"
      BY <3>1
    <3> QED
      BY <3>1, <3>2
  <2>4. CASE Deinitialize
    BY <2>4 DEF Deinitialize
  <2> QED
    BY <2>1, <2>2, <2>3, <2>4
       DEF vars, Next, Main, Initialize, Run, NoCollector, PreparePlugins,
           InitializeFails, CreateService, StartServices, StopServices, Unwound,
           Destroy, DestroyRest, StopRequested
<1> QED
  BY DInvariance, <1>1, PTL DEF Spec, PluginProtocol

-----------------------------------------------------------------------------
(***************************************************************************)
(* The application lives as DaemonLife says.                               *)
(***************************************************************************)

(* What was returned and what is still to be deinitialised on the way out.  *)
EndInv ==
    /\ pc \in {"unwind", "destroy", "destroyRest", "done"} => code # "none"
    /\ pc = "unwind" =>
          \A p \in Made : p >= next => state[p] \in Ran \cup {"initialized", "failure"}
    /\ pc \in {"destroy", "destroyRest"} =>
          service = "none" \/ \A p \in Made : state[p] = "deinitialized"

LEMMA InitEndInv == Init => EndInv
BY DEF Init, EndInv, Made

(* Every step keeps it.                                                     *)
LEMMA StepKeepsEndInv == IInv /\ EndInv /\ [Next]_vars => EndInv'
<1> SUFFICES ASSUME IInv, EndInv, [Next]_vars PROVE EndInv'
  OBVIOUS
<1> USE DEF IInv, TypeOK, PluginInv, ServiceInv, EndInv, Plugins, Made, Leave, Proceed,
            Becomes, Ran
<1>1. CASE NoCollector \/ InitializeFails
  BY <1>1 DEF NoCollector, InitializeFails
<1>2. CASE PreparePlugins \/ InitializePlugin
  BY <1>2 DEF PreparePlugins, InitializePlugin
<1>3. CASE CreateService
  BY <1>3 DEF CreateService
<1>4. CASE RunPlugin
  <2>1. SendersMade
    BY <1>4 DEF RunPlugin, SendersMade, CreateInitialQualifierStateSender,
                CreateLastUpdatedParameterSetSender
  <2>2. pc' = "plugin"
    BY <1>4, <2>1 DEF RunPlugin
  <2> QED
    BY <2>2
<1>5. CASE StartServices \/ StopServices
  BY <1>5 DEF StartServices, StopServices, WayOut
<1>6. ASSUME NEW result \in {"success", "failure", "other"}, PluginReturns(result)
      PROVE  EndInv'
  <2>1. CASE IsFailure(result)
    BY <1>6, <2>1 DEF PluginReturns, IsFailure, WayOut
  <2>2. CASE ~IsFailure(result)
    BY <1>6, <2>2 DEF PluginReturns
  <2> QED
    BY <2>1, <2>2
<1>7. CASE Deinitialize
  BY <1>7 DEF Deinitialize
<1>8. CASE Unwound
  BY <1>8 DEF Unwound
<1>9. CASE Destroy \/ DestroyRest
  BY <1>9 DEF Destroy, DestroyRest, FirstDestroyed
<1>10. CASE StopRequested \/ UNCHANGED vars
  BY <1>10 DEF StopRequested, vars
<1> QED
  BY <1>1, <1>2, <1>3, <1>4, <1>5, <1>6, <1>7, <1>8, <1>9, <1>10
     DEF Next, Main, Initialize, Run

(* What the stages are called.                                              *)
LEMMA StageNames ==
    /\ StageOf["made"] = "made" /\ StageOf["initialized"] = "ready"
    /\ StageOf["running"] = "running" /\ StageOf["failure"] = "failed"
    /\ StageOf["success"] = "ran" /\ StageOf["other"] = "ran"
    /\ StageOf["deinitialized"] = "gone"
BY DEF StageOf

(* The stages of the plugins.                                               *)
Stages == [p \in Plugins |-> Stage(p)]

(* They stay when no plugin is made and none is called.                     *)
LEMMA StagesStay == UNCHANGED <<created, state>> => Stages' = Stages
BY StageNames DEF Stages, Stage, Made, Plugins

(* A call of a plugin that was made advances this one alone.                *)
LEMMA StageAdvances ==
    ASSUME TypeOK, created' = created, NEW q \in Made, NEW status,
           state' = [state EXCEPT ![q] = status]
    PROVE  /\ q \in Plugins
           /\ Stages' = [Stages EXCEPT ![q] = StageOf[status]]
           /\ Stages[q] = StageOf[state[q]]
<1>1. q \in Plugins /\ q \in Made'
  BY DEF TypeOK, Plugins, Made
<1>2. ASSUME NEW p \in Plugins, p # q PROVE Stage(p)' = Stage(p)
  <2>1. state'[p] = state[p] /\ (p \in Made' <=> p \in Made)
    BY <1>2 DEF TypeOK, Made
  <2> QED
    BY StageNames, <2>1 DEF Stage
<1>3. state'[q] = status
  BY <1>1 DEF TypeOK
<1>4. Stages'[q] = StageOf[status] /\ Stages[q] = StageOf[state[q]]
  BY <1>1, <1>3 DEF Stages, Stage, Plugins
<1>5. \A p \in Plugins : p # q => Stages'[p] = Stages[p]
  BY <1>2 DEF Stages, Plugins
<1> QED
  BY <1>1, <1>4, <1>5 DEF Stages, Plugins

(* Where the abstract application still works.                              *)
LEMMA WorkingMeans ==
    /\ pc \in {"start", "initialize", "run", "plugin", "serving"} => Outcome = "none"
    /\ pc \in {"unwind", "destroy", "destroyRest", "done"} => Outcome = code
BY DEF Outcome

(* The application before Initialize is the one DaemonLife begins with.     *)
LEMMA LifeBegins == Init => Life!LifeInit
<1> SUFFICES ASSUME Init PROVE Life!LifeInit
  OBVIOUS
<1>1. \A p \in Plugins : Stage(p) = "absent"
  BY StageNames DEF Init, Stage, Made, Plugins
<1>2. [p \in Plugins |-> Stage(p)] = [p \in Plugins |-> "absent"]
  BY <1>1
<1> QED
  BY <1>2 DEF Init, Outcome, Life!LifeInit

(* Initialize takes plugins over, initialises them, and makes the service   *)
(* or gives up.                                                             *)
LEMMA InitializeIsLife == IInv /\ Initialize => [Life!LifeNext]_(Life!vars)
<1> SUFFICES ASSUME IInv, Initialize PROVE [Life!LifeNext]_(Life!vars)
  OBVIOUS
<1> USE DEF Life!Working
<1>0. pc \in {"start", "initialize"} /\ service = "none" /\ Outcome = "none"
  BY WorkingMeans
     DEF Initialize, NoCollector, PreparePlugins, InitializePlugin, InitializeFails,
         CreateService, IInv, ServiceInv
<1>1. CASE NoCollector \/ InitializeFails
  <2>1. Stages' = Stages /\ Outcome' = "failure" /\ UNCHANGED <<holding, service, stop>>
    BY <1>1, StagesStay DEF NoCollector, InitializeFails, Outcome, Leave
  <2>2. Life!GiveUp
    BY <1>0, <2>1 DEF Life!GiveUp, Stages
  <2> QED
    BY <2>2 DEF Life!LifeNext
<1>2. CASE PreparePlugins
  <2>0. /\ Outcome' = Outcome /\ UNCHANGED <<holding, service, stop, state>>
        /\ created = 0 /\ created' \in {0, NumCreators} /\ pc = "start"
    BY <1>0, <1>2 DEF PreparePlugins, Proceed, Leave, Outcome, IInv, PluginInv
  <2>1. CASE created' = 0
    <3>1. Stages' = Stages
      BY <2>0, <2>1, StagesStay
    <3> QED
      BY <2>0, <3>1 DEF Life!vars, Stages
  <2>2. CASE created' = NumCreators
    <3>1. \A p \in Plugins : Stage(p) = "absent"
      BY StageNames, <2>0 DEF Stage, Made, Plugins
    <3>2. \A p \in Plugins : Stage(p)' = "made"
      <4> SUFFICES ASSUME NEW p \in Plugins PROVE Stage(p)' = "made"
        OBVIOUS
      <4>1. state[p] = "made"
        BY <2>0 DEF IInv, PluginInv, Made, Plugins
      <4>2. state'[p] = "made" /\ p \in Made'
        BY <2>0, <2>2, <4>1 DEF Made, Plugins
      <4> QED
        BY StageNames, <4>2 DEF Stage
    <3>3. Life!All({"absent"})
      BY <3>1 DEF Life!All
    <3>4. Stages' = [p \in Plugins |-> "made"]
      BY <3>2 DEF Stages, Plugins
    <3>5. Life!TakeOver
      BY <1>0, <2>0, <3>3, <3>4 DEF Life!TakeOver, Stages
    <3> QED
      BY <3>5 DEF Life!LifeNext
  <2> QED
    BY <2>0, <2>1, <2>2
<1>3. CASE InitializePlugin
  <2>1. /\ next \in Made /\ state' = [state EXCEPT ![next] = "initialized"]
        /\ UNCHANGED <<pc, created, holding, service, stop, code>> /\ pc = "initialize"
    BY <1>3 DEF InitializePlugin, Becomes
  <2>2. /\ next \in Plugins /\ Stages' = [Stages EXCEPT ![next] = StageOf["initialized"]]
        /\ Stages[next] = StageOf[state[next]]
    BY <2>1, StageAdvances DEF IInv
  <2>3. state[next] = "made"
    BY <2>1 DEF IInv, PluginInv, TypeOK, Made
  <2>5. Outcome' = Outcome
    BY <2>1 DEF Outcome
  <2>6. Life!Advance(next, {"made"}, "ready")
    BY <2>2, <2>3, StageNames DEF Life!Advance, Stages
  <2>7. Life!InitializeOne(next)
    BY <1>0, <2>1, <2>5, <2>6 DEF Life!InitializeOne
  <2> QED
    BY <2>2, <2>7 DEF Life!LifeNext
<1>4. CASE CreateService
  <2>1. Stages' = Stages /\ UNCHANGED <<holding, stop>>
    BY <1>4, StagesStay DEF CreateService
  <2>2. CASE service' = "created" /\ pc' = "run"
    <3>1. \A p \in Plugins : Stage(p) \in {"absent", "ready"}
      <4>1. \A p \in Made : state[p] = "initialized"
        BY <1>4 DEF CreateService, IInv, TypeOK, PluginInv, Made
      <4> QED
        BY StageNames, <4>1 DEF Stage
    <3>2. Outcome' = "none"
      BY <2>2 DEF Outcome
    <3>3. Life!MakeService
      BY <1>0, <2>1, <2>2, <3>1, <3>2 DEF Life!MakeService, Life!All, Stages
    <3> QED
      BY <3>3 DEF Life!LifeNext
  <2>3. CASE service' = service /\ code' = "failure" /\ pc' = "destroy"
    <3>1. Outcome' = "failure"
      BY <2>3 DEF Outcome
    <3>2. Life!GiveUp
      BY <1>0, <2>1, <2>3, <3>1 DEF Life!GiveUp, Stages
    <3> QED
      BY <3>2 DEF Life!LifeNext
  <2> QED
    BY <1>4, <2>2, <2>3 DEF CreateService, Leave
<1> QED
  BY <1>1, <1>2, <1>3, <1>4 DEF Initialize

(* Where every plugin made has been run.                                    *)
LEMMA AllRan ==
    ASSUME \A p \in Made : state[p] \in Ran
    PROVE  Life!All({"absent", "ran"})
<1>1. \A p \in Plugins : Stage(p) \in {"absent", "ran"}
  BY StageNames DEF Stage, Ran
<1> QED
  BY <1>1 DEF Life!All

(* Run starts plugins, takes their results, offers and withdraws the        *)
(* service, and cleans up.                                                  *)
LEMMA RunIsLife == IInv /\ EndInv /\ Run => [Life!LifeNext]_(Life!vars)
<1> SUFFICES ASSUME IInv, EndInv, Run PROVE [Life!LifeNext]_(Life!vars)
  OBVIOUS
<1> USE DEF Life!Working
<1>1. CASE RunPlugin
  <2>1. SendersMade
    BY <1>1 DEF RunPlugin, SendersMade, CreateInitialQualifierStateSender,
                CreateLastUpdatedParameterSetSender, IInv, ServiceInv
  <2>2. /\ pc = "run" /\ next \in Made /\ pc' = "plugin"
        /\ state' = [state EXCEPT ![next] = "running"] /\ holding' = holding \cup {next}
        /\ UNCHANGED <<created, service, stop, code>>
    BY <1>1, <2>1 DEF RunPlugin
  <2>3. /\ next \in Plugins /\ Stages' = [Stages EXCEPT ![next] = StageOf["running"]]
        /\ Stages[next] = StageOf[state[next]]
    BY <2>2, StageAdvances DEF IInv
  <2>4. state[next] = "initialized"
    BY <2>2 DEF IInv, PluginInv, TypeOK, Made
  <2>6. Outcome = "none" /\ Outcome' = "none" /\ service = "created"
    BY <2>2 DEF Outcome, IInv, ServiceInv
  <2>7. Life!All({"absent", "ready", "ran"})
    <3>1. \A p \in Made : state[p] \in Ran \/ state[p] = "initialized"
      BY <2>2 DEF IInv, PluginInv
    <3>2. \A p \in Plugins : Stage(p) \in {"absent", "ready", "ran"}
      BY StageNames, <3>1 DEF Stage, Ran
    <3> QED
      BY <3>2 DEF Life!All
  <2>8. Life!Advance(next, {"ready"}, "running")
    BY <2>3, <2>4, StageNames DEF Life!Advance, Stages
  <2>9. Life!Start(next)
    BY <2>2, <2>6, <2>7, <2>8 DEF Life!Start
  <2> QED
    BY <2>3, <2>9 DEF Life!LifeNext
<1>2. ASSUME NEW result \in {"success", "failure", "other"}, PluginReturns(result)
      PROVE  [Life!LifeNext]_(Life!vars)
  <2>1. /\ pc = "plugin" /\ next \in Made /\ state' = [state EXCEPT ![next] = result]
        /\ state[next] = "running" /\ UNCHANGED <<created, holding, service, stop>>
    BY <1>2 DEF PluginReturns, IInv, PluginInv
  <2>2. /\ next \in Plugins /\ Stages' = [Stages EXCEPT ![next] = StageOf[result]]
        /\ Stages[next] = StageOf[state[next]]
    BY <2>1, StageAdvances DEF IInv
  <2>3. Outcome = "none"
    BY <2>1 DEF Outcome
  <2>4. CASE IsFailure(result)
    <3>1. Outcome' = "failure" /\ StageOf[result] = "failed"
      BY <1>2, <2>1, <2>4, StageNames DEF PluginReturns, IsFailure, Leave, WayOut, Outcome
    <3>2. Life!Advance(next, {"running"}, "failed")
      BY <2>1, <2>2, <3>1, StageNames DEF Life!Advance, Stages
    <3>3. Life!Fail(next)
      BY <2>1, <2>3, <3>1, <3>2 DEF Life!Fail
    <3> QED
      BY <2>2, <3>3 DEF Life!LifeNext
  <2>5. CASE ~IsFailure(result)
    <3>1. Outcome' = "none" /\ StageOf[result] = "ran"
      BY <1>2, <2>1, <2>5, StageNames DEF PluginReturns, IsFailure, Outcome
    <3>2. Life!Advance(next, {"running"}, "ran")
      BY <2>1, <2>2, <3>1, StageNames DEF Life!Advance, Stages
    <3>3. Life!Populate(next)
      BY <2>1, <2>3, <3>1, <3>2 DEF Life!Populate
    <3> QED
      BY <2>2, <3>3 DEF Life!LifeNext
  <2> QED
    BY <2>4, <2>5
<1>3. CASE StartServices
  <2>1. /\ pc = "run" /\ next \notin Made /\ pc' = "serving"
        /\ service' \in {"created", "offered"} /\ UNCHANGED <<created, state, holding, stop>>
    BY <1>3 DEF StartServices, Proceed, Leave
  <2>2. Outcome = "none" /\ Outcome' = "none" /\ service = "created" /\ Stages' = Stages
    BY <2>1, StagesStay DEF Outcome, IInv, ServiceInv
  <2>3. \A p \in Made : state[p] \in Ran
    BY <2>1 DEF IInv, TypeOK, PluginInv, Made
  <2>4. CASE service' = "created"
    BY <2>1, <2>2, <2>4 DEF Life!vars, Stages
  <2>5. CASE service' = "offered"
    <3>1. Life!Offer
      BY <2>1, <2>2, <2>3, <2>5, AllRan DEF Life!Offer, Stages
    <3> QED
      BY <3>1 DEF Life!LifeNext
  <2> QED
    BY <2>1, <2>4, <2>5
<1>4. CASE StopServices
  <2>1. /\ pc = "serving" /\ stop /\ service' = "withdrawn" /\ pc' = "unwind"
        /\ code' = "success" /\ UNCHANGED <<created, state, holding, stop>>
    BY <1>4 DEF StopServices, StopSeen, WayOut, Leave
  <2>2. /\ Outcome = "none" /\ Outcome' = "success" /\ Stages' = Stages
        /\ service \in {"created", "offered"}
    BY <2>1, StagesStay DEF Outcome, IInv, ServiceInv
  <2>3. Life!All({"absent", "ran"})
    BY <2>1, AllRan DEF IInv, PluginInv
  <2>4. Life!Withdraw
    BY <2>1, <2>2, <2>3 DEF Life!Withdraw, Stages
  <2> QED
    BY <2>4 DEF Life!LifeNext
<1>5. CASE Deinitialize
  <2>1. /\ pc = "unwind" /\ next \in Made /\ state' = [state EXCEPT ![next] = "deinitialized"]
        /\ UNCHANGED <<pc, created, holding, service, stop, code>>
    BY <1>5 DEF Deinitialize, Becomes
  <2>2. /\ next \in Plugins /\ Stages' = [Stages EXCEPT ![next] = StageOf["deinitialized"]]
        /\ Stages[next] = StageOf[state[next]]
    BY <2>1, StageAdvances DEF IInv
  <2>3. state[next] \in Ran \cup {"initialized", "failure"}
    BY <2>1 DEF EndInv, IInv, TypeOK, Made
  <2>4. StageOf[state[next]] \in {"ready", "ran", "failed"}
    BY <2>3, StageNames DEF Ran
  <2>5. Outcome # "none" /\ Outcome' = Outcome /\ service \in {"created", "withdrawn"}
    BY <2>1 DEF Outcome, EndInv, IInv, ServiceInv
  <2>6. Life!Advance(next, {"ready", "ran", "failed"}, "gone")
    BY <2>2, <2>4, StageNames DEF Life!Advance, Stages
  <2>7. Life!Cleanup(next)
    BY <2>1, <2>5, <2>6 DEF Life!Cleanup
  <2> QED
    BY <2>2, <2>7 DEF Life!LifeNext
<1>6. CASE Unwound
  <2>1. Stages' = Stages /\ Outcome' = Outcome /\ UNCHANGED <<holding, service, stop>>
    BY <1>6, StagesStay DEF Unwound, Proceed, Leave, Outcome
  <2> QED
    BY <2>1 DEF Life!vars, Stages
<1> QED
  BY <1>1, <1>2, <1>3, <1>4, <1>5, <1>6 DEF Run

(* The destruction drops the plugins, then the service; the rest is a stop  *)
(* or nothing.                                                              *)
LEMMA OthersAreLife ==
    IInv /\ EndInv /\ (Destroy \/ DestroyRest \/ StopRequested \/ UNCHANGED vars) =>
        [Life!LifeNext]_(Life!vars)
<1> SUFFICES ASSUME IInv, EndInv, Destroy \/ DestroyRest \/ StopRequested \/ UNCHANGED vars
             PROVE  [Life!LifeNext]_(Life!vars)
  OBVIOUS
<1> USE DEF Life!Working
<1>1. CASE Destroy \/ DestroyRest
  <2>1. /\ pc \in {"destroy", "destroyRest"} /\ pc' \in {"destroyRest", "done"}
        /\ code' = code /\ UNCHANGED <<created, state, stop>>
    BY <1>1 DEF Destroy, DestroyRest, Proceed, Leave
  <2>2. Stages' = Stages /\ Outcome # "none" /\ Outcome' = Outcome
    BY <2>1, StagesStay DEF Outcome, EndInv
  <2>3. service # "none" => Life!All({"absent", "gone"})
    <3>1. \A p \in Made : state[p] = "deinitialized" =>
             Stage(p) = "gone"
      BY StageNames DEF Stage
    <3>2. \A p \in Plugins \ Made : Stage(p) = "absent"
      BY StageNames DEF Stage
    <3>3. service # "none" => \A p \in Plugins : Stage(p) \in {"absent", "gone"}
      BY <2>1, <3>1, <3>2 DEF EndInv
    <3> QED
      BY <3>3 DEF Life!All
  <2>4. CASE Destroy
    <3>1. holding' = {} /\ service' = service
      BY <2>4 DEF Destroy, FirstDestroyed
    <3>2. CASE service = "none"
      <4>1. holding = {}
        BY <2>4, <3>2 DEF Destroy, IInv, ServiceInv
      <4> QED
        BY <2>1, <2>2, <3>1, <4>1 DEF Life!vars, Stages
    <3>3. CASE service # "none"
      <4>1. Life!DropPlugins
        BY <2>1, <2>2, <2>3, <3>1, <3>3 DEF Life!DropPlugins, Stages
      <4> QED
        BY <4>1 DEF Life!LifeNext
    <3> QED
      BY <3>2, <3>3
  <2>5. CASE DestroyRest
    <3>1. holding = {} /\ holding' = {} /\ service' = "none"
      BY <2>5 DEF DestroyRest, IInv, ServiceInv
    <3>2. CASE service = "none"
      BY <2>1, <2>2, <3>1, <3>2 DEF Life!vars, Stages
    <3>3. CASE service # "none"
      <4>1. Life!DropService
        BY <2>1, <2>2, <2>3, <3>1, <3>3 DEF Life!DropService, Stages
      <4> QED
        BY <4>1 DEF Life!LifeNext
    <3> QED
      BY <3>2, <3>3
  <2> QED
    BY <1>1, <2>4, <2>5
<1>2. CASE StopRequested
  <2>1. /\ Stages' = Stages /\ Outcome' = Outcome /\ stop' = TRUE
        /\ UNCHANGED <<holding, service>>
    BY <1>2, StagesStay DEF StopRequested, Outcome
  <2>2. Life!RequestStop
    BY <2>1 DEF Life!RequestStop, Stages
  <2> QED
    BY <2>2 DEF Life!LifeNext
<1>3. CASE UNCHANGED vars
  <2>1. Stages' = Stages /\ Outcome' = Outcome /\ UNCHANGED <<holding, service, stop>>
    BY <1>3, StagesStay DEF vars, Outcome
  <2> QED
    BY <2>1 DEF Life!vars, Stages
<1> QED
  BY <1>1, <1>2, <1>3

(* However the start fails and whenever the stop comes, the application     *)
(* behaves as DaemonLife says, for any number of plugins.                   *)
THEOREM LivesAsPromised == Spec => LifeSpec
<1>1. IInv /\ EndInv /\ [Next]_vars => [Life!LifeNext]_(Life!vars)
  BY InitializeIsLife, RunIsLife, OthersAreLife DEF Next, Main
<1>2. Spec => []EndInv
  BY DInvariance, InitEndInv, StepKeepsEndInv, PTL DEF Spec
<1> QED
  BY LifeBegins, DInvariance, <1>1, <1>2, PTL DEF Spec, LifeSpec, Life!LifeSpec

-----------------------------------------------------------------------------
(* The plugins are taken over together or not at all.                       *)
AllOrNone == created \in {0, NumCreators}

(* What the design says of the offered service, OfferedIsComplete, can only *)
(* fail in one way: the collector made no plugin at all.                    *)
THEOREM OfferedIsCompleteOrEmpty ==
    Spec => [](service = "offered" => created = 0 \/ OfferedIsComplete)
<1>1. Init => AllOrNone
  BY DEF Init, AllOrNone
<1>2. AllOrNone /\ [Next]_vars => AllOrNone'
  BY DEF AllOrNone, vars, Next, Main, Initialize, Run, NoCollector, PreparePlugins,
         InitializePlugin, InitializeFails, CreateService, RunPlugin, PluginReturns,
         StartServices, StopServices, Deinitialize, Unwound, Destroy, DestroyRest,
         StopRequested
<1>3. IInv /\ AllOrNone =>
         (service = "offered" => created = 0 \/ OfferedIsComplete)
  BY DEF IInv, TypeOK, PluginInv, ServiceInv, OfferedIsComplete, AllOrNone, Plugins, Made,
         Ran
<1>4. Spec => []AllOrNone
  BY <1>1, <1>2, PTL DEF Spec
<1> QED
  BY <1>3, <1>4, DInvariance, PTL
=============================================================================
