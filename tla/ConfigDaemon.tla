----------------------------- MODULE ConfigDaemon -----------------------------
(***************************************************************************)
(* The life of the ConfigDaemon application: Initialize makes and          *)
(* initialises the plugins and makes the service, Run runs the plugins,    *)
(* offers the service and waits for a stop; every way out of Run           *)
(* deinitialises the plugins; the application is destroyed, the plugins    *)
(* before the service.                                                     *)
(*                                                                         *)
(* mw::lifecycle::run_application (external) calls Run only if Initialize  *)
(* succeeded, and may request the stop at any time.  A plugin (external)   *)
(* may keep threads that use the senders it was given from the call of its *)
(* Run until its object is destroyed.  Its Run is a call and a return, as  *)
(* those threads and the stop come in between.                             *)
(***************************************************************************)
EXTENDS Naturals

CONSTANT NumCreators  \* plugin_creators_.size()

ASSUME CreatorsAssumption == NumCreators \in Nat

VARIABLES
    pc,       \* where the main thread is
    created,  \* plugins_.size()
    next,     \* the plugin a loop over plugins_ has come to
    state,    \* history: the last call of each plugin, and how it ended
    holding,  \* the plugins that hold senders
    service,  \* the service in provided_services_container_
    stop,     \* stop_token.stop_requested()
    code      \* what Initialize or Run returned

vars == <<pc, created, next, state, holding, service, stop, code>>

Plugins == 1..NumCreators

Made == 1..created

Init ==
    /\ pc = "start"
    /\ created = 0
    /\ next = 1
    /\ state = [p \in Plugins |-> "made"]
    /\ holding = {}
    /\ service = "none"
    /\ stop = FALSE
    /\ code = "none"

(* Initialize or Run returns.                                               *)
Leave(result, to) ==
    /\ code' = result
    /\ pc' = to
    /\ next' = 1

Proceed(to) == Leave(code, to)

(* A loop over plugins_ comes to its next plugin.                           *)
Becomes(status) ==
    /\ state' = [state EXCEPT ![next] = status]
    /\ next' = next + 1

StopRequested ==
    /\ stop' = TRUE
    /\ UNCHANGED <<pc, created, next, state, holding, service, code>>

-----------------------------------------------------------------------------
(***************************************************************************)
(* Initialize.                                                             *)
(***************************************************************************)

(* PreparePlugins: there may be no collector; the collector returns no      *)
(* plugin at all when one of them cannot be made.                           *)
NoCollector ==
    /\ pc = "start"
    /\ Leave("failure", "destroy")
    /\ UNCHANGED <<created, state, holding, service, stop>>

PreparePlugins ==
    /\ pc = "start"
    /\ created' \in {0, NumCreators}
    /\ Proceed("initialize")
    /\ UNCHANGED <<state, holding, service, stop>>

(* A failed Initialize of one plugin ends the application.                  *)
InitializePlugin ==
    /\ pc = "initialize" /\ next \in Made
    /\ Becomes("initialized")
    /\ UNCHANGED <<pc, created, holding, service, stop, code>>

InitializeFails ==
    /\ pc = "initialize" /\ next \in Made
    /\ Leave("failure", "destroy")
    /\ UNCHANGED <<created, state, holding, service, stop>>

(* Factory::CreateInternalConfigProviderService, after which the container  *)
(* has the service or nothing.                                              *)
CreateService ==
    /\ pc = "initialize" /\ next \notin Made
    /\ \/ service' = "created" /\ Leave("success", "run")
       \/ service' = service /\ Leave("failure", "destroy")
    /\ UNCHANGED <<created, state, holding, stop>>

-----------------------------------------------------------------------------
(***************************************************************************)
(* Run.                                                                    *)
(***************************************************************************)

(* Seeded faults: no result of a plugin is a failure; the scope that        *)
(* deinitialises the plugins is opened behind the loop that runs them; Run  *)
(* only waits for the stop of a service that is offered.                    *)
NothingFails(result) == FALSE
ScopeOpenedLate == "destroy"
StopSeenIfOffered == stop /\ service = "offered"

(* plugin_run_result == kExitCodeFailure: any other number is no failure.   *)
IsFailure(result) == result = "failure"
WayOut == "unwind"
StopSeen == stop

(* The Factory makes a sender around the service in the container; without  *)
(* a service there the sender is empty.                                     *)
CreateLastUpdatedParameterSetSender ==
    IF service # "none" THEN "sender" ELSE "empty"
CreateInitialQualifierStateSender ==
    IF service # "none" THEN "sender" ELSE "empty"

SendersMade ==
    "empty" \notin {CreateInitialQualifierStateSender,
                    CreateLastUpdatedParameterSetSender}

RunPlugin ==
    /\ pc = "run" /\ next \in Made
    /\ IF SendersMade
       THEN /\ state' = [state EXCEPT ![next] = "running"]
            /\ holding' = holding \cup {next}
            /\ pc' = "plugin" /\ UNCHANGED <<next, code>>
       ELSE Leave("failure", WayOut) /\ UNCHANGED <<state, holding>>
    /\ UNCHANGED <<created, service, stop>>

PluginReturns(result) ==
    /\ pc = "plugin"
    /\ state' = [state EXCEPT ![next] = result]
    /\ \/ IsFailure(result) /\ Leave("failure", WayOut)
       \/ ~IsFailure(result) /\ pc' = "run" /\ next' = next + 1 /\ code' = code
    /\ UNCHANGED <<created, holding, service, stop>>

(* StartServices: that a service could not be offered is only logged.       *)
StartServices ==
    /\ pc = "run" /\ next \notin Made
    /\ service' \in {"created", "offered"}
    /\ Proceed("serving")
    /\ UNCHANGED <<created, state, holding, stop>>

StopServices ==
    /\ pc = "serving" /\ StopSeen
    /\ service' = "withdrawn"
    /\ Leave("success", WayOut)
    /\ UNCHANGED <<created, state, holding, stop>>

(* The end of the scope: the plugins are deinitialised in their order.      *)
Deinitialize ==
    /\ pc = "unwind" /\ next \in Made
    /\ Becomes("deinitialized")
    /\ UNCHANGED <<pc, created, holding, service, stop, code>>

Unwound ==
    /\ pc = "unwind" /\ next \notin Made
    /\ Proceed("destroy")
    /\ UNCHANGED <<created, state, holding, service, stop>>

-----------------------------------------------------------------------------
(* Seeded fault: plugins_ is declared before the container.                 *)
ContainerFirst == "provided_services_container_"

(* The members are destroyed in the reverse order of their declaration.     *)
FirstDestroyed == "plugins_"

Destroy ==
    /\ pc = "destroy"
    /\ holding' = IF FirstDestroyed = "plugins_" THEN {} ELSE holding
    /\ service' = IF FirstDestroyed = "plugins_" THEN service ELSE "none"
    /\ Proceed("destroyRest")
    /\ UNCHANGED <<created, state, stop>>

DestroyRest ==
    /\ pc = "destroyRest"
    /\ holding' = {}
    /\ service' = "none"
    /\ Proceed("done")
    /\ UNCHANGED <<created, state, stop>>

Initialize ==
    \/ NoCollector \/ PreparePlugins
    \/ InitializePlugin \/ InitializeFails \/ CreateService

Run ==
    \/ RunPlugin \/ StartServices \/ StopServices
    \/ \E result \in {"success", "failure", "other"} : PluginReturns(result)
    \/ Deinitialize \/ Unwound

Main == Initialize \/ Run \/ Destroy \/ DestroyRest
Next == Main \/ StopRequested

Spec == Init /\ [][Next]_vars

(* The main thread goes on; a plugin's Run, which is given the stop token,  *)
(* returns at the latest when the stop is requested.                        *)
GoesOn == (pc = "plugin" => stop) /\ Main

FairSpec == Spec /\ WF_vars(GoesOn)

-----------------------------------------------------------------------------
(* Every variable has its type.                                             *)
TypeOK ==
    /\ pc \in {"start", "initialize", "run", "plugin", "serving", "unwind",
               "destroy", "destroyRest", "done"}
    /\ created \in 0..NumCreators
    /\ next \in 1..(created + 1)
    /\ state \in [Plugins -> {"made", "initialized", "running", "success",
                             "failure", "other", "deinitialized"}]
    /\ holding \subseteq Plugins
    /\ service \in {"none", "created", "offered", "withdrawn"}
    /\ stop \in BOOLEAN
    /\ code \in {"none", "success", "failure"}

(* While the service is offered the data model is populated by every plugin *)
(* the collector made: all have been run, none has failed, and none has     *)
(* been deinitialised yet.                                                  *)
OfferedIsPopulated ==
    service = "offered" => \A p \in Made : state[p] \in {"success", "other"}

(* Every plugin whose Run was called is deinitialised before the            *)
(* application is destroyed, whichever way Run is left.                     *)
EveryRunIsCleanedUp ==
    pc \in {"destroy", "destroyRest", "done"} =>
        \A p \in Plugins : state[p] \in {"made", "initialized", "deinitialized"}

(* A plugin that holds senders, and so may call them from a thread of its   *)
(* own at any time, holds them no longer than the service exists.           *)
SendersHaveService == holding # {} => service # "none"

(* A plugin is only run after its Initialize succeeded and is deinitialised *)
(* at most once, after which it is never called again.                      *)
PluginProtocol ==
    [][\A p \in Plugins :
          /\ state'[p] = "running" => state[p] \in {"initialized", "running"}
          /\ state'[p] = "deinitialized" => state[p] # "made"
          /\ state[p] = "deinitialized" => state'[p] = "deinitialized"]_state

(* How the application appears to its plugins and to the clients of its     *)
(* service.                                                                 *)
StageOf == [made |-> "made", initialized |-> "ready", running |-> "running",
            success |-> "ran", other |-> "ran", failure |-> "failed",
            deinitialized |-> "gone"]

Stage(p) == IF p \in Made THEN StageOf[state[p]] ELSE "absent"

Outcome == IF pc \in {"unwind", "destroy", "destroyRest", "done"} THEN code ELSE "none"

Life == INSTANCE DaemonLife WITH
            life <- [p \in Plugins |-> Stage(p)], senders <- holding,
            outcome <- Outcome

(* The application lives as DaemonLife says: it offers its service only     *)
(* once every plugin it took over has populated the data model, ends in     *)
(* success only if it was populated and stopped, cleans up every plugin     *)
(* once the service was made, before the plugins and their senders are      *)
(* destroyed, and destroys the service last, whichever way Run is left.     *)
LifeSpec == Life!LifeSpec

(* Once the stop is requested the application ends, wherever the request    *)
(* meets it and whatever failed before.                                     *)
EndsWhenStopped == stop ~> pc = "done"

(* What the design says of the second phase of the start: the service is    *)
(* offered "as the data model is completely populated", by all plugins that *)
(* were added to the collector.                                             *)
OfferedIsComplete ==
    service = "offered" => \A p \in Plugins : state[p] \in {"success", "other"}
=============================================================================
