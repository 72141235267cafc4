------------------------------ MODULE DaemonLife ------------------------------
(***************************************************************************)
(* What the ConfigDaemon promises of its life, without loops, scopes and   *)
(* an order among the plugins.  A plugin populates the data model and owes *)
(* its cleanup from the time the service is there.  The service is offered *)
(* only over a populated model and is withdrawn by a stop, which alone     *)
(* ends in success.  What a plugin may use outlives it.                    *)
(***************************************************************************)
CONSTANT Plugins

VARIABLES
    life,      \* of each plugin
    senders,   \* the plugins that may use the service
    service,   \* none, created, offered, withdrawn
    stop,      \* the stop was requested
    outcome    \* none while the application works

vars == <<life, senders, service, stop, outcome>>

Working == outcome = "none"
All(stages) == \A p \in Plugins : life[p] \in stages

LifeInit ==
    /\ life = [p \in Plugins |-> "absent"]
    /\ senders = {}
    /\ service = "none"
    /\ stop = FALSE
    /\ outcome = "none"

Advance(p, from, to) ==
    /\ life[p] \in from
    /\ life' = [life EXCEPT ![p] = to]

RequestStop ==
    /\ stop' = TRUE
    /\ UNCHANGED <<life, senders, service, outcome>>

(* All plugins there are are taken over together.                           *)
TakeOver ==
    /\ Working /\ service = "none"
    /\ All({"absent"})
    /\ life' = [p \in Plugins |-> "made"]
    /\ UNCHANGED <<senders, service, stop, outcome>>

InitializeOne(p) ==
    /\ Working /\ service = "none"
    /\ Advance(p, {"made"}, "ready")
    /\ UNCHANGED <<senders, service, stop, outcome>>

MakeService ==
    /\ Working /\ service = "none"
    /\ All({"absent", "ready"})
    /\ service' = "created"
    /\ UNCHANGED <<life, senders, stop, outcome>>

GiveUp ==
    /\ Working /\ service = "none"
    /\ outcome' = "failure"
    /\ UNCHANGED <<life, senders, service, stop>>

(* Plugins populate the model one at a time, each with its senders.         *)
Start(p) ==
    /\ Working /\ service = "created"
    /\ All({"absent", "ready", "ran"})
    /\ Advance(p, {"ready"}, "running")
    /\ senders' = senders \cup {p}
    /\ UNCHANGED <<service, stop, outcome>>

Populate(p) ==
    /\ Working
    /\ Advance(p, {"running"}, "ran")
    /\ UNCHANGED <<senders, service, stop, outcome>>

Fail(p) ==
    /\ Working
    /\ Advance(p, {"running"}, "failed")
    /\ outcome' = "failure"
    /\ UNCHANGED <<senders, service, stop>>

Offer ==
    /\ Working /\ service = "created"
    /\ All({"absent", "ran"})
    /\ service' = "offered"
    /\ UNCHANGED <<life, senders, stop, outcome>>

Withdraw ==
    /\ Working /\ stop
    /\ service \in {"created", "offered"}
    /\ All({"absent", "ran"})
    /\ service' = "withdrawn"
    /\ outcome' = "success"
    /\ UNCHANGED <<life, senders, stop>>

Cleanup(p) ==
    /\ ~Working /\ service \in {"created", "withdrawn"}
    /\ Advance(p, {"ready", "ran", "failed"}, "gone")
    /\ UNCHANGED <<senders, service, stop, outcome>>

DropPlugins ==
    /\ ~Working /\ All({"absent", "gone"})
    /\ senders' = {}
    /\ UNCHANGED <<life, service, stop, outcome>>

DropService ==
    /\ ~Working /\ All({"absent", "gone"})
    /\ senders = {}
    /\ service' = "none"
    /\ UNCHANGED <<life, senders, stop, outcome>>

LifeNext ==
    \/ RequestStop \/ TakeOver \/ MakeService \/ GiveUp
    \/ Offer \/ Withdraw \/ DropPlugins \/ DropService
    \/ \E p \in Plugins :
          InitializeOne(p) \/ Start(p) \/ Populate(p) \/ Fail(p) \/ Cleanup(p)

LifeSpec == LifeInit /\ [][LifeNext]_vars
=============================================================================
