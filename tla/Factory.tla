-------------------------------- MODULE Factory --------------------------------
(***************************************************************************)
(* ConfigProviderFactory::Create on top of the provider it makes (module   *)
(* Connection): the thread that calls Create runs the constructor, waits   *)
(* for the connection with the stop token the provider has too, and hands  *)
(* the provider to the application whatever came of the wait.  Only then   *)
(* do other threads use the provider, and may it be destroyed.             *)
(***************************************************************************)
EXTENDS Connection

CONSTANT Creator      \* the thread that calls Create

ASSUME CreatorAssumption == Tied = {Creator} /\ Creator \in Waiters

VARIABLES
    overload,   \* what Create was called with: a timeout, or a Persistency
    phase       \* where Create is

createVars == <<overload, phase>>
fvars == <<vars, createVars>>

Users == Waiters \ {Creator}

FInit ==
    /\ Init
    /\ overload \in {"timeout", "persistency"}
    /\ phase = "construct"

(* The overloads that take a Persistency have no timeout: they pass zero.   *)
TimeoutIsZero == overload = "persistency"

(* CreateInternal: proxy discovery, which only starts here and goes on in   *)
(* the proxy thread, and make_unique of the provider.                       *)
Constructs ==
    /\ phase = "construct"
    /\ StartThread \/ RegisterStop
    /\ UNCHANGED createVars

CreateWaits ==
    /\ phase = "construct"
    /\ WaitBegins(Creator)
    /\ TimeoutIsZero => expired'[Creator]
    /\ phase' = "wait"
    /\ UNCHANGED overload

CreateGoesOn ==
    /\ phase = "wait"
    /\ \/ WaitGoesOn(Creator) \/ FallsAsleep(Creator) \/ Relocks(Creator)
       \/ WakesUp(Creator) \/ TimeExpires(Creator)
    /\ UNCHANGED createVars

(* What WaitUntilConnected says is ignored: Create returns the provider.    *)
CreateEnds ==
    /\ phase = "wait"
    /\ WaitEnds(Creator)
    /\ phase' = "created"
    /\ UNCHANGED overload

(* Other threads wait for the provider, and the application destroys it.    *)
Uses ==
    /\ phase = "created"
    /\ \/ \E w \in Users : \/ WaitBegins(w) \/ WaitUntilConnected(w) \/ WakesUp(w)
                           \/ TimeExpires(w) \/ StopsWaiter(w)
       \/ Destroy \/ Destructor
    /\ UNCHANGED createVars

(* The application's stop and the provider's own thread.                    *)
RunsOn ==
    /\ RequestStop \/ StopCallback \/ ProxyThread
    /\ UNCHANGED createVars

FNext ==
    Constructs \/ CreateWaits \/ CreateGoesOn \/ CreateEnds \/ Uses \/ RunsOn

FSpec == FInit /\ [][FNext]_fvars

(* A thread that sleeps is woken by its stop token or its timeout.          *)
CreatorRuns ==
    \/ CreateWaits \/ CreateEnds
    \/ CreateGoesOn /\ ~TimeExpires(Creator)
                    /\ (WakesUp(Creator) => stopped[Creator] \/ expired[Creator])

FFairSpec ==
    /\ FSpec
    /\ WF_fvars(ProxyGoesOn /\ RunsOn) /\ WF_fvars(StopCallback /\ RunsOn)
    /\ WF_fvars(Constructs) /\ WF_fvars(Destructor /\ Uses) /\ WF_fvars(CreatorRuns)

-----------------------------------------------------------------------------
(* Create returns once its timeout is over, the provider is connected or    *)
(* the application stops, and with a Persistency at once; the proxy need    *)
(* not be found for it, nor the time be up.                                 *)
CreateReturns ==
    phase = "wait" /\ (\/ overload = "persistency" \/ userStop \/ connected
                       \/ expired[Creator]) ~> phase = "created"
=============================================================================
