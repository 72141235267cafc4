------------------------------ MODULE Connection ------------------------------
(***************************************************************************)
(* How a ConfigProviderImpl gets connected and who waits for it: the       *)
(* constructor starts the proxy thread and ties the application's stop     *)
(* token to it; the proxy thread publishes the provider under the mutex    *)
(* and notifies the condition variable; application threads wait in        *)
(* WaitUntilConnected; the destructor takes all of it down.                *)
(*                                                                         *)
(* What the proxy thread does between the proxy and the publication is one *)
(* step here (module ConfigProvider has it in full).  Of the condition     *)
(* variable (external) a thread that sleeps is woken by a notification,    *)
(* by its stop token, by its timeout, or for no reason.                    *)
(***************************************************************************)
EXTENDS Naturals, Sequences

CONSTANTS
    Waiters,    \* application threads that wait for the connection
    Tied        \* those of them that wait with the application's stop token

ASSUME WaitersAssumption ==
    /\ {"free", "proxy"} \cap Waiters = {}
    /\ Tied \subseteq Waiters

VARIABLES
    main,       \* the thread that makes and destroys the provider
    todo,       \* the members its destructor has still to reset
    threadHere, \* proxy_available_thread_.has_value()
    registered, \* stop_callback_ is tied to the application's stop token
    userStop,   \* the application's stop token
    stopper,    \* the thread that requests that stop: it runs the callback
    threadStop, \* the stop token of the proxy thread
    proxy,      \* where the proxy thread is
    connected,  \* internal_config_provider_ # nullptr
    mutex,      \* the owner of mutex_
    pc,         \* where each waiter is
    stopped,    \* the stop token of each waiter
    expired,    \* the timeout of each waiter's call
    result      \* what WaitUntilConnected returned, and why

lifeVars   == <<main, todo, threadHere, registered>>
stopVars   == <<userStop, stopper, threadStop>>
waiterVars == <<pc, stopped, expired, result>>
vars == <<main, todo, threadHere, registered, userStop, stopper, threadStop,
          proxy, connected, mutex, pc, stopped, expired, result>>

Free == "free"

Init ==
    /\ main = "start"
    /\ todo = <<>>
    /\ threadHere = FALSE
    /\ registered = FALSE
    /\ userStop = FALSE
    /\ stopper = "idle"
    /\ threadStop = FALSE
    /\ proxy = "none"
    /\ connected = FALSE
    /\ mutex = Free
    /\ pc = [w \in Waiters |-> "idle"]
    /\ stopped = [w \in Waiters |-> FALSE]
    /\ expired = [w \in Waiters |-> FALSE]
    /\ result = [w \in Waiters |-> "none"]

-----------------------------------------------------------------------------
(***************************************************************************)
(* The application's stop token, and the constructor.                      *)
(***************************************************************************)

(* Seeded fault: nobody who waits has the application's token.              *)
TokenNotPassed(w) == stopped[w]

StoppedWithToken(w) == stopped[w] \/ w \in Tied

(* request_stop runs the callback, if there is one, in its own thread.      *)
RequestStop ==
    /\ ~userStop
    /\ userStop' = TRUE
    /\ stopper' = IF registered THEN "callback" ELSE "idle"
    /\ stopped' = [w \in Waiters |-> StoppedWithToken(w)]
    /\ UNCHANGED <<lifeVars, threadStop, proxy, connected, mutex, pc, expired,
                   result>>

StopCallback ==
    /\ stopper = "callback"
    /\ threadStop' = TRUE
    /\ stopper' = "idle"
    /\ UNCHANGED <<lifeVars, userStop, proxy, connected, mutex, waiterVars>>

StartThread ==
    /\ main = "start"
    /\ threadHere' = TRUE
    /\ proxy' = "get"
    /\ main' = "register"
    /\ UNCHANGED <<todo, registered, stopVars, connected, mutex, waiterVars>>

(* Seeded fault: a stop that was requested before is not looked at.         *)
EarlyStopMissed == threadStop

(* A callback for a token that is stopped already runs in the constructor.  *)
StopSeenAtStart == threadStop \/ userStop

RegisterStop ==
    /\ main = "register"
    /\ registered' = TRUE
    /\ threadStop' = StopSeenAtStart
    /\ main' = "alive"
    /\ UNCHANGED <<todo, threadHere, userStop, stopper, proxy, connected, mutex,
                   waiterVars>>

-----------------------------------------------------------------------------
(***************************************************************************)
(* The proxy thread.                                                       *)
(***************************************************************************)

(* ProxyFuture::Get: a proxy, or none because of a stop or an error.        *)
GetProxy ==
    /\ proxy = "get"
    /\ proxy' \in {"setup", "done"}
    /\ UNCHANGED <<lifeVars, stopVars, connected, mutex, waiterVars>>

(* Subscription, which may fail, initial fetch and registrations.           *)
Setup ==
    /\ proxy = "setup"
    /\ proxy' \in {"publish", "done"}
    /\ UNCHANGED <<lifeVars, stopVars, connected, mutex, waiterVars>>

(* Seeded faults: the provider is published without the mutex; the waiters  *)
(* are not notified.                                                        *)
PublishesAnyTime == TRUE
NotifiesNobody == pc

PublishesWhen == mutex = Free
Notified == [w \in Waiters |-> IF pc[w] = "asleep" THEN "woken" ELSE pc[w]]

Publish ==
    /\ proxy = "publish" /\ PublishesWhen
    /\ connected' = TRUE
    /\ proxy' = "announce"
    /\ UNCHANGED <<lifeVars, stopVars, mutex, waiterVars>>

(* The availability callback is called without the mutex, then all waiters  *)
(* are notified.                                                            *)
Announce ==
    /\ proxy = "announce"
    /\ proxy' = "notify"
    /\ UNCHANGED <<lifeVars, stopVars, connected, mutex, waiterVars>>

NotifyAll ==
    /\ proxy = "notify"
    /\ pc' = Notified
    /\ proxy' = "done"
    /\ UNCHANGED <<lifeVars, stopVars, connected, mutex, stopped, expired, result>>

ProxyThread == GetProxy \/ Setup \/ Publish \/ Announce \/ NotifyAll

-----------------------------------------------------------------------------
(***************************************************************************)
(* WaitUntilConnected.                                                     *)
(***************************************************************************)
Locks(w, from) ==
    /\ pc[w] = from
    /\ mutex = Free
    /\ mutex' = w
    /\ pc' = [pc EXCEPT ![w] = "check"]

(* A timeout of zero has expired from the start.                            *)
WaitBegins(w) ==
    /\ main = "alive"
    /\ Locks(w, "idle")
    /\ \E over \in BOOLEAN : expired' = [expired EXCEPT ![w] = over]
    /\ result' = [result EXCEPT ![w] = "none"]
    /\ UNCHANGED <<lifeVars, stopVars, proxy, connected, stopped>>

(* Seeded fault: the timeout is told from the time alone.                   *)
AnswerByTime(w) ==
    IF stopped[w] THEN "stopped" ELSE IF expired[w] THEN "timeout" ELSE "connected"

Answer(w) ==
    IF stopped[w] THEN "stopped" ELSE IF connected THEN "connected" ELSE "timeout"

NothingToWaitFor(w) == connected \/ stopped[w] \/ expired[w]

(* The wait is over when the condition holds or there is no time left: the  *)
(* condition is then looked at once more, and the stop token before it.     *)
WaitEnds(w) ==
    /\ pc[w] = "check"
    /\ NothingToWaitFor(w)
    /\ result' = [result EXCEPT ![w] = Answer(w)]
    /\ pc' = [pc EXCEPT ![w] = "idle"]
    /\ mutex' = Free
    /\ UNCHANGED <<lifeVars, stopVars, proxy, connected, stopped, expired>>

(* The check, with the mutex held, and the sleep, which releases it.        *)
WaitGoesOn(w) ==
    /\ pc[w] = "check"
    /\ ~NothingToWaitFor(w)
    /\ pc' = [pc EXCEPT ![w] = "tired"]
    /\ UNCHANGED <<lifeVars, stopVars, proxy, connected, mutex, stopped, expired,
                   result>>

FallsAsleep(w) ==
    /\ pc[w] = "tired"
    /\ pc' = [pc EXCEPT ![w] = "asleep"]
    /\ mutex' = Free
    /\ UNCHANGED <<lifeVars, stopVars, proxy, connected, stopped, expired, result>>

WakesUp(w) ==
    /\ pc[w] = "asleep"
    /\ pc' = [pc EXCEPT ![w] = "woken"]
    /\ UNCHANGED <<lifeVars, stopVars, proxy, connected, mutex, stopped, expired,
                   result>>

Relocks(w) ==
    /\ Locks(w, "woken")
    /\ UNCHANGED <<lifeVars, stopVars, proxy, connected, stopped, expired, result>>

TimeExpires(w) ==
    /\ pc[w] # "idle" /\ ~expired[w]
    /\ expired' = [expired EXCEPT ![w] = TRUE]
    /\ UNCHANGED <<lifeVars, stopVars, proxy, connected, mutex, pc, stopped, result>>

StopsWaiter(w) ==
    /\ ~stopped[w] /\ w \notin Tied
    /\ stopped' = [stopped EXCEPT ![w] = TRUE]
    /\ UNCHANGED <<lifeVars, stopVars, proxy, connected, mutex, pc, expired, result>>

WaitUntilConnected(w) ==
    WaitEnds(w) \/ WaitGoesOn(w) \/ FallsAsleep(w) \/ Relocks(w)

-----------------------------------------------------------------------------
(***************************************************************************)
(* The destructor, called when no other thread uses the provider.          *)
(***************************************************************************)

(* Seeded faults: the thread goes before the callback that uses it, or the  *)
(* provider before the thread that sets it.                                 *)
ThreadResetFirst == <<"proxy_available_thread_", "stop_callback_",
                      "internal_config_provider_">>
ProviderResetFirst == <<"stop_callback_", "internal_config_provider_",
                        "proxy_available_thread_">>

ResetOrder == <<"stop_callback_", "proxy_available_thread_",
                "internal_config_provider_">>
StopOfReset == TRUE

Resets(member) ==
    /\ todo # <<>>
    /\ Head(todo) = member
    /\ todo' = Tail(todo)

Destroy ==
    /\ main = "alive"
    /\ \A w \in Waiters : pc[w] = "idle"
    /\ main' = "destroy"
    /\ todo' = ResetOrder
    /\ UNCHANGED <<threadHere, registered, stopVars, proxy, connected, mutex,
                   waiterVars>>

(* The reset of a stop_callback waits for the callback when it is running.  *)
ResetStopCallback ==
    /\ Resets("stop_callback_")
    /\ stopper # "callback"
    /\ registered' = FALSE
    /\ UNCHANGED <<main, threadHere, stopVars, proxy, connected, mutex, waiterVars>>

(* The reset of a jthread requests its stop ...                             *)
StopThread ==
    /\ todo # <<>>
    /\ Head(todo) = "proxy_available_thread_"
    /\ ~threadStop
    /\ threadStop' = StopOfReset
    /\ UNCHANGED <<lifeVars, userStop, stopper, proxy, connected, mutex, waiterVars>>

(* ... and joins it.                                                        *)
JoinThread ==
    /\ Resets("proxy_available_thread_")
    /\ threadStop /\ proxy = "done"
    /\ threadHere' = FALSE
    /\ UNCHANGED <<main, registered, stopVars, proxy, connected, mutex, waiterVars>>

ResetProvider ==
    /\ Resets("internal_config_provider_")
    /\ connected' = FALSE
    /\ main' = "gone"
    /\ UNCHANGED <<threadHere, registered, stopVars, proxy, mutex, waiterVars>>

Destructor == ResetStopCallback \/ StopThread \/ JoinThread \/ ResetProvider

Next ==
    \/ RequestStop \/ StopCallback
    \/ StartThread \/ RegisterStop
    \/ ProxyThread
    \/ \E w \in Waiters : \/ WaitBegins(w) \/ WaitUntilConnected(w) \/ WakesUp(w)
                          \/ TimeExpires(w) \/ StopsWaiter(w)
    \/ Destroy \/ Destructor

Spec == Init /\ [][Next]_vars

(* ProxyFuture::Get is only sure to return after a stop; the rest of the    *)
(* proxy thread, the callbacks, the constructor and the destructor go on.   *)
ProxyGoesOn == (proxy = "get" => threadStop) /\ ProxyThread

FairSpec ==
    /\ Spec
    /\ WF_vars(ProxyGoesOn) /\ WF_vars(StopCallback)
    /\ WF_vars(StartThread \/ RegisterStop) /\ WF_vars(Destructor)

-----------------------------------------------------------------------------
(* Every variable has its type, and the members are reset in the order in   *)
(* which the destructor's comment calls for it.                             *)
TypeOK ==
    /\ main \in {"start", "register", "alive", "destroy", "gone"}
    /\ todo \in {<<>>,
                 <<"internal_config_provider_">>,
                 <<"proxy_available_thread_", "internal_config_provider_">>,
                 <<"stop_callback_", "proxy_available_thread_",
                   "internal_config_provider_">>}
    /\ {threadHere, registered, userStop, threadStop, connected} \subseteq BOOLEAN
    /\ stopper \in {"idle", "callback"}
    /\ proxy \in {"none", "get", "setup", "publish", "announce", "notify", "done"}
    /\ mutex \in Waiters \cup {Free}
    /\ pc \in [Waiters -> {"idle", "check", "tired", "asleep", "woken"}]
    /\ stopped \in [Waiters -> BOOLEAN]
    /\ expired \in [Waiters -> BOOLEAN]
    /\ result \in [Waiters -> {"none", "connected", "stopped", "timeout"}]

(* No wakeup is lost: a thread that has found the provider missing and      *)
(* sleeps, or is about to, while the provider is there, has the             *)
(* notification still before it.                                            *)
NoLostWakeup ==
    \A w \in Waiters : connected /\ pc[w] \in {"tired", "asleep"} =>
        proxy \in {"announce", "notify"}

(* The stop callback never meets a proxy thread that is destroyed or not    *)
(* yet made.                                                                *)
StopCallbackHasThread == stopper = "callback" => threadHere

(* After the destructor no thread touches the members any more, and nobody  *)
(* makes the provider anew.                                                 *)
NothingAfterGone ==
    main = "gone" => /\ ~connected /\ ~threadHere /\ ~registered
                     /\ proxy = "done" /\ stopper = "idle" /\ mutex = Free

(* Once a thread was told that the provider is connected, no thread's wait  *)
(* ends with a timeout, not even a wait that began before or whose time was *)
(* up before.                                                               *)
AnswersAgree ==
    [][\A v, w \in Waiters :
          result[v] = "connected" /\ result'[w] = "timeout" => result[w] = "timeout"]_result

(* A thread that sleeps when the provider gets there is woken, without the  *)
(* help of its timeout.                                                     *)
WaitersLearn ==
    \A w \in Waiters : connected /\ pc[w] = "asleep" ~> pc[w] # "asleep"

(* The application's stop reaches the proxy thread, also when it comes      *)
(* before the constructor has registered for it.                            *)
StopReachesThread == userStop /\ threadHere ~> threadStop
=============================================================================
