--------------------------- MODULE Connection_proof ---------------------------
(***************************************************************************)
(* Proofs about Connection, for any number of waiting threads.             *)
(***************************************************************************)
EXTENDS Connection, TLAPS

(* The mutex is owned by the thread that checks or is about to sleep.       *)
LockInv == \A w \in Waiters : pc[w] \in {"check", "tired"} <=> mutex = w

(* What each place of the constructor and the destructor says.              *)
LifeInv ==
    /\ proxy = "none" <=> main = "start"
    /\ connected => proxy \in {"announce", "notify", "done"}
    /\ stopper = "callback" => registered
    /\ registered => threadHere
    /\ main \in {"start", "register"} => todo = <<>> /\ ~registered
    /\ main = "start" => ~threadHere
    /\ main = "register" => threadHere
    /\ main = "alive" => todo = <<>> /\ threadHere /\ registered
    /\ main = "destroy" => /\ todo # <<>>
                           /\ Head(todo) = "stop_callback_" => registered
                           /\ Head(todo) # "stop_callback_" => ~registered
                           /\ Head(todo) # "internal_config_provider_" => threadHere
                           /\ Head(todo) = "internal_config_provider_" =>
                                 ~threadHere /\ proxy = "done"
    /\ main = "gone" => /\ todo = <<>> /\ ~registered /\ ~threadHere
                        /\ proxy = "done" /\ ~connected

(* Threads only wait while the provider is alive.                           *)
UseInv == main # "alive" => \A w \in Waiters : pc[w] = "idle"

(* A provider is published when nobody is between check and sleep, and a    *)
(* thread that slept then is notified.                                      *)
WakeInv ==
    connected => \A w \in Waiters :
        /\ pc[w] # "tired"
        /\ pc[w] = "asleep" => proxy \in {"announce", "notify"}

(* An answer stays true as long as the provider is alive.                   *)
AnswerInv ==
    main \in {"start", "register", "alive"} =>
        \A w \in Waiters : result[w] = "connected" => connected

IInv == TypeOK /\ LockInv /\ LifeInv /\ UseInv /\ WakeInv /\ AnswerInv

(* What remains of the members after one of them.                           *)
LEMMA Remaining ==
    ASSUME NEW a, NEW b, NEW c
    PROVE  /\ Tail(<<a>>) = <<>> /\ Tail(<<a, b>>) = <<b>> /\ Tail(<<a, b, c>>) = <<b, c>>
           /\ Head(<<a>>) = a /\ Head(<<a, b>>) = a /\ Head(<<a, b, c>>) = a
           /\ <<a>> # <<>> /\ <<a, b>> # <<>> /\ <<a, b, c>> # <<>>
OBVIOUS

(* Which member is next tells what remains after it.                        *)
LEMMA Order ==
    TypeOK /\ todo # <<>> =>
        /\ Head(todo) \in {"stop_callback_", "proxy_available_thread_",
                            "internal_config_provider_"}
        /\ Head(todo) = "stop_callback_" => Tail(todo) =
              <<"proxy_available_thread_", "internal_config_provider_">>
        /\ Head(todo) = "proxy_available_thread_" => Tail(todo) =
              <<"internal_config_provider_">>
        /\ Head(todo) = "internal_config_provider_" => Tail(todo) = <<>>
<1> SUFFICES ASSUME TypeOK, todo # <<>>
             PROVE  /\ Head(todo) \in {"stop_callback_", "proxy_available_thread_",
                                        "internal_config_provider_"}
                    /\ Head(todo) = "stop_callback_" => Tail(todo) =
                          <<"proxy_available_thread_", "internal_config_provider_">>
                    /\ Head(todo) = "proxy_available_thread_" => Tail(todo) =
                          <<"internal_config_provider_">>
                    /\ Head(todo) = "internal_config_provider_" => Tail(todo) = <<>>
  OBVIOUS
<1>1. CASE todo = <<"internal_config_provider_">>
  BY <1>1
<1>2. CASE todo = <<"proxy_available_thread_", "internal_config_provider_">>
  BY <1>2
<1>3. CASE todo = <<"stop_callback_", "proxy_available_thread_",
                    "internal_config_provider_">>
  BY <1>3
<1> QED
  BY <1>1, <1>2, <1>3 DEF TypeOK

(* The invariant holds before the constructor.                              *)
LEMMA InitInv == Init => IInv
BY WaitersAssumption
   DEF Init, IInv, TypeOK, LockInv, LifeInv, UseInv, WakeInv, AnswerInv, Free

(* A request to stop and its callback keep the invariant.                   *)
LEMMA StopKeepsInv == IInv /\ (RequestStop \/ StopCallback) => IInv'
<1> SUFFICES ASSUME IInv, RequestStop \/ StopCallback PROVE IInv'
  OBVIOUS
<1>1. CASE RequestStop
  <2>1. TypeOK'
    BY <1>1
       DEF IInv, TypeOK, Free, lifeVars, stopVars, waiterVars,
           RequestStop, StoppedWithToken
  <2>2. LockInv'
    BY <1>1, WaitersAssumption
       DEF IInv, TypeOK, LockInv, Free, lifeVars, stopVars, waiterVars,
           RequestStop, StoppedWithToken
  <2>3. LifeInv'
    BY <1>1
       DEF IInv, TypeOK, LifeInv, lifeVars, stopVars, waiterVars,
           RequestStop, StoppedWithToken
  <2>4. UseInv'
    BY <1>1
       DEF IInv, TypeOK, LifeInv, UseInv, LockInv, lifeVars, stopVars, waiterVars,
           RequestStop, StoppedWithToken
  <2>5. WakeInv'
    BY <1>1
       DEF IInv, TypeOK, LockInv, LifeInv, WakeInv, Free, lifeVars, stopVars, waiterVars,
           RequestStop, StoppedWithToken
  <2>6. AnswerInv'
    BY <1>1
       DEF IInv, TypeOK, LockInv, UseInv, LifeInv, AnswerInv, lifeVars, stopVars, waiterVars,
           RequestStop, StoppedWithToken
  <2> QED
    BY <2>1, <2>2, <2>3, <2>4, <2>5, <2>6 DEF IInv
<1>2. CASE StopCallback
  <2>1. TypeOK'
    BY <1>2
       DEF IInv, TypeOK, Free, lifeVars, stopVars, waiterVars,
           StopCallback
  <2>2. LockInv'
    BY <1>2, WaitersAssumption
       DEF IInv, TypeOK, LockInv, Free, lifeVars, stopVars, waiterVars,
           StopCallback
  <2>3. LifeInv'
    BY <1>2
       DEF IInv, TypeOK, LifeInv, lifeVars, stopVars, waiterVars,
           StopCallback
  <2>4. UseInv'
    BY <1>2
       DEF IInv, TypeOK, LifeInv, UseInv, LockInv, lifeVars, stopVars, waiterVars,
           StopCallback
  <2>5. WakeInv'
    BY <1>2
       DEF IInv, TypeOK, LockInv, LifeInv, WakeInv, Free, lifeVars, stopVars, waiterVars,
           StopCallback
  <2>6. AnswerInv'
    BY <1>2
       DEF IInv, TypeOK, LockInv, UseInv, LifeInv, AnswerInv, lifeVars, stopVars, waiterVars,
           StopCallback
  <2> QED
    BY <2>1, <2>2, <2>3, <2>4, <2>5, <2>6 DEF IInv
<1> QED
  BY <1>1, <1>2

(* So does the constructor, ...                                             *)
LEMMA ConstructorKeepsInv == IInv /\ (StartThread \/ RegisterStop) => IInv'
<1> SUFFICES ASSUME IInv, StartThread \/ RegisterStop PROVE IInv'
  OBVIOUS
<1>1. CASE StartThread
  <2>1. TypeOK'
    BY <1>1
       DEF IInv, TypeOK, Free, lifeVars, stopVars, waiterVars,
           StartThread
  <2>2. LockInv'
    BY <1>1, WaitersAssumption
       DEF IInv, TypeOK, LockInv, Free, lifeVars, stopVars, waiterVars,
           StartThread
  <2>3. LifeInv'
    BY <1>1
       DEF IInv, TypeOK, LifeInv, lifeVars, stopVars, waiterVars,
           StartThread
  <2>4. UseInv'
    BY <1>1
       DEF IInv, TypeOK, LifeInv, UseInv, LockInv, lifeVars, stopVars, waiterVars,
           StartThread
  <2>5. WakeInv'
    BY <1>1
       DEF IInv, TypeOK, LockInv, LifeInv, WakeInv, Free, lifeVars, stopVars, waiterVars,
           StartThread
  <2>6. AnswerInv'
    BY <1>1
       DEF IInv, TypeOK, LockInv, UseInv, LifeInv, AnswerInv, lifeVars, stopVars, waiterVars,
           StartThread
  <2> QED
    BY <2>1, <2>2, <2>3, <2>4, <2>5, <2>6 DEF IInv
<1>2. CASE RegisterStop
  <2>1. TypeOK'
    BY <1>2
       DEF IInv, TypeOK, Free, lifeVars, stopVars, waiterVars,
           RegisterStop, StopSeenAtStart
  <2>2. LockInv'
    BY <1>2, WaitersAssumption
       DEF IInv, TypeOK, LockInv, Free, lifeVars, stopVars, waiterVars,
           RegisterStop, StopSeenAtStart
  <2>3. LifeInv'
    BY <1>2
       DEF IInv, TypeOK, LifeInv, lifeVars, stopVars, waiterVars,
           RegisterStop, StopSeenAtStart
  <2>4. UseInv'
    BY <1>2
       DEF IInv, TypeOK, LifeInv, UseInv, LockInv, lifeVars, stopVars, waiterVars,
           RegisterStop, StopSeenAtStart
  <2>5. WakeInv'
    BY <1>2
       DEF IInv, TypeOK, LockInv, LifeInv, WakeInv, Free, lifeVars, stopVars, waiterVars,
           RegisterStop, StopSeenAtStart
  <2>6. AnswerInv'
    BY <1>2
       DEF IInv, TypeOK, LockInv, UseInv, LifeInv, AnswerInv, lifeVars, stopVars, waiterVars,
           RegisterStop, StopSeenAtStart
  <2> QED
    BY <2>1, <2>2, <2>3, <2>4, <2>5, <2>6 DEF IInv
<1> QED
  BY <1>1, <1>2

(* ... the proxy thread, ...                                                *)
LEMMA ProxyKeepsInv == IInv /\ (ProxyThread) => IInv'
<1> SUFFICES ASSUME IInv, ProxyThread PROVE IInv'
  OBVIOUS
<1>1. CASE GetProxy
  <2>1. TypeOK'
    BY <1>1
       DEF IInv, TypeOK, Free, lifeVars, stopVars, waiterVars,
           GetProxy
  <2>2. LockInv'
    BY <1>1, WaitersAssumption
       DEF IInv, TypeOK, LockInv, Free, lifeVars, stopVars, waiterVars,
           GetProxy
  <2>3. LifeInv'
    BY <1>1
       DEF IInv, TypeOK, LifeInv, lifeVars, stopVars, waiterVars,
           GetProxy
  <2>4. UseInv'
    BY <1>1
       DEF IInv, TypeOK, LifeInv, UseInv, LockInv, lifeVars, stopVars, waiterVars,
           GetProxy
  <2>5. WakeInv'
    BY <1>1
       DEF IInv, TypeOK, LockInv, LifeInv, WakeInv, Free, lifeVars, stopVars, waiterVars,
           GetProxy
  <2>6. AnswerInv'
    BY <1>1
       DEF IInv, TypeOK, LockInv, UseInv, LifeInv, AnswerInv, lifeVars, stopVars, waiterVars,
           GetProxy
  <2> QED
    BY <2>1, <2>2, <2>3, <2>4, <2>5, <2>6 DEF IInv
<1>2. CASE Setup
  <2>1. TypeOK'
    BY <1>2
       DEF IInv, TypeOK, Free, lifeVars, stopVars, waiterVars,
           Setup
  <2>2. LockInv'
    BY <1>2, WaitersAssumption
       DEF IInv, TypeOK, LockInv, Free, lifeVars, stopVars, waiterVars,
           Setup
  <2>3. LifeInv'
    BY <1>2
       DEF IInv, TypeOK, LifeInv, lifeVars, stopVars, waiterVars,
           Setup
  <2>4. UseInv'
    BY <1>2
       DEF IInv, TypeOK, LifeInv, UseInv, LockInv, lifeVars, stopVars, waiterVars,
           Setup
  <2>5. WakeInv'
    BY <1>2
       DEF IInv, TypeOK, LockInv, LifeInv, WakeInv, Free, lifeVars, stopVars, waiterVars,
           Setup
  <2>6. AnswerInv'
    BY <1>2
       DEF IInv, TypeOK, LockInv, UseInv, LifeInv, AnswerInv, lifeVars, stopVars, waiterVars,
           Setup
  <2> QED
    BY <2>1, <2>2, <2>3, <2>4, <2>5, <2>6 DEF IInv
<1>3. CASE Publish
  <2>1. TypeOK'
    BY <1>3
       DEF IInv, TypeOK, Free, lifeVars, stopVars, waiterVars,
           Publish, PublishesWhen
  <2>2. LockInv'
    BY <1>3, WaitersAssumption
       DEF IInv, TypeOK, LockInv, Free, lifeVars, stopVars, waiterVars,
           Publish, PublishesWhen
  <2>3. LifeInv'
    BY <1>3
       DEF IInv, TypeOK, LifeInv, lifeVars, stopVars, waiterVars,
           Publish, PublishesWhen
  <2>4. UseInv'
    BY <1>3
       DEF IInv, TypeOK, LifeInv, UseInv, LockInv, lifeVars, stopVars, waiterVars,
           Publish, PublishesWhen
  <2>5. WakeInv'
    BY <1>3, WaitersAssumption
       DEF IInv, TypeOK, LockInv, LifeInv, WakeInv, Free, lifeVars, stopVars, waiterVars,
           Publish, PublishesWhen
  <2>6. AnswerInv'
    BY <1>3
       DEF IInv, TypeOK, LockInv, UseInv, LifeInv, AnswerInv, lifeVars, stopVars, waiterVars,
           Publish, PublishesWhen
  <2> QED
    BY <2>1, <2>2, <2>3, <2>4, <2>5, <2>6 DEF IInv
<1>4. CASE Announce
  <2>1. TypeOK'
    BY <1>4
       DEF IInv, TypeOK, Free, lifeVars, stopVars, waiterVars,
           Announce
  <2>2. LockInv'
    BY <1>4, WaitersAssumption
       DEF IInv, TypeOK, LockInv, Free, lifeVars, stopVars, waiterVars,
           Announce
  <2>3. LifeInv'
    BY <1>4
       DEF IInv, TypeOK, LifeInv, lifeVars, stopVars, waiterVars,
           Announce
  <2>4. UseInv'
    BY <1>4
       DEF IInv, TypeOK, LifeInv, UseInv, LockInv, lifeVars, stopVars, waiterVars,
           Announce
  <2>5. WakeInv'
    BY <1>4
       DEF IInv, TypeOK, LockInv, LifeInv, WakeInv, Free, lifeVars, stopVars, waiterVars,
           Announce
  <2>6. AnswerInv'
    BY <1>4
       DEF IInv, TypeOK, LockInv, UseInv, LifeInv, AnswerInv, lifeVars, stopVars, waiterVars,
           Announce
  <2> QED
    BY <2>1, <2>2, <2>3, <2>4, <2>5, <2>6 DEF IInv
<1>5. CASE NotifyAll
  <2>1. TypeOK'
    BY <1>5
       DEF IInv, TypeOK, Free, lifeVars, stopVars, waiterVars,
           NotifyAll, Notified
  <2>2. LockInv'
    BY <1>5, WaitersAssumption
       DEF IInv, TypeOK, LockInv, Free, lifeVars, stopVars, waiterVars,
           NotifyAll, Notified
  <2>3. LifeInv'
    BY <1>5
       DEF IInv, TypeOK, LifeInv, lifeVars, stopVars, waiterVars,
           NotifyAll, Notified
  <2>4. UseInv'
    BY <1>5
       DEF IInv, TypeOK, LifeInv, UseInv, LockInv, lifeVars, stopVars, waiterVars,
           NotifyAll, Notified
  <2>5. WakeInv'
    BY <1>5
       DEF IInv, TypeOK, LockInv, LifeInv, WakeInv, Free, lifeVars, stopVars, waiterVars,
           NotifyAll, Notified
  <2>6. AnswerInv'
    BY <1>5
       DEF IInv, TypeOK, LockInv, UseInv, LifeInv, AnswerInv, lifeVars, stopVars, waiterVars,
           NotifyAll, Notified
  <2> QED
    BY <2>1, <2>2, <2>3, <2>4, <2>5, <2>6 DEF IInv
<1> QED
  BY <1>1, <1>2, <1>3, <1>4, <1>5 DEF ProxyThread

(* ... the destructor ...                                                   *)
LEMMA DestructorKeepsInv == IInv /\ (Destroy \/ Destructor) => IInv'
<1> SUFFICES ASSUME IInv, Destroy \/ Destructor PROVE IInv'
  OBVIOUS
<1>1. CASE Destroy
  <2>1. TypeOK'
    BY <1>1, Remaining
       DEF IInv, TypeOK, Free, lifeVars, stopVars, waiterVars,
           Destroy, ResetOrder
  <2>2. LockInv'
    BY <1>1, Remaining, WaitersAssumption
       DEF IInv, TypeOK, LockInv, Free, lifeVars, stopVars, waiterVars,
           Destroy, ResetOrder
  <2>3. LifeInv'
    BY <1>1, Remaining
       DEF IInv, TypeOK, LifeInv, lifeVars, stopVars, waiterVars,
           Destroy, ResetOrder
  <2>4. UseInv'
    BY <1>1, Remaining
       DEF IInv, TypeOK, LifeInv, UseInv, LockInv, lifeVars, stopVars, waiterVars,
           Destroy, ResetOrder
  <2>5. WakeInv'
    BY <1>1, Remaining
       DEF IInv, TypeOK, LockInv, LifeInv, WakeInv, Free, lifeVars, stopVars, waiterVars,
           Destroy, ResetOrder
  <2>6. AnswerInv'
    BY <1>1, Remaining
       DEF IInv, TypeOK, LockInv, UseInv, LifeInv, AnswerInv, lifeVars, stopVars, waiterVars,
           Destroy, ResetOrder
  <2> QED
    BY <2>1, <2>2, <2>3, <2>4, <2>5, <2>6 DEF IInv
<1>2. CASE ResetStopCallback
  <2>1. TypeOK'
    <3>1. todo' \in {<<>>, <<"internal_config_provider_">>,
                     <<"proxy_available_thread_", "internal_config_provider_">>}
      BY <1>2, Order DEF IInv, Resets, ResetStopCallback
    <3> QED
      BY <1>2, <3>1 DEF IInv, TypeOK, stopVars, waiterVars, ResetStopCallback
  <2>2. LockInv'
    BY <1>2, WaitersAssumption
       DEF IInv, TypeOK, LockInv, Free, lifeVars, stopVars, waiterVars,
           ResetStopCallback, Resets
  <2>3. LifeInv'
    <3>1. todo # <<>> /\ Head(todo) = "stop_callback_" /\ main = "destroy"
      BY <1>2 DEF IInv, TypeOK, LifeInv, Resets, ResetStopCallback
    <3>2. todo' = <<"proxy_available_thread_", "internal_config_provider_">>
      BY <1>2, <3>1, Order DEF IInv, Resets, ResetStopCallback
    <3>3. /\ todo' # <<>>
          /\ Head(todo') = "proxy_available_thread_"
      BY <3>2, Remaining
    <3> QED
      BY <1>2, <3>1, <3>3 DEF IInv, LifeInv, stopVars, waiterVars, ResetStopCallback
  <2>4. UseInv'
    BY <1>2
       DEF IInv, TypeOK, LifeInv, UseInv, LockInv, lifeVars, stopVars, waiterVars,
           ResetStopCallback, Resets
  <2>5. WakeInv'
    BY <1>2
       DEF IInv, TypeOK, LockInv, LifeInv, WakeInv, Free, lifeVars, stopVars, waiterVars,
           ResetStopCallback, Resets
  <2>6. AnswerInv'
    BY <1>2
       DEF IInv, TypeOK, LockInv, UseInv, LifeInv, AnswerInv, lifeVars, stopVars, waiterVars,
           ResetStopCallback, Resets
  <2> QED
    BY <2>1, <2>2, <2>3, <2>4, <2>5, <2>6 DEF IInv
<1>3. CASE StopThread
  <2>1. TypeOK'
    BY <1>3
       DEF IInv, TypeOK, Free, lifeVars, stopVars, waiterVars,
           StopThread, StopOfReset
  <2>2. LockInv'
    BY <1>3, WaitersAssumption
       DEF IInv, TypeOK, LockInv, Free, lifeVars, stopVars, waiterVars,
           StopThread, StopOfReset
  <2>3. LifeInv'
    BY <1>3
       DEF IInv, TypeOK, LifeInv, lifeVars, stopVars, waiterVars,
           StopThread, StopOfReset
  <2>4. UseInv'
    BY <1>3
       DEF IInv, TypeOK, LifeInv, UseInv, LockInv, lifeVars, stopVars, waiterVars,
           StopThread, StopOfReset
  <2>5. WakeInv'
    BY <1>3
       DEF IInv, TypeOK, LockInv, LifeInv, WakeInv, Free, lifeVars, stopVars, waiterVars,
           StopThread, StopOfReset
  <2>6. AnswerInv'
    BY <1>3
       DEF IInv, TypeOK, LockInv, UseInv, LifeInv, AnswerInv, lifeVars, stopVars, waiterVars,
           StopThread, StopOfReset
  <2> QED
    BY <2>1, <2>2, <2>3, <2>4, <2>5, <2>6 DEF IInv
<1>4. CASE JoinThread
  <2>1. TypeOK'
    <3>1. todo' \in {<<>>, <<"internal_config_provider_">>,
                     <<"proxy_available_thread_", "internal_config_provider_">>}
      BY <1>4, Order DEF IInv, Resets, JoinThread
    <3> QED
      BY <1>4, <3>1 DEF IInv, TypeOK, stopVars, waiterVars, JoinThread
  <2>2. LockInv'
    BY <1>4, WaitersAssumption
       DEF IInv, TypeOK, LockInv, Free, lifeVars, stopVars, waiterVars,
           JoinThread, Resets
  <2>3. LifeInv'
    <3>1. todo # <<>> /\ Head(todo) = "proxy_available_thread_" /\ main = "destroy"
      BY <1>4 DEF IInv, TypeOK, LifeInv, Resets, JoinThread
    <3>2. todo' = <<"internal_config_provider_">>
      BY <1>4, <3>1, Order DEF IInv, Resets, JoinThread
    <3>3. /\ todo' # <<>>
          /\ Head(todo') = "internal_config_provider_"
      BY <3>2, Remaining
    <3> QED
      BY <1>4, <3>1, <3>3 DEF IInv, LifeInv, stopVars, waiterVars, JoinThread
  <2>4. UseInv'
    BY <1>4
       DEF IInv, TypeOK, LifeInv, UseInv, LockInv, lifeVars, stopVars, waiterVars,
           JoinThread, Resets
  <2>5. WakeInv'
    BY <1>4
       DEF IInv, TypeOK, LockInv, LifeInv, WakeInv, Free, lifeVars, stopVars, waiterVars,
           JoinThread, Resets
  <2>6. AnswerInv'
    BY <1>4
       DEF IInv, TypeOK, LockInv, UseInv, LifeInv, AnswerInv, lifeVars, stopVars, waiterVars,
           JoinThread, Resets
  <2> QED
    BY <2>1, <2>2, <2>3, <2>4, <2>5, <2>6 DEF IInv
<1>5. CASE ResetProvider
  <2>1. TypeOK'
    <3>1. todo' \in {<<>>, <<"internal_config_provider_">>,
                     <<"proxy_available_thread_", "internal_config_provider_">>}
      BY <1>5, Order DEF IInv, Resets, ResetProvider
    <3> QED
      BY <1>5, <3>1 DEF IInv, TypeOK, stopVars, waiterVars, ResetProvider
  <2>2. LockInv'
    BY <1>5, WaitersAssumption
       DEF IInv, TypeOK, LockInv, Free, lifeVars, stopVars, waiterVars,
           ResetProvider, Resets
  <2>3. LifeInv'
    <3>1. todo # <<>> /\ Head(todo) = "internal_config_provider_" /\ main = "destroy"
      BY <1>5 DEF IInv, TypeOK, LifeInv, Resets, ResetProvider
    <3>2. todo' = <<>>
      BY <1>5, <3>1, Order DEF IInv, Resets, ResetProvider
    <3> QED
      BY <1>5, <3>1, <3>2 DEF IInv, LifeInv, stopVars, waiterVars, ResetProvider
  <2>4. UseInv'
    BY <1>5
       DEF IInv, TypeOK, LifeInv, UseInv, LockInv, lifeVars, stopVars, waiterVars,
           ResetProvider, Resets
  <2>5. WakeInv'
    BY <1>5
       DEF IInv, TypeOK, LockInv, LifeInv, WakeInv, Free, lifeVars, stopVars, waiterVars,
           ResetProvider, Resets
  <2>6. AnswerInv'
    BY <1>5
       DEF IInv, TypeOK, LockInv, UseInv, LifeInv, AnswerInv, lifeVars, stopVars, waiterVars,
           ResetProvider, Resets
  <2> QED
    BY <2>1, <2>2, <2>3, <2>4, <2>5, <2>6 DEF IInv
<1> QED
  BY <1>1, <1>2, <1>3, <1>4, <1>5 DEF Destructor

(* ... and a waiting thread.                                                *)
LEMMA WaiterKeepsInv ==
    ASSUME IInv, NEW u \in Waiters,
           WaitBegins(u) \/ WaitUntilConnected(u) \/ WakesUp(u) \/ TimeExpires(u)
           \/ StopsWaiter(u)
    PROVE  IInv'
<1>1. CASE WaitBegins(u)
  <2>1. TypeOK'
    BY <1>1
       DEF IInv, TypeOK, Free, lifeVars, stopVars, waiterVars,
           WaitBegins, Locks
  <2>2. LockInv'
    BY <1>1, WaitersAssumption
       DEF IInv, TypeOK, LockInv, Free, lifeVars, stopVars, waiterVars,
           WaitBegins, Locks
  <2>3. LifeInv'
    BY <1>1
       DEF IInv, TypeOK, LifeInv, lifeVars, stopVars, waiterVars,
           WaitBegins, Locks
  <2>4. UseInv'
    BY <1>1
       DEF IInv, TypeOK, LifeInv, UseInv, LockInv, lifeVars, stopVars, waiterVars,
           WaitBegins, Locks
  <2>5. WakeInv'
    BY <1>1
       DEF IInv, TypeOK, LockInv, LifeInv, WakeInv, Free, lifeVars, stopVars, waiterVars,
           WaitBegins, Locks
  <2>6. AnswerInv'
    BY <1>1
       DEF IInv, TypeOK, LockInv, UseInv, LifeInv, AnswerInv, lifeVars, stopVars, waiterVars,
           WaitBegins, Locks
  <2> QED
    BY <2>1, <2>2, <2>3, <2>4, <2>5, <2>6 DEF IInv
<1>2. CASE WaitEnds(u)
  <2>1. TypeOK'
    BY <1>2
       DEF IInv, TypeOK, Free, lifeVars, stopVars, waiterVars,
           WaitEnds, Answer, NothingToWaitFor
  <2>2. LockInv'
    BY <1>2, WaitersAssumption
       DEF IInv, TypeOK, LockInv, Free, lifeVars, stopVars, waiterVars,
           WaitEnds, Answer, NothingToWaitFor
  <2>3. LifeInv'
    BY <1>2
       DEF IInv, TypeOK, LifeInv, lifeVars, stopVars, waiterVars,
           WaitEnds, Answer, NothingToWaitFor
  <2>4. UseInv'
    BY <1>2
       DEF IInv, TypeOK, LifeInv, UseInv, LockInv, lifeVars, stopVars, waiterVars,
           WaitEnds, Answer, NothingToWaitFor
  <2>5. WakeInv'
    BY <1>2
       DEF IInv, TypeOK, LockInv, LifeInv, WakeInv, Free, lifeVars, stopVars, waiterVars,
           WaitEnds, Answer, NothingToWaitFor
  <2>6. AnswerInv'
    BY <1>2
       DEF IInv, TypeOK, LockInv, UseInv, LifeInv, AnswerInv, lifeVars, stopVars, waiterVars,
           WaitEnds, Answer, NothingToWaitFor
  <2> QED
    BY <2>1, <2>2, <2>3, <2>4, <2>5, <2>6 DEF IInv
<1>3. CASE WaitGoesOn(u)
  <2>1. TypeOK'
    BY <1>3
       DEF IInv, TypeOK, Free, lifeVars, stopVars, waiterVars,
           WaitGoesOn, NothingToWaitFor
  <2>2. LockInv'
    BY <1>3, WaitersAssumption
       DEF IInv, TypeOK, LockInv, Free, lifeVars, stopVars, waiterVars,
           WaitGoesOn, NothingToWaitFor
  <2>3. LifeInv'
    BY <1>3
       DEF IInv, TypeOK, LifeInv, lifeVars, stopVars, waiterVars,
           WaitGoesOn, NothingToWaitFor
  <2>4. UseInv'
    BY <1>3
       DEF IInv, TypeOK, LifeInv, UseInv, LockInv, lifeVars, stopVars, waiterVars,
           WaitGoesOn, NothingToWaitFor
  <2>5. WakeInv'
    BY <1>3
       DEF IInv, TypeOK, LockInv, LifeInv, WakeInv, Free, lifeVars, stopVars, waiterVars,
           WaitGoesOn, NothingToWaitFor
  <2>6. AnswerInv'
    BY <1>3
       DEF IInv, TypeOK, LockInv, UseInv, LifeInv, AnswerInv, lifeVars, stopVars, waiterVars,
           WaitGoesOn, NothingToWaitFor
  <2> QED
    BY <2>1, <2>2, <2>3, <2>4, <2>5, <2>6 DEF IInv
<1>4. CASE FallsAsleep(u)
  <2>1. TypeOK'
    BY <1>4
       DEF IInv, TypeOK, Free, lifeVars, stopVars, waiterVars,
           FallsAsleep
  <2>2. LockInv'
    BY <1>4, WaitersAssumption
       DEF IInv, TypeOK, LockInv, Free, lifeVars, stopVars, waiterVars,
           FallsAsleep
  <2>3. LifeInv'
    BY <1>4
       DEF IInv, TypeOK, LifeInv, lifeVars, stopVars, waiterVars,
           FallsAsleep
  <2>4. UseInv'
    BY <1>4
       DEF IInv, TypeOK, LifeInv, UseInv, LockInv, lifeVars, stopVars, waiterVars,
           FallsAsleep
  <2>5. WakeInv'
    BY <1>4
       DEF IInv, TypeOK, LockInv, LifeInv, WakeInv, Free, lifeVars, stopVars, waiterVars,
           FallsAsleep
  <2>6. AnswerInv'
    BY <1>4
       DEF IInv, TypeOK, LockInv, UseInv, LifeInv, AnswerInv, lifeVars, stopVars, waiterVars,
           FallsAsleep
  <2> QED
    BY <2>1, <2>2, <2>3, <2>4, <2>5, <2>6 DEF IInv
<1>5. CASE WakesUp(u)
  <2>1. TypeOK'
    BY <1>5
       DEF IInv, TypeOK, Free, lifeVars, stopVars, waiterVars,
           WakesUp
  <2>2. LockInv'
    BY <1>5, WaitersAssumption
       DEF IInv, TypeOK, LockInv, Free, lifeVars, stopVars, waiterVars,
           WakesUp
  <2>3. LifeInv'
    BY <1>5
       DEF IInv, TypeOK, LifeInv, lifeVars, stopVars, waiterVars,
           WakesUp
  <2>4. UseInv'
    BY <1>5
       DEF IInv, TypeOK, LifeInv, UseInv, LockInv, lifeVars, stopVars, waiterVars,
           WakesUp
  <2>5. WakeInv'
    BY <1>5
       DEF IInv, TypeOK, LockInv, LifeInv, WakeInv, Free, lifeVars, stopVars, waiterVars,
           WakesUp
  <2>6. AnswerInv'
    BY <1>5
       DEF IInv, TypeOK, LockInv, UseInv, LifeInv, AnswerInv, lifeVars, stopVars, waiterVars,
           WakesUp
  <2> QED
    BY <2>1, <2>2, <2>3, <2>4, <2>5, <2>6 DEF IInv
<1>6. CASE Relocks(u)
  <2>1. TypeOK'
    BY <1>6
       DEF IInv, TypeOK, Free, lifeVars, stopVars, waiterVars,
           Relocks, Locks
  <2>2. LockInv'
    BY <1>6, WaitersAssumption
       DEF IInv, TypeOK, LockInv, Free, lifeVars, stopVars, waiterVars,
           Relocks, Locks
  <2>3. LifeInv'
    BY <1>6
       DEF IInv, TypeOK, LifeInv, lifeVars, stopVars, waiterVars,
           Relocks, Locks
  <2>4. UseInv'
    BY <1>6
       DEF IInv, TypeOK, LifeInv, UseInv, LockInv, lifeVars, stopVars, waiterVars,
           Relocks, Locks
  <2>5. WakeInv'
    BY <1>6
       DEF IInv, TypeOK, LockInv, LifeInv, WakeInv, Free, lifeVars, stopVars, waiterVars,
           Relocks, Locks
  <2>6. AnswerInv'
    BY <1>6
       DEF IInv, TypeOK, LockInv, UseInv, LifeInv, AnswerInv, lifeVars, stopVars, waiterVars,
           Relocks, Locks
  <2> QED
    BY <2>1, <2>2, <2>3, <2>4, <2>5, <2>6 DEF IInv
<1>7. CASE TimeExpires(u)
  <2>1. TypeOK'
    BY <1>7
       DEF IInv, TypeOK, Free, lifeVars, stopVars, waiterVars,
           TimeExpires
  <2>2. LockInv'
    BY <1>7, WaitersAssumption
       DEF IInv, TypeOK, LockInv, Free, lifeVars, stopVars, waiterVars,
           TimeExpires
  <2>3. LifeInv'
    BY <1>7
       DEF IInv, TypeOK, LifeInv, lifeVars, stopVars, waiterVars,
           TimeExpires
  <2>4. UseInv'
    BY <1>7
       DEF IInv, TypeOK, LifeInv, UseInv, LockInv, lifeVars, stopVars, waiterVars,
           TimeExpires
  <2>5. WakeInv'
    BY <1>7
       DEF IInv, TypeOK, LockInv, LifeInv, WakeInv, Free, lifeVars, stopVars, waiterVars,
           TimeExpires
  <2>6. AnswerInv'
    BY <1>7
       DEF IInv, TypeOK, LockInv, UseInv, LifeInv, AnswerInv, lifeVars, stopVars, waiterVars,
           TimeExpires
  <2> QED
    BY <2>1, <2>2, <2>3, <2>4, <2>5, <2>6 DEF IInv
<1>8. CASE StopsWaiter(u)
  <2>1. TypeOK'
    BY <1>8
       DEF IInv, TypeOK, Free, lifeVars, stopVars, waiterVars,
           StopsWaiter
  <2>2. LockInv'
    BY <1>8, WaitersAssumption
       DEF IInv, TypeOK, LockInv, Free, lifeVars, stopVars, waiterVars,
           StopsWaiter
  <2>3. LifeInv'
    BY <1>8
       DEF IInv, TypeOK, LifeInv, lifeVars, stopVars, waiterVars,
           StopsWaiter
  <2>4. UseInv'
    BY <1>8
       DEF IInv, TypeOK, LifeInv, UseInv, LockInv, lifeVars, stopVars, waiterVars,
           StopsWaiter
  <2>5. WakeInv'
    BY <1>8
       DEF IInv, TypeOK, LockInv, LifeInv, WakeInv, Free, lifeVars, stopVars, waiterVars,
           StopsWaiter
  <2>6. AnswerInv'
    BY <1>8
       DEF IInv, TypeOK, LockInv, UseInv, LifeInv, AnswerInv, lifeVars, stopVars, waiterVars,
           StopsWaiter
  <2> QED
    BY <2>1, <2>2, <2>3, <2>4, <2>5, <2>6 DEF IInv
<1> QED
  BY <1>1, <1>2, <1>3, <1>4, <1>5, <1>6, <1>7, <1>8 DEF WaitUntilConnected

(* The inductive invariant holds in every reachable state.                  *)
THEOREM WInvariance == Spec => []IInv
<1>1. IInv /\ [Next]_vars => IInv'
  <2> SUFFICES ASSUME IInv, [Next]_vars PROVE IInv'
    OBVIOUS
  <2>1. CASE UNCHANGED vars
    BY <2>1 DEF vars, IInv, TypeOK, LockInv, LifeInv, UseInv, WakeInv, AnswerInv
  <2> QED
    BY <2>1, StopKeepsInv, ConstructorKeepsInv, ProxyKeepsInv, DestructorKeepsInv,
       WaiterKeepsInv DEF Next
<1> QED
  BY InitInv, <1>1, PTL DEF Spec

-----------------------------------------------------------------------------
(* Every variable keeps its type, the members their order of destruction.   *)
THEOREM WTypeCorrect == Spec => []TypeOK
<1>1. IInv => TypeOK
  BY DEF IInv
<1> QED
  BY WInvariance, <1>1, PTL

(* No wakeup is lost.                                                       *)
THEOREM WakeupsArrive == Spec => []NoLostWakeup
<1>1. IInv => NoLostWakeup
  BY DEF IInv, WakeInv, NoLostWakeup
<1> QED
  BY WInvariance, <1>1, PTL

(* The stop callback always finds the proxy thread.                         *)
THEOREM CallbackIsSafe == Spec => []StopCallbackHasThread
<1>1. IInv => StopCallbackHasThread
  BY DEF IInv, LifeInv, StopCallbackHasThread
<1> QED
  BY WInvariance, <1>1, PTL

(* Nothing goes on after the destructor.                                    *)
THEOREM GoneIsGone == Spec => []NothingAfterGone
<1>1. IInv => NothingAfterGone
  BY DEF IInv, TypeOK, LockInv, LifeInv, UseInv, NothingAfterGone, Free
<1> QED
  BY WInvariance, <1>1, PTL

(* The answers of WaitUntilConnected agree.                                 *)
THEOREM AnswersDoAgree == Spec => AnswersAgree
<1> DEFINE Agree == \A v, w \in Waiters :
              result[v] = "connected" /\ result'[w] = "timeout" => result[w] = "timeout"
<1>1. IInv /\ [Next]_vars => [Agree]_result
  <2> SUFFICES ASSUME IInv, [Next]_vars, result' # result PROVE Agree
    OBVIOUS
  <2>1. PICK u \in Waiters : WaitBegins(u) \/ WaitEnds(u)
    BY DEF vars, Next, RequestStop, StopCallback, StartThread, RegisterStop,
           ProxyThread, GetProxy, Setup, Publish, Announce, NotifyAll,
           WaitUntilConnected, WaitGoesOn, FallsAsleep, WakesUp, Relocks,
           TimeExpires, StopsWaiter, Destroy, Destructor, ResetStopCallback,
           StopThread, JoinThread, ResetProvider, waiterVars
  <2>2. CASE WaitBegins(u)
    BY <2>2 DEF WaitBegins, IInv, TypeOK
  <2>3. CASE WaitEnds(u)
    <3>1. main = "alive"
      BY <2>3 DEF WaitEnds, IInv, UseInv
    <3>2. result' = [result EXCEPT ![u] = Answer(u)]
      BY <2>3 DEF WaitEnds
    <3>3. Answer(u) = "timeout" => ~connected
      BY DEF Answer
    <3> QED
      BY <3>1, <3>2, <3>3 DEF IInv, TypeOK, AnswerInv
  <2> QED
    BY <2>1, <2>2, <2>3
<1> QED
  BY WInvariance, <1>1, PTL DEF Spec, AnswersAgree
=============================================================================
