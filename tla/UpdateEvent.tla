----------------------------- MODULE UpdateEvent -----------------------------
(***************************************************************************)
(* The LastUpdatedParameterSet event from the daemon's service to the      *)
(* handler of the ConfigProvider: SendLastUpdatedParameterSet writes the   *)
(* name of a set into a sample of fixed size, the middleware (external)    *)
(* keeps a few samples, InternalConfigProvider takes them - on its polling *)
(* thread and in CheckParameterSetUpdates - and its polling thread calls   *)
(* the handler for every name it took.                                     *)
(*                                                                         *)
(* There are two mutexes, ConfigProviderImpl's (outerLock), held by        *)
(* CheckParameterSetUpdates and taken by the handler, and that of          *)
(* InternalConfigProvider (lock), held by the polling thread except when   *)
(* it calls the handler or sleeps.  Characters and names are abstract.     *)
(***************************************************************************)
EXTENDS Integers, Sequences, FiniteSets

CONSTANTS
    Apps,       \* threads of the application
    Names,      \* names of parameter sets: sequences of characters
    Chars,      \* characters
    SampleSize, \* the size of ParameterSetName
    Slots,      \* the samples the middleware keeps
    Limits,     \* the values an application may give max_samples_limit
    MaxSends,   \* bound on the number of sends
    MaxFailures \* bound on the failures of GetNewSamples

ASSUME EventAssumption ==
    /\ {"free", "poll"} \cap Apps = {}
    /\ 0 \notin Chars
    /\ SampleSize \in Nat /\ Slots \in Nat \ {0}
    /\ Names \subseteq Seq(Chars)
    /\ \A n \in Names : Len(n) <= SampleSize
    /\ Limits \subseteq Nat
    /\ MaxSends \in Nat /\ MaxFailures \in Nat

VARIABLES
    main,       \* where the life of the provider is
    limit,      \* max_samples_limit_
    subscribed, \* the middleware has a subscription
    queue,      \* the samples it keeps
    pending,    \* last_updated_parameter_set_names_
    lock,       \* the owner of InternalConfigProvider::mutex_
    outerLock,  \* the owner of ConfigProviderImpl::mutex_
    pc,         \* where the polling thread is
    batch,      \* parameter_set_names
    handling,   \* the name, if any, the handler is called with
    stop,       \* the stop token of the polling thread
    app,        \* where each application thread is
    sends,      \* the number of sends
    failures,   \* the number of failures of GetNewSamples
    credit      \* of each name, the sends less the calls of the handler

threadVars  == <<pc, batch, handling>>
historyVars == <<sends, failures, credit>>
vars == <<main, limit, subscribed, queue, pending, lock, outerLock, threadVars,
          stop, app, historyVars>>

Free == "free"
Samples == [1 .. SampleSize -> Chars \cup {0}]

Init ==
    /\ main = "made"
    /\ limit \in Limits
    /\ subscribed = FALSE
    /\ queue = <<>>
    /\ pending = {}
    /\ lock = Free /\ outerLock = Free
    /\ pc = "none"
    /\ batch = {}
    /\ handling = {}
    /\ stop = FALSE
    /\ app = [a \in Apps |-> "idle"]
    /\ sends = 0 /\ failures = 0
    /\ credit = [n \in Names |-> 0]

-----------------------------------------------------------------------------
(***************************************************************************)
(* The daemon's side.                                                      *)
(***************************************************************************)

(* std::copy of a name into a sample.                                       *)
Copied(name, sample) ==
    [i \in 1 .. SampleSize |-> IF i <= Len(name) THEN name[i] ELSE sample[i]]

(* Seeded fault: the sample is not cleared.                                 *)
NotCleared(sample) == sample

(* std::fill with 0.                                                        *)
Cleared(sample) == [i \in 1 .. SampleSize |-> 0]

(* The name in a sample: what is before the first 0.                        *)
IsEnd(sample, e) ==
    /\ \A i \in 1 .. e : sample[i] # 0
    /\ e = SampleSize \/ sample[e + 1] = 0
NameIn(sample) ==
    LET end == CHOOSE e \in 0 .. SampleSize : IsEnd(sample, e)
    IN  SubSeq(sample, 1, end)

(* The middleware drops the oldest sample of a full event.                  *)
Delivered(sample) ==
    IF ~subscribed THEN queue
    ELSE Append(IF Len(queue) < Slots THEN queue ELSE Tail(queue), sample)

(* The allocated sample holds what was in its memory before.  An Allocate   *)
(* or a Send that fails sends nothing.                                      *)
SendLastUpdatedParameterSet(name, memory) ==
    /\ sends < MaxSends
    /\ sends' = sends + 1
    /\ queue' = Delivered(Copied(name, Cleared(memory)))
    /\ credit' = [credit EXCEPT ![name] = @ + 1]
    /\ UNCHANGED <<main, limit, subscribed, pending, lock, outerLock, threadVars,
                   stop, app, failures>>

-----------------------------------------------------------------------------
(***************************************************************************)
(* Taking samples, with lock held.                                         *)
(***************************************************************************)

(* Seeded fault: as many samples as the limit allows, whatever is pending.  *)
WholeLimit == limit

FreeSlots == limit - Cardinality(pending)

Taken == IF FreeSlots <= Len(queue) THEN FreeSlots ELSE Len(queue)
TakenNames == {NameIn(queue[i]) : i \in 1 .. Taken}

(* GetLastUpdatedParameterSetNewSamples, when it succeeds ...               *)
TakesSamples ==
    /\ subscribed
    /\ pending' = pending \cup TakenNames
    /\ queue' = SubSeq(queue, Taken + 1, Len(queue))
    /\ UNCHANGED failures

(* ... and when GetNewSamples fails.                                        *)
TakingFails ==
    /\ ~subscribed \/ failures < MaxFailures
    /\ failures' = IF subscribed THEN failures + 1 ELSE failures
    /\ UNCHANGED <<pending, queue>>

-----------------------------------------------------------------------------
(***************************************************************************)
(* Setup and destruction by the ConfigProvider.                            *)
(***************************************************************************)

(* TrySubscribeToLastUpdatedParameterSetEvent: whether Subscribe worked is  *)
(* not looked at.                                                           *)
TrySubscribe ==
    /\ main = "made" /\ lock = Free
    /\ subscribed' \in BOOLEAN
    /\ main' = "subscribed"
    /\ UNCHANGED <<limit, queue, pending, lock, outerLock, threadVars, stop, app,
                   historyVars>>

(* StartParameterSetUpdatePollingRoutine, with outerLock held; the provider *)
(* is published at the same time.  A limit (or an interval) of zero aborts. *)
Start ==
    /\ main = "subscribed" /\ outerLock = Free /\ lock = Free
    /\ \/ limit = 0 /\ main' = "aborted" /\ UNCHANGED pc
       \/ limit > 0 /\ main' = "alive" /\ pc' = "lock"
    /\ UNCHANGED <<limit, subscribed, queue, pending, lock, outerLock, batch,
                   handling, stop, app, historyVars>>

(* Seeded fault: the stop does not reach a thread that sleeps.              *)
SleepsOn == pc

(* The polling thread is asked to stop; a sleeping one wakes up.            *)
Woken == IF pc = "asleep" THEN "relock" ELSE pc

RequestStop ==
    /\ main = "alive"
    /\ \A a \in Apps : app[a] = "idle"
    /\ main' = "stopping"
    /\ stop' = TRUE
    /\ pc' = Woken
    /\ UNCHANGED <<limit, subscribed, queue, pending, lock, outerLock, batch,
                   handling, app, historyVars>>

Joined == pc = "done"

(* StopParameterSetUpdatePollingRoutine joins it, the destructor            *)
(* unsubscribes.                                                            *)
Destroy ==
    /\ main = "stopping"
    /\ Joined
    /\ main' = "gone"
    /\ subscribed' = FALSE
    /\ queue' = <<>>
    /\ UNCHANGED <<limit, pending, lock, outerLock, threadVars, stop, app,
                   historyVars>>

-----------------------------------------------------------------------------
(***************************************************************************)
(* CheckParameterSetUpdates of an application thread.                      *)
(***************************************************************************)
CheckLocks(a) ==
    /\ main = "alive"
    /\ app[a] = "idle" /\ outerLock = Free
    /\ outerLock' = a
    /\ app' = [app EXCEPT ![a] = "check"]
    /\ UNCHANGED <<main, limit, subscribed, queue, pending, lock, threadVars, stop,
                   historyVars>>

(* Seeded fault: the polling thread is not notified.                        *)
NotNotified == pc

NotifyOne == Woken

CheckTakes(a) ==
    /\ app[a] = "check" /\ lock = Free
    /\ \/ TakesSamples /\ pc' = NotifyOne
       \/ TakingFails /\ UNCHANGED pc
    /\ outerLock' = Free
    /\ app' = [app EXCEPT ![a] = "idle"]
    /\ UNCHANGED <<main, limit, subscribed, lock, batch, handling, stop, sends,
                   credit>>

-----------------------------------------------------------------------------
(***************************************************************************)
(* The polling thread.                                                     *)
(***************************************************************************)
Goes(to) == pc' = to

Locks(from, to) ==
    /\ pc = from /\ lock = Free
    /\ lock' = "poll"
    /\ Goes(to)
    /\ UNCHANGED <<main, limit, subscribed, queue, pending, outerLock, batch,
                   handling, stop, app, historyVars>>

(* At the head of the loop.                                                 *)
Leaves ==
    /\ pc = "poll" /\ stop
    /\ Goes("done")
    /\ lock' = Free
    /\ UNCHANGED <<main, limit, subscribed, queue, pending, outerLock, batch,
                   handling, stop, app, historyVars>>

(* Seeded fault: the handler is called with the mutex held.                 *)
KeptLocked == lock

Unlocked == Free

(* Seeded fault: the names are copied and stay.                             *)
NotSwapped == pending \cup TakenNames

AfterSwap == {}

(* The names taken, now and before, are swapped out and dispatched.         *)
Polls ==
    /\ pc = "poll" /\ ~stop
    /\ subscribed
    /\ batch' = pending \cup TakenNames
    /\ pending' = AfterSwap
    /\ queue' = SubSeq(queue, Taken + 1, Len(queue))
    /\ Goes("dispatch")
    /\ lock' = Unlocked
    /\ UNCHANGED <<main, limit, subscribed, outerLock, handling, stop, app,
                   historyVars>>

PollFails ==
    /\ pc = "poll" /\ ~stop
    /\ TakingFails
    /\ Goes("wait")
    /\ UNCHANGED <<main, limit, subscribed, lock, outerLock, batch, handling, stop,
                   app, sends, credit>>

(* The handler is LastUpdatedParameterSetReceiveHandler.                    *)
CallHandler(n) ==
    /\ pc = "dispatch" /\ n \in batch /\ ~stop
    /\ batch' = batch \ {n}
    /\ handling' = {n}
    /\ credit' = [credit EXCEPT ![n] = @ - 1]
    /\ Goes("handle")
    /\ UNCHANGED <<main, limit, subscribed, queue, pending, lock, outerLock, stop,
                   app, sends, failures>>

HandlerLocks ==
    /\ pc = "handle" /\ outerLock = Free
    /\ outerLock' = "poll"
    /\ Goes("handling")
    /\ UNCHANGED <<main, limit, subscribed, queue, pending, lock, batch, handling,
                   stop, app, historyVars>>

HandlerReturns ==
    /\ pc = "handling"
    /\ outerLock' = Free
    /\ handling' = {}
    /\ Goes("dispatch")
    /\ UNCHANGED <<main, limit, subscribed, queue, pending, lock, batch, stop, app,
                   historyVars>>

DispatchEnds ==
    /\ pc = "dispatch"
    /\ batch = {} \/ stop
    /\ batch' = {}
    /\ Goes("relock")
    /\ UNCHANGED <<main, limit, subscribed, queue, pending, lock, outerLock,
                   handling, stop, app, historyVars>>

(* wait_for: nothing to wait for, or sleep without the mutex.               *)
WaitEnds ==
    /\ pc = "wait"
    /\ pending # {} \/ stop
    /\ Goes("poll")
    /\ UNCHANGED <<main, limit, subscribed, queue, pending, lock, outerLock, batch,
                   handling, stop, app, historyVars>>

FallsAsleep ==
    /\ pc = "wait"
    /\ pending = {} /\ ~stop
    /\ Goes("asleep")
    /\ lock' = Free
    /\ UNCHANGED <<main, limit, subscribed, queue, pending, outerLock, batch,
                   handling, stop, app, historyVars>>

(* The interval is over, or the thread wakes up for no reason.              *)
WakesUp ==
    /\ pc = "asleep"
    /\ pc' \in {"lock", "relock"}
    /\ UNCHANGED <<main, limit, subscribed, queue, pending, lock, outerLock, batch,
                   handling, stop, app, historyVars>>

PollingThread ==
    \/ Locks("lock", "poll") \/ Locks("relock", "wait")
    \/ Leaves \/ Polls \/ DispatchEnds \/ WaitEnds \/ FallsAsleep
    \/ \E n \in batch : CallHandler(n)
    \/ HandlerReturns

Next ==
    \/ \E n \in Names, memory \in Samples : SendLastUpdatedParameterSet(n, memory)
    \/ TrySubscribe \/ Start \/ RequestStop \/ Destroy
    \/ \E a \in Apps : CheckLocks(a) \/ CheckTakes(a)
    \/ PollingThread \/ PollFails \/ HandlerLocks \/ WakesUp

Spec == Init /\ [][Next]_vars

(* Threads that can run do run, and who waits for a mutex that is free      *)
(* again and again gets it.  Nothing is assumed of the interval, and        *)
(* GetNewSamples does not fail for ever.                                    *)
FairSpec ==
    /\ Spec
    /\ WF_vars(PollingThread \/ PollFails)
    /\ SF_vars(HandlerLocks)
    /\ WF_vars(Destroy)
    /\ \A a \in Apps : SF_vars(CheckTakes(a))

-----------------------------------------------------------------------------
(* Every variable has its type: what is taken from a sample is a name.      *)
TypeOK ==
    /\ main \in {"made", "subscribed", "alive", "stopping", "gone", "aborted"}
    /\ limit \in Limits
    /\ {subscribed, stop} \subseteq BOOLEAN
    /\ queue \in Seq(Samples) /\ Len(queue) <= Slots
    /\ pending \subseteq Names /\ batch \subseteq Names
    /\ lock \in {Free, "poll"} /\ outerLock \in Apps \cup {Free, "poll"}
    /\ pc \in {"none", "lock", "poll", "dispatch", "handle", "handling", "relock",
               "wait", "asleep", "done"}
    /\ handling \in SUBSET Names
    /\ app \in [Apps -> {"idle", "check"}]
    /\ sends \in 0 .. MaxSends /\ failures \in 0 .. MaxFailures
    /\ credit \in [Names -> Int]

(* The handler is not called with a name more often than the name was sent. *)
DispatchedWasSent == \A n \in Names : credit[n] >= 0

(* The precondition of GetLastUpdatedParameterSetNewSamples: never are more *)
(* names pending than the limit, whoever took them.                         *)
WithinLimit == Cardinality(pending) <= limit

(* When the destructor is done the polling thread is too, and no mutex is   *)
(* held.                                                                    *)
NothingAfterGone ==
    main = "gone" => pc = "done" /\ lock = Free /\ outerLock = Free

(* What was taken from the event reaches the handler without the help of    *)
(* the interval, unless the provider is stopped.                            *)
TakenIsDispatched ==
    \A n \in Names : /\ n \in pending ~> n \in batch \/ stop
                     /\ n \in batch ~> n \in handling \/ stop

(* A call of CheckParameterSetUpdates returns: the two mutexes are never    *)
(* waited for crosswise.                                                    *)
CheckReturns == \A a \in Apps : app[a] = "check" ~> app[a] = "idle"

(* A provider that is stopped is gone in the end.                           *)
StopEnds == main = "stopping" ~> main = "gone"

-----------------------------------------------------------------------------
(* With its samples, two threads and two mutexes this is a channel of       *)
(* names: each name comes out of its sample whole and is treated as the     *)
(* channel says, whichever thread took it.                                  *)
Kept == [i \in 1 .. Len(queue) |-> NameIn(queue[i])]
Channel ==
    INSTANCE NameChannel WITH
      open <- subscribed, kept <- Kept, waiting <- pending, round <- batch,
      treated <- handling, stopped <- stop
ChannelSpec == Channel!ChannelSpec
=============================================================================
