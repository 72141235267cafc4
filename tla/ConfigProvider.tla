--------------------------- MODULE ConfigProvider ---------------------------
(***************************************************************************)
(* The ConfigProvider library of score/config_management: an in-memory     *)
(* cache of parameter sets inside an application, kept up to date from the *)
(* ConfigDaemon.                                                           *)
(*                                                                         *)
(* Four kinds of threads run here:                                         *)
(*   - the proxy thread (proxy_available_thread_), which waits for the     *)
(*     daemon's service and then runs SetupInternalConfigProvider once;    *)
(*   - the polling thread of InternalConfigProvider, which takes the names *)
(*     of changed sets from the LastUpdatedParameterSet event and calls    *)
(*     LastUpdatedParameterSetReceiveHandler for each;                     *)
(*   - the application's threads (Clients), which call the public methods; *)
(*   - the thread that destroys the ConfigProvider.                        *)
(* They share the cache, the handlers and the provider pointer under       *)
(* ConfigProviderImpl::mutex_.  A method that fetches from the daemon      *)
(* holds that mutex from the fetch to the store, and the daemon may move   *)
(* on in between: such a method is two actions here, with mutex held.  The *)
(* critical sections of InternalConfigProvider::mutex_ contain no other    *)
(* blocking call and are one action each.                                  *)
(*                                                                         *)
(* The content of a parameter set is abstracted to the number of updates   *)
(* the daemon had made to it.  The InitialQualifierState is the subject of *)
(* module QualifierState.                                                  *)
(***************************************************************************)
EXTENDS Naturals, Sequences, FiniteSets, Functions

CONSTANTS
    SetNames,    \* the names of the parameter sets
    Clients,     \* the application's threads
    Callbacks,   \* the callbacks they may register
    MaxVersion,  \* bound: the daemon stops changing a set at this version
    EventSlots,  \* samples the event keeps for a subscriber: Subscribe(2)
    MaxSamples,  \* max_samples_limit
    Faults,      \* which calls may fail: see FaultKinds
    Absent       \* the value of a name that is no key of a map

FaultKinds == {"subscribe", "fetch", "poll", "send"}

ASSUME ConstantsAssumption ==
    /\ IsFiniteSet(SetNames)
    /\ MaxVersion \in Nat \ {0}
    /\ EventSlots \in Nat \ {0}
    /\ MaxSamples \in Nat \ {0}
    /\ Faults \subseteq FaultKinds
    /\ Absent \notin Nat
    /\ Absent \notin SetNames
    /\ {"free", "setup", "poll"} \cap Clients = {}
    /\ {"none", "empty"} \cap Callbacks = {}

Versions == 0..MaxVersion
Threads  == Clients \cup {"setup", "poll"}

VARIABLES
    version,    \* daemon: version of each parameter set in the data model
    announce,   \* daemon: sets changed whose LastUpdated event is not sent yet
    subscribed, \* the event keeps samples for the provider
    ring,       \* event samples sent and not yet taken by GetNewSamples
    pending,    \* last_updated_parameter_set_names_
    batch,      \* names swapped out of pending, not yet dispatched
    pollPc,     \* where the polling thread is
    provider,   \* internal_config_provider_ # nullptr
    cache,      \* parameter_sets_
    handlers,   \* client_handlers_: none, an empty callback, a callback
    mutex,      \* the owner of ConfigProviderImpl::mutex_
    setupPc,    \* where the proxy thread is
    todo,       \* set_names of the initial fetch that remain
    fetched,    \* updated_parameter_sets of the initial fetch
    clientPc,   \* where each application thread is
    want,       \* the names a GetParameterSetsByNameList still has to treat
    hand,       \* the set and value a thread holds between fetch and store
    staged,     \* persistency: sets handed to CacheParameterSet
    stored,     \* persistency: sets in the storage
    life,       \* how far the destructor is
    observed,   \* history: version last given to the application, per set
    missed      \* history: sets whose last update was lost by a named fault

daemonVars  == <<version, announce>>
event       == <<subscribed, ring>>
pollVars    == <<pending, batch, pollPc>>
setupVars   == <<setupPc, todo, fetched>>
clientVars  == <<clientPc, want>>
storageVars == <<staged, stored>>
vars == <<version, announce, subscribed, ring, pending, batch, pollPc, provider,
          cache, handlers, mutex, setupPc, todo, fetched, clientPc, want, hand,
          staged, stored, life, observed, missed>>

Free    == "free"
NoHand  == [set |-> Absent, value |-> Absent]
AbsentMap == [s \in SetNames |-> Absent]

Cached == {s \in SetNames : cache[s] # Absent}

(* Seeded fault: nobody requests the polling thread's stop.                 *)
StopPollingForgotten == FALSE

(* The destructor has requested the polling thread's stop.                  *)
StopPolling == life = "joinPoll"

(* Seeded fault: the lock_guard is missing.                                 *)
LockForgotten(t) == mutex' = t

(* A lock_guard that stays locked over more than one step of the model.     *)
Lock(t) == mutex = Free /\ mutex' = t
Unlock  == mutex' = Free

(* Seeded faults: an empty callback is not registered; any registration     *)
(* replaces the one before.                                                 *)
RegisteredIfCallback(hs, s, h) ==
    IF hs[s] \notin Callbacks /\ h \in Callbacks THEN [hs EXCEPT ![s] = h] ELSE hs
RegisteredAlways(hs, s, h) == [hs EXCEPT ![s] = h]

(* RegisterUpdateHandlerForParameterSetName: a callback replaces nothing or *)
(* an empty callback, an empty callback only nothing.                       *)
Registered(hs, s, h) ==
    IF hs[s] = "none" \/ (hs[s] = "empty" /\ h # "empty")
    THEN [hs EXCEPT ![s] = h] ELSE hs

(* Seeded fault: the sync_to_storage flag is ignored.                       *)
PersistStagedOnly(s, v, sync) ==
    staged' = [staged EXCEPT ![s] = v] /\ stored' = stored

(* Persistency::CacheParameterSet with its sync_to_storage flag.           *)
Persist(s, v, sync) ==
    /\ staged' = [staged EXCEPT ![s] = v]
    /\ stored' = IF sync THEN [staged EXCEPT ![s] = v] ELSE stored

(* A fetch of the current version makes up for the updates missed before.  *)
CaughtUp(s, v) == IF v = version[s] THEN missed \ {s} ELSE missed

(* Seeded fault: the limit is ignored.                                      *)
NumTakenUnlimited == Len(ring)

(***************************************************************************)
(* GetLastUpdatedParameterSetNewSamples: takes as many samples as there    *)
(* are free slots, oldest first, into a set of names.  The middleware is   *)
(* taken to keep the samples that were not asked for.                      *)
(***************************************************************************)
FreeSlots == MaxSamples - Cardinality(pending)
NumTaken  == IF Len(ring) <= FreeSlots THEN Len(ring) ELSE FreeSlots

(* Seeded fault: the names taken earlier and not dispatched yet are lost.   *)
NewNamesOnly == {ring[i] : i \in 1..NumTaken}
NewNames  == pending \cup {ring[i] : i \in 1..NumTaken}
RestOfRing == SubSeq(ring, NumTaken + 1, Len(ring))

-----------------------------------------------------------------------------
Init ==
    /\ version = [s \in SetNames |-> 1]
    /\ announce = {}
    /\ subscribed = FALSE /\ ring = <<>>
    /\ pending = {} /\ batch = {} /\ pollPc = "off"
    /\ provider = FALSE
    /\ stored \in [SetNames -> {Absent, 0}]      \* what an earlier run saved
    /\ staged = stored
    /\ cache = stored                            \* ReadCachedParameterSets
    /\ handlers = [s \in SetNames |-> "none"]
    /\ mutex = Free
    /\ setupPc = "getProxy" /\ todo = {} /\ fetched = AbsentMap
    /\ clientPc = [c \in Clients |-> "idle"]
    /\ want = [c \in Clients |-> {}]
    /\ hand = [t \in Threads |-> NoHand]
    /\ life = "alive"
    /\ observed = AbsentMap
    /\ missed = {}

-----------------------------------------------------------------------------
(***************************************************************************)
(* The daemon: a plugin updates a set in the data model and afterwards     *)
(* sends the set's name (SendLastUpdatedParameterSet).  Allocate or Send   *)
(* may fail, a full event drops its oldest sample, and without a           *)
(* subscription it keeps none.                                             *)
(***************************************************************************)
DaemonUpdate(s) ==
    /\ version[s] < MaxVersion
    /\ version' = [version EXCEPT ![s] = @ + 1]
    /\ announce' = announce \cup {s}
    /\ UNCHANGED <<event, pollVars, provider, cache, handlers, mutex, setupVars,
                   clientVars, hand, storageVars, life, observed, missed>>

Pushed(s) == IF Len(ring) < EventSlots THEN Append(ring, s)
                                       ELSE Append(Tail(ring), s)

(* The provider has called Subscribe and not yet Unsubscribe.               *)
Listens == setupPc \notin {"getProxy", "subscribe", "failed"} /\ life # "destroyed"

(* History: what a send loses, to a full event or to a failed Subscribe.    *)
Dropped(s) ==
    IF subscribed THEN IF Len(ring) < EventSlots THEN {} ELSE {Head(ring)}
    ELSE IF Listens THEN {s} ELSE {}

DaemonSend(s) ==
    /\ s \in announce
    /\ announce' = announce \ {s}
    /\ ring' = IF subscribed THEN Pushed(s) ELSE ring
    /\ missed' = missed \cup Dropped(s)
    /\ UNCHANGED <<version, subscribed, pollVars, provider, cache, handlers, mutex,
                   setupVars, clientVars, hand, storageVars, life, observed>>

DaemonSendFails(s) ==
    /\ "send" \in Faults
    /\ s \in announce
    /\ announce' = announce \ {s}
    /\ missed' = missed \cup {s}
    /\ UNCHANGED <<version, event, pollVars, provider, cache, handlers, mutex,
                   setupVars, clientVars, hand, storageVars, life, observed>>

-----------------------------------------------------------------------------
(***************************************************************************)
(* The proxy thread.  proxy_future.Get ends with the proxy or, when no     *)
(* service is found or a stop is requested, with an error.                 *)
(***************************************************************************)
SetupGo(from, to) == setupPc = from /\ setupPc' = to

SetupGetsProxy ==
    /\ SetupGo("getProxy", "subscribe")
    /\ UNCHANGED <<daemonVars, event, pollVars, provider, cache, handlers, mutex,
                   todo, fetched, clientVars, hand, storageVars, life,
                   observed, missed>>

SetupGetsNoProxy ==
    /\ SetupGo("getProxy", "failed")
    /\ UNCHANGED <<daemonVars, event, pollVars, provider, cache, handlers, mutex,
                   todo, fetched, clientVars, hand, storageVars, life,
                   observed, missed>>

(* Seeded fault: the event is subscribed when the cache was written.        *)
SetupSubscribesLate ==
    /\ \/ SetupGo("subscribe", "fetch") /\ UNCHANGED subscribed
       \/ SetupGo("register", "register") /\ subscribed' = TRUE
    /\ UNCHANGED <<daemonVars, ring, pollVars, provider, cache, handlers, mutex,
                   todo, fetched, clientVars, hand, storageVars, life,
                   observed, missed>>

(* TrySubscribeToLastUpdatedParameterSetEvent does not look at the result   *)
(* of Subscribe and returns true: if it failed, the setup goes on all the   *)
(* same, and its branch "Failed to subscribe" is never taken.               *)
SetupSubscribe ==
    /\ SetupGo("subscribe", "fetch")
    /\ \/ subscribed' = TRUE
       \/ "subscribe" \in Faults /\ UNCHANGED subscribed
    /\ UNCHANGED <<daemonVars, ring, pollVars, provider, cache, handlers, mutex,
                   todo, fetched, clientVars, hand, storageVars, life,
                   observed, missed>>

(* FetchInitialParameterSetValuesFrom: under the mutex, one fetch per name. *)
SetupFetchBegin ==
    /\ SetupGo("fetch", "fetching")
    /\ Lock("setup")
    /\ todo' = Cached
    /\ UNCHANGED <<daemonVars, event, pollVars, provider, cache, handlers,
                   fetched, clientVars, hand, storageVars, life,
                   observed, missed>>

SetupFetchOne(s) ==
    /\ setupPc = "fetching"
    /\ s \in todo
    /\ todo' = todo \ {s}
    /\ \/ /\ fetched' = [fetched EXCEPT ![s] = version[s]]
          /\ UNCHANGED missed
       \/ /\ "fetch" \in Faults
          /\ missed' = missed \cup {s}
          /\ UNCHANGED fetched
    /\ UNCHANGED <<daemonVars, event, pollVars, provider, cache, handlers, mutex,
                   setupPc, clientVars, hand, storageVars, life, observed>>

SetupFetchEnd ==
    /\ SetupGo("fetching", "write")
    /\ todo = {}
    /\ Unlock
    /\ UNCHANGED <<daemonVars, event, pollVars, provider, cache, handlers,
                   todo, fetched, clientVars, hand, storageVars, life,
                   observed, missed>>

(* WriteInitialParameterSetValuesToPersistentCache: what was fetched goes to *)
(* the storage and, unless it is nothing, becomes the whole cache.          *)
Fetched == {s \in SetNames : fetched[s] # Absent}
(* Seeded faults: the storage is replaced by what was fetched; nothing      *)
(* fetched empties the cache.                                               *)
SavedFetchedOnly == IF Fetched = {} THEN staged ELSE fetched
RefetchedAlways == fetched

Saved == [s \in SetNames |-> IF s \in Fetched THEN fetched[s] ELSE staged[s]]
Refetched == IF Fetched = {} THEN cache ELSE fetched

SetupWrite ==
    /\ SetupGo("write", "register")
    /\ mutex = Free
    /\ staged' = Saved
    /\ stored' = staged'
    /\ cache' = Refetched
    /\ missed' = missed \ {s \in Fetched : fetched[s] = version[s]}
    /\ fetched' = AbsentMap
    /\ UNCHANGED <<daemonVars, event, pollVars, provider, handlers, mutex,
                   todo, clientVars, hand, life, observed>>

(* RegisterCallbacksForPersistedParameterSetNames.                          *)
SetupRegister ==
    /\ SetupGo("register", "publish")
    /\ mutex = Free
    /\ handlers' = [s \in SetNames |-> IF s \in Cached
                                       THEN Registered(handlers, s, "empty")[s]
                                       ELSE handlers[s]]
    /\ UNCHANGED <<daemonVars, event, pollVars, provider, cache, mutex, todo,
                   fetched, clientVars, hand, storageVars, life,
                   observed, missed>>

(* internal_config_provider_ is set and the polling thread started.         *)
SetupPublish ==
    /\ SetupGo("publish", "announce")
    /\ mutex = Free
    /\ provider' = TRUE
    /\ pollPc' = "poll"
    /\ UNCHANGED <<daemonVars, event, pending, batch, cache, handlers, mutex,
                   todo, fetched, clientVars, hand, storageVars, life,
                   observed, missed>>

(* The is_available callback and the notification of WaitUntilConnected.    *)
SetupAnnounce ==
    /\ SetupGo("announce", "done")
    /\ UNCHANGED <<daemonVars, event, pollVars, provider, cache, handlers, mutex,
                   todo, fetched, clientVars, hand, storageVars, life,
                   observed, missed>>

SetupNext ==
    \/ SetupGetsProxy \/ SetupGetsNoProxy \/ SetupSubscribe
    \/ SetupFetchBegin \/ (\E s \in SetNames : SetupFetchOne(s)) \/ SetupFetchEnd
    \/ SetupWrite \/ SetupRegister \/ SetupPublish \/ SetupAnnounce

-----------------------------------------------------------------------------
(***************************************************************************)
(* The polling thread.  One round: take the new samples, swap the names    *)
(* out, call the handler for each name in the set's own order unless a     *)
(* stop is requested, and wait for the next cycle.                         *)
(***************************************************************************)
Poll ==
    /\ pollPc = "poll" /\ ~StopPolling
    /\ subscribed
    /\ ring' = RestOfRing
    /\ batch' = NewNames
    /\ pending' = {}
    /\ pollPc' = "dispatch"
    /\ UNCHANGED <<daemonVars, subscribed, provider, cache, handlers, mutex,
                   setupVars, clientVars, hand, storageVars, life, observed,
                   missed>>

(* GetNewSamples may fail, and does so without a subscription.              *)
PollFails ==
    /\ ~subscribed \/ "poll" \in Faults
    /\ pollPc = "poll" /\ ~StopPolling
    /\ pollPc' = "wait"
    /\ UNCHANGED <<daemonVars, event, pending, batch, provider, cache, handlers,
                   mutex, setupVars, clientVars, hand, storageVars, life,
                   observed, missed>>

(* The wait ends with the interval, a notification or a stop request.       *)
PollWakes ==
    /\ pollPc = "wait"
    /\ pollPc' = IF StopPolling THEN "ended" ELSE "poll"
    /\ UNCHANGED <<daemonVars, event, pending, batch, provider, cache, handlers,
                   mutex, setupVars, clientVars, hand, storageVars, life,
                   observed, missed>>

PollEnds ==
    /\ pollPc = "poll" /\ StopPolling
    /\ pollPc' = "ended"
    /\ UNCHANGED <<daemonVars, event, pending, batch, provider, cache, handlers,
                   mutex, setupVars, clientVars, hand, storageVars, life,
                   observed, missed>>

DispatchNext(s) ==
    /\ pollPc = "dispatch" /\ ~StopPolling
    /\ s \in batch
    /\ batch' = batch \ {s}
    /\ hand' = [hand EXCEPT !["poll"] = [set |-> s, value |-> Absent]]
    /\ pollPc' = "handler"
    /\ UNCHANGED <<daemonVars, event, pending, provider, cache, handlers, mutex,
                   setupVars, clientVars, storageVars, life, observed, missed>>

DispatchEnds ==
    /\ pollPc = "dispatch"
    /\ batch = {} \/ StopPolling
    /\ batch' = {}
    /\ pollPc' = "wait"
    /\ UNCHANGED <<daemonVars, event, pending, provider, cache, handlers, mutex,
                   setupVars, clientVars, hand, storageVars, life,
                   observed, missed>>

(***************************************************************************)
(* LastUpdatedParameterSetReceiveHandler, on the polling thread.           *)
(***************************************************************************)
HandlerIgnores(s) ==
    /\ pollPc = "handler" /\ hand["poll"].set = s
    /\ mutex = Free
    /\ handlers[s] = "none" \/ ~provider
    /\ hand' = [hand EXCEPT !["poll"] = NoHand]
    /\ pollPc' = "dispatch"
    /\ UNCHANGED <<daemonVars, event, pending, batch, provider, cache, handlers,
                   mutex, setupVars, clientVars, storageVars, life,
                   observed, missed>>

HandlerFetch(s) ==
    /\ pollPc = "handler" /\ hand["poll"].set = s
    /\ Lock("poll")
    /\ handlers[s] # "none" /\ provider
    /\ hand' = [hand EXCEPT !["poll"] = [set |-> s, value |-> version[s]]]
    /\ pollPc' = "deliver"
    /\ UNCHANGED <<daemonVars, event, pending, batch, provider, cache, handlers,
                   setupVars, clientVars, storageVars, life, observed, missed>>

(* A failed fetch is not retried: the event is used up.                     *)
HandlerFetchFails(s) ==
    /\ "fetch" \in Faults
    /\ pollPc = "handler" /\ hand["poll"].set = s
    /\ mutex = Free
    /\ handlers[s] # "none" /\ provider
    /\ hand' = [hand EXCEPT !["poll"] = NoHand]
    /\ pollPc' = "dispatch"
    /\ missed' = missed \cup {s}
    /\ UNCHANGED <<daemonVars, event, pending, batch, provider, cache, handlers,
                   mutex, setupVars, clientVars, storageVars, life, observed>>

HandlerDelivers(s) ==
    /\ pollPc = "deliver" /\ hand["poll"].set = s
    /\ LET v == hand["poll"].value IN
         /\ Persist(s, v, TRUE)
         /\ cache' = [cache EXCEPT ![s] = v]
         /\ observed' = IF handlers[s] \in Callbacks
                        THEN [observed EXCEPT ![s] = v] ELSE observed
         /\ missed' = CaughtUp(s, v)
    /\ hand' = [hand EXCEPT !["poll"] = NoHand]
    /\ Unlock
    /\ pollPc' = "dispatch"
    /\ UNCHANGED <<daemonVars, event, pending, batch, provider, handlers,
                   setupVars, clientVars, life>>

PollThreadNext ==
    \/ Poll \/ PollFails \/ PollWakes \/ PollEnds \/ DispatchEnds
    \/ \E s \in SetNames : \/ DispatchNext(s) \/ HandlerIgnores(s)
                           \/ HandlerFetch(s) \/ HandlerFetchFails(s)
                           \/ HandlerDelivers(s)

-----------------------------------------------------------------------------
(***************************************************************************)
(* The application's threads.  They call methods only while the object     *)
(* lives.  A call that changes nothing (kProxyNotReady, a failed fetch,    *)
(* kCallbackAlreadySet) is no step of the model.                           *)
(***************************************************************************)
ClientGo(c, from, to) ==
    /\ life = "alive"
    /\ clientPc[c] = from
    /\ clientPc' = [clientPc EXCEPT ![c] = to]

(* GetParameterSet of a cached set.                                         *)
GetCached(c, s) ==
    /\ ClientGo(c, "idle", "idle")
    /\ mutex = Free
    /\ s \in Cached
    /\ observed' = [observed EXCEPT ![s] = cache[s]]
    /\ UNCHANGED <<daemonVars, event, pollVars, provider, cache, handlers, mutex,
                   setupVars, want, hand, storageVars, life, missed>>

(* A set that is not cached is fetched with the mutex held.                 *)
Fetch(c, s) ==
    /\ Lock(c)
    /\ s \notin Cached
    /\ provider
    /\ hand' = [hand EXCEPT ![c] = [set |-> s, value |-> version[s]]]

GetFetches(c, s) ==
    /\ ClientGo(c, "idle", "get")
    /\ Fetch(c, s)
    /\ UNCHANGED <<daemonVars, event, pollVars, provider, cache, handlers,
                   setupVars, want, storageVars, life, observed, missed>>

(* try_emplace into the cache, a handler for the new set, and the mutex is  *)
(* given back; sync tells whether the storage is written at once.           *)
StoreFetched(c, s, v, sync) ==
    /\ Persist(s, v, sync)
    /\ cache' = IF s \in Cached THEN cache ELSE [cache EXCEPT ![s] = v]
    /\ handlers' = Registered(handlers, s, "empty")
    /\ observed' = [observed EXCEPT ![s] = v]
    /\ missed' = CaughtUp(s, v)
    /\ hand' = [hand EXCEPT ![c] = NoHand]
    /\ Unlock

GetStores(c, s) ==
    /\ ClientGo(c, "get", "idle")
    /\ hand[c].set = s
    /\ StoreFetched(c, s, hand[c].value, TRUE)
    /\ UNCHANGED <<daemonVars, event, pollVars, provider, setupVars, want, life>>

(* GetParameterSetsByNameList takes the mutex for each name and writes the  *)
(* storage once at the end, after the last unlock.                          *)
ListBegins(c, names) ==
    /\ ClientGo(c, "idle", "list")
    /\ want' = [want EXCEPT ![c] = names]
    /\ UNCHANGED <<daemonVars, event, pollVars, provider, cache, handlers, mutex,
                   setupVars, hand, storageVars, life, observed, missed>>

ListCached(c, s) ==
    /\ ClientGo(c, "list", "list")
    /\ mutex = Free
    /\ s \in want[c] \cap Cached
    /\ want' = [want EXCEPT ![c] = @ \ {s}]
    /\ observed' = [observed EXCEPT ![s] = cache[s]]
    /\ UNCHANGED <<daemonVars, event, pollVars, provider, cache, handlers, mutex,
                   setupVars, hand, storageVars, life, missed>>

(* kProxyNotReady without a provider, kParameterSetNotFound after an error. *)
ListSkips(c, s) ==
    /\ ClientGo(c, "list", "list")
    /\ mutex = Free
    /\ s \in want[c] \ Cached
    /\ ~provider \/ "fetch" \in Faults
    /\ want' = [want EXCEPT ![c] = @ \ {s}]
    /\ UNCHANGED <<daemonVars, event, pollVars, provider, cache, handlers, mutex,
                   setupVars, hand, storageVars, life, observed, missed>>

ListFetches(c, s) ==
    /\ ClientGo(c, "list", "listStore")
    /\ s \in want[c]
    /\ Fetch(c, s)
    /\ want' = [want EXCEPT ![c] = @ \ {s}]
    /\ UNCHANGED <<daemonVars, event, pollVars, provider, cache, handlers,
                   setupVars, storageVars, life, observed, missed>>

ListStores(c, s) ==
    /\ ClientGo(c, "listStore", "list")
    /\ hand[c].set = s
    /\ StoreFetched(c, s, hand[c].value, FALSE)
    /\ UNCHANGED <<daemonVars, event, pollVars, provider, setupVars, want, life>>

ListSyncs(c) ==
    /\ ClientGo(c, "list", "idle")
    /\ want[c] = {}
    /\ stored' = staged
    /\ UNCHANGED <<daemonVars, event, pollVars, provider, cache, handlers, mutex,
                   setupVars, want, hand, staged, life, observed, missed>>

(* OnChangedParameterSet with a callback that is not empty.                 *)
OnChanged(c, s, k) ==
    /\ ClientGo(c, "idle", "idle")
    /\ mutex = Free
    /\ handlers' = Registered(handlers, s, k)
    /\ UNCHANGED <<daemonVars, event, pollVars, provider, cache, mutex, setupVars,
                   want, hand, storageVars, life, observed, missed>>

(* CheckParameterSetUpdates: the new names are added to the pending ones.   *)
CheckUpdates(c) ==
    /\ ClientGo(c, "idle", "idle")
    /\ mutex = Free
    /\ provider /\ subscribed
    /\ ring' = RestOfRing
    /\ pending' = NewNames
    /\ UNCHANGED <<daemonVars, subscribed, batch, pollPc, provider, cache, handlers, mutex,
                   setupVars, want, hand, storageVars, life, observed, missed>>

ClientNext(c) ==
    \/ \E s \in SetNames :
         \/ GetCached(c, s)  \/ GetFetches(c, s)  \/ GetStores(c, s)
         \/ ListCached(c, s) \/ ListSkips(c, s)   \/ ListFetches(c, s)
         \/ ListStores(c, s)
         \/ \E k \in Callbacks : OnChanged(c, s, k)
    \/ \E names \in SUBSET SetNames : ListBegins(c, names)
    \/ ListSyncs(c) \/ CheckUpdates(c)

-----------------------------------------------------------------------------
(***************************************************************************)
(* The destructor.  The owner calls it when no other call is in progress.  *)
(* The stop callback goes first, the proxy thread is stopped and joined,   *)
(* then the polling thread is stopped and joined, then the provider goes   *)
(* and with it its subscription.                                           *)
(***************************************************************************)
DestroyBegins ==
    /\ life = "alive"
    /\ \A c \in Clients : clientPc[c] = "idle"
    /\ life' = "joinSetup"
    /\ UNCHANGED <<daemonVars, event, pollVars, provider, cache, handlers, mutex,
                   setupVars, clientVars, hand, storageVars, observed, missed>>

(* Seeded faults: a thread is not joined.                                   *)
DestroySkipsSetup ==
    /\ life = "joinSetup"
    /\ life' = IF provider THEN "joinPoll" ELSE "destroyed"
    /\ UNCHANGED <<daemonVars, event, pollVars, provider, cache, handlers, mutex,
                   setupVars, clientVars, hand, storageVars, observed, missed>>

DestroySkipsPoll ==
    /\ life = "joinPoll"
    /\ life' = "destroyed"
    /\ provider' = FALSE
    /\ subscribed' = FALSE /\ ring' = <<>>
    /\ UNCHANGED <<daemonVars, pollVars, cache, handlers, mutex, setupVars,
                   clientVars, hand, storageVars, observed, missed>>

DestroyJoinsSetup ==
    /\ life = "joinSetup"
    /\ setupPc \in {"done", "failed"}
    /\ life' = IF provider THEN "joinPoll" ELSE "destroyed"
    /\ UNCHANGED <<daemonVars, event, pollVars, provider, cache, handlers, mutex,
                   setupVars, clientVars, hand, storageVars, observed, missed>>

DestroyJoinsPoll ==
    /\ life = "joinPoll"
    /\ pollPc = "ended"
    /\ life' = "destroyed"
    /\ provider' = FALSE
    /\ subscribed' = FALSE /\ ring' = <<>>
    /\ UNCHANGED <<daemonVars, pollVars, cache, handlers, mutex, setupVars,
                   clientVars, hand, storageVars, observed, missed>>

(* The run is over; the daemon may still take its own steps.                *)
Gone == life = "destroyed" /\ UNCHANGED vars

DestroyNext == DestroyBegins \/ DestroyJoinsSetup \/ DestroyJoinsPoll

DaemonNext == \E s \in SetNames :
                DaemonUpdate(s) \/ DaemonSend(s) \/ DaemonSendFails(s)

Next ==
    \/ DaemonNext
    \/ SetupNext
    \/ PollThreadNext
    \/ \E c \in Clients : ClientNext(c)
    \/ DestroyNext
    \/ Gone

Spec == Init /\ [][Next]_vars

(***************************************************************************)
(* Fairness: threads that can run do run, started calls are carried on, a  *)
(* plugin sends what it announced, and proxy_future.Get answers at least   *)
(* after a stop request.  Nothing makes the application start a call, the  *)
(* daemon change a set or the service appear.                              *)
(***************************************************************************)
Fairness ==
    /\ WF_vars(SetupNext /\ (setupPc = "getProxy" => life # "alive"))
    /\ WF_vars(PollThreadNext)
    /\ \A s \in SetNames : WF_vars(DaemonSend(s))
    /\ \A c \in Clients : WF_vars(clientPc[c] # "idle" /\ ClientNext(c))
    /\ WF_vars(DestroyJoinsSetup \/ DestroyJoinsPoll)

FairSpec == Spec /\ Fairness

-----------------------------------------------------------------------------
MapType  == [SetNames -> Versions \cup {Absent}]
HandType == [set : SetNames \cup {Absent}, value : Versions \cup {Absent}]

(***************************************************************************)
(* The types; the event never holds more than its slots and                *)
(* last_updated_parameter_set_names_ never exceeds max_samples_limit, the  *)
(* precondition of GetLastUpdatedParameterSetNewSamples.                   *)
(***************************************************************************)
TypeOK ==
    /\ version \in [SetNames -> Versions]
    /\ announce \subseteq SetNames
    /\ subscribed \in BOOLEAN
    /\ ring \in Seq(SetNames) /\ Len(ring) <= EventSlots
    /\ pending \subseteq SetNames /\ Cardinality(pending) <= MaxSamples
    /\ batch \subseteq SetNames
    /\ pollPc \in {"off", "poll", "dispatch", "handler", "deliver", "wait", "ended"}
    /\ provider \in BOOLEAN
    /\ cache \in MapType /\ fetched \in MapType
    /\ staged \in MapType /\ stored \in MapType /\ observed \in MapType
    /\ handlers \in [SetNames -> {"none", "empty"} \cup Callbacks]
    /\ mutex \in Threads \cup {Free}
    /\ setupPc \in {"getProxy", "subscribe", "fetch", "fetching", "write",
                    "register", "publish", "announce", "done", "failed"}
    /\ todo \subseteq SetNames /\ missed \subseteq SetNames
    /\ clientPc \in [Clients -> {"idle", "get", "list", "listStore"}]
    /\ want \in [Clients -> SUBSET SetNames]
    /\ hand \in [Threads -> HandType]
    /\ life \in {"alive", "joinSetup", "joinPoll", "destroyed"}

(* The thread holds a fetched value and must still store it.                *)
Holds(t) == \/ t = "setup" /\ setupPc = "fetching"
            \/ t = "poll" /\ pollPc = "deliver"
            \/ t \in Clients /\ clientPc[t] \in {"get", "listStore"}

(***************************************************************************)
(* Between a fetch and the store of its result the thread owns mutex_, so  *)
(* that no two threads carry fetched values at once (NOTE in               *)
(* GetParameterSetFromInternalConfigProvider).                             *)
(***************************************************************************)
FetchedUnderMutex == \A t \in Threads : Holds(t) <=> mutex = t

(***************************************************************************)
(* Once the provider is connected every cached set has an update handler;  *)
(* without one LastUpdatedParameterSetReceiveHandler drops its events.     *)
(***************************************************************************)
CachedSetsHaveHandlers ==
    provider => \A s \in Cached : handlers[s] # "none"

(***************************************************************************)
(* While the polling thread runs, internal_config_provider_ is set: the    *)
(* branch LastUpdatedParameterSetReceiveHandler calls "not reachable" is,  *)
(* at the start of the routine and while the destructor waits for it.      *)
(***************************************************************************)
PollingHasProvider == pollPc \notin {"off", "ended"} => provider

(* The update of s is announced and no handler has treated it yet.          *)
OnItsWay(s) == \/ s \in announce \/ s \in pending \/ s \in batch
               \/ s \in Range(ring)
               \/ pollPc = "handler" /\ hand["poll"].set = s

BeingStored(s) == /\ pollPc = "deliver"
                  /\ hand["poll"] = [set |-> s, value |-> version[s]]

(* The cached sets that nothing will bring up to date any more.             *)
LeftBehind == {s \in Cached : cache[s] # version[s] /\ ~OnItsWay(s) /\ ~BeingStored(s)}

(***************************************************************************)
(* No update is lost: if a connected provider caches an old version of a   *)
(* set, then the event that will bring the new one is on its way, or one   *)
(* of the named faults took it (full event, failed send, failed fetch, or  *)
(* the failed Subscribe that leaves the provider without events).          *)
(***************************************************************************)
NoLostUpdate == provider /\ life = "alive" => LeftBehind \subseteq missed

(***************************************************************************)
(* The same without an excuse: a cached set is kept up to date ("keep this *)
(* newly cached parameter set up-to-date", GetParameterSet).               *)
(***************************************************************************)
EveryUpdateArrives == provider /\ life = "alive" => LeftBehind = {}

(***************************************************************************)
(* When no method is between its store and its SyncToStorage, what is      *)
(* cached is in the storage: a restart begins with what the application    *)
(* last worked with.                                                       *)
(***************************************************************************)
StorageIsCurrent ==
    (\A c \in Clients : clientPc[c] \in {"idle", "get"}) =>
        \A s \in Cached : stored[s] = cache[s]

(***************************************************************************)
(* Nothing the application has seen is forgotten: outside of a             *)
(* GetParameterSetsByNameList, wherever the process ends, the storage has  *)
(* for every set at least the version the application was last given, also *)
(* for a set the initial fetch dropped from the cache.                     *)
(***************************************************************************)
SeenIsStored ==
    (\A c \in Clients : clientPc[c] \in {"idle", "get"}) =>
        \A s \in SetNames : observed[s] # Absent =>
            stored[s] # Absent /\ stored[s] >= observed[s]

(***************************************************************************)
(* After the destructor no thread of the library is left that could use a  *)
(* member ("no more concurrent accesses", comment in the destructor).      *)
(***************************************************************************)
NothingRunsAfterDestruction ==
    life = "destroyed" => /\ setupPc \in {"done", "failed"}
                          /\ pollPc \in {"off", "ended"}
                          /\ mutex = Free /\ ~provider

(***************************************************************************)
(* What GetParameterSet, GetParameterSetsByNameList and the callbacks give *)
(* to the application for one set never goes back to an older version.     *)
(***************************************************************************)
NeverGoesBack ==
    [][\A s \in SetNames : observed[s] # Absent => observed'[s] >= observed[s]]_vars

(***************************************************************************)
(* Under fairness, once the daemon stops changing a set, the cached copy   *)
(* becomes and stays current ("keep this newly cached parameter set        *)
(* up-to-date", GetParameterSet).                                          *)
(***************************************************************************)
KeepsUp ==
    <>[](provider /\ life = "alive" => \A s \in Cached : cache[s] = version[s])

(* The polling thread is about to call k with the daemon's present version. *)
CallsBack(k, s) == BeingStored(s) /\ handlers[s] = k

(***************************************************************************)
(* The callback an application registered for a set is called for every    *)
(* later change of it, unless the provider goes: neither a second callback *)
(* nor the empty handlers that GetParameterSet, the list call and the      *)
(* setup register take its place.                                          *)
(***************************************************************************)
CallbackIsCalled ==
    \A k \in Callbacks, s \in SetNames :
        (provider /\ handlers[s] = k /\ s \in announce)
            ~> (life # "alive" \/ CallsBack(k, s))

(* The destructor always returns.                                           *)
DestructorReturns == life = "joinSetup" ~> life = "destroyed"

(***************************************************************************)
(* When the is_available callback runs, every cached set was updated with  *)
(* the daemon's value (README of the config_provider); a change after that *)
(* is at least on its way.                                                 *)
(***************************************************************************)
AvailableMeansUpdated ==
    setupPc = "announce" =>
        \A s \in Cached : cache[s] = version[s] \/ OnItsWay(s)

-----------------------------------------------------------------------------
(***************************************************************************)
(* The provider implements the cache its users are promised.               *)
(***************************************************************************)
Phase == CASE life = "destroyed" -> "closed"
           [] life # "destroyed" /\ provider -> "connected"
           [] life # "destroyed" /\ ~provider -> "loading"

Promise == INSTANCE ParameterCache WITH phase <- Phase
PromiseSpec == Promise!Spec

(***************************************************************************)
(* The event, the names pending and the dispatch are the channel that      *)
(* UpdateEvent implements in detail: what is left out here of samples and  *)
(* of InternalConfigProvider's mutex does not matter to the names.         *)
(***************************************************************************)
Stopped == life \in {"joinPoll", "destroyed"}
Treated == {hand["poll"].set} \ {Absent}

Channel ==
    INSTANCE NameChannel WITH
      Names <- SetNames, Slots <- EventSlots, limit <- MaxSamples,
      open <- subscribed, kept <- ring, waiting <- pending, round <- batch,
      treated <- Treated, stopped <- Stopped
ChannelSpec == Channel!ChannelSpec
=============================================================================
