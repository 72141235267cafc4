# A verification of score config management

`src/score/config_management` holds two programs that work together.  The
**ConfigDaemon** is an application that keeps the parameters of a vehicle in a
data model, filled and changed by plugins.  The **ConfigProvider** is a library
that applications link: it fetches parameter sets from the daemon, caches them in
memory and in a persistent storage, and keeps the cache up to date.  They meet in
one middleware service, `InternalConfigProvider`, with one method (get a
parameter set), one event (the name of the set changed last) and one field (the
`InitialQualifierState`).

This directory holds TLA+ models of both, the TLC runs that check them on small
instances, and proofs, checked by TLAPS, of the safety properties for instances
of any size.  Paths below are relative to `src/score/config_management`; CP
stands for `config_provider/code`, CD for `config_daemon/code`.

## 1. The system

| Component | Source | State | Operations |
|---|---|---|---|
| ConfigProvider | `CP/config_provider/details/config_provider_impl.*` | `parameter_sets_` (cache), `client_handlers_`, `internal_config_provider_`, `initial_qualifier_state_`, `proxy_available_thread_`, `stop_callback_`, `mutex_`, a condition variable | constructor, `SetupInternalConfigProvider` on the proxy thread, `GetParameterSet`, `GetParameterSetsByNameList`, `OnChangedParameterSet`, `CheckParameterSetUpdates`, `GetInitialQualifierState`, `WaitUntilConnected`, the update handler, destructor |
| InternalConfigProvider (client side) | `CP/proxies/details/mw_com/internal_config_provider_impl.*` | `last_updated_parameter_set_names_`, `initial_qualifier_state_`, the polling thread, a mutex of its own | `TrySubscribe…`, `PollingRoutine`, `CheckParameterSetUpdates`, `GetInitialQualifierState`, `GetParameterSet` |
| Persistency | `CP/persistency/**` | storage of an earlier run | `ReadCachedParameterSets`, `CacheParameterSet`, `SyncToStorage` |
| ParameterSet (client side) | `CP/parameter_set/**` | a JSON document, never changed | `GetParameterAs` of a value, an array or a two-dimensional array, `GetParameterAsJsonAny`, `GetParametersAsString`, `GetQualifier`, `ContainsSameContent` |
| ConfigProviderFactory | `CP/config_provider/factory` | none | `Create` in four overloads |
| ConfigDaemon | `CD/app/details/config_daemon_impl.*` | `plugins_`, `provided_services_container_`, the data model | `Initialize`, `Run`, destruction |
| Plugin collector | `CD/plugins/plugin_collector/**` | the creators | `CreatePlugins` |
| Parameter set collection (data model) | `CD/data_model/**` | a map of sets, each with parameters, a qualifier and a flag, one mutex | `Insert`, `UpdateParameterSet`, `GetParameterSet`, `GetParameterFromSet`, the qualifier's and the flag's accessors |
| Service and reactor | `CD/services/**` | the event, the field | `SendLastUpdatedParameterSet`, `SetInitialQualifierState`, `GetParameterSet`, `StartService`, `StopService` |
| Daemon factory | `CD/factory` | none | creation of the service and of the senders |
| JSON helper, fault event reporter | `CD/json_helper`, `CD/fault_event_reporter` | none | parsing, a placeholder |

How they interact:

* The daemon's plugins call the data model and two *senders*, function objects
  that point into the service: one sends a set's name, the other sets the field.
* The service answers a fetch through the reactor, which reads the data model and
  makes a JSON document of the set and sends its text; the client parses the text,
  and its `ParameterSet` holds what was parsed.
* A set's name travels in a sample of 41 bytes.
* `Create` makes a provider, waits for its connection and hands it out.
* The client side polls the event on a thread of its own and calls
  `LastUpdatedParameterSetReceiveHandler` for every name it finds; the handler
  fetches the set, stores it in cache and storage and calls the application.
* The application's threads call the public methods at any time.  The proxy
  thread runs once, when the service is found.  All of them share the members of
  `ConfigProviderImpl` under `mutex_`, which a method holds from a fetch to the
  store of its result.
* The destructor stops and joins the proxy thread, which may just have created
  the polling thread, and then the polling thread.

What is hard in it: five kinds of threads in the library; a remote value that
changes between its fetch and its store; an event with two slots that is polled
every five seconds; fetches, sends and subscriptions that fail, and none of which
is retried; a storage that lags behind the cache; a destruction that may meet any
of this; two mutexes of which each thread takes the one or the other first; a
final qualifier state that is cached for good; a document that may be damaged, that
travels as a text which need not keep every number, and arrays that are converted
in place; in the daemon, a start
with a failure at every step and a stop at any time, plugin threads that outlive
`Run`, and a data model read and written by several threads.  The list of
hazards, each at its line and with the properties that would show it, is in
`PROJECT.json`.

What makes each component correct:

* *ConfigProvider.*  No interleaving loses an update, lets a set go back to an
  older version, drops the handler of a cached set or replaces an application's
  callback; the storage holds what was cached; the cache keeps up; the destructor
  returns and leaves no thread; nobody misses the connection; the callback an
  application registered is the one that is called.
* *Qualifier state.*  What is cached is a final state that the daemon sent, it is
  never replaced by an older one, and an application told a final state is not
  told later that the state is open.
* *Event.*  The names an application's handler is called with were sent, and not
  called more often than sent; the pending ones never exceed the limit; what was
  taken is dispatched; nobody waits for ever for one of the two mutexes.
* *Factory.*  `Create` returns when its timeout or its stop says so.
* *ParameterSet.*  A read returns what a plugin inserted, as a whole and as near as
  text and type hold it, or an error that tells why not.
* *Data model.*  Its calls take effect at once or not at all.
* *ConfigDaemon.*  The service is offered only when the data model is populated;
  plugins whose Run was called are deinitialised; their senders stay valid; a stop
  ends the application.

## 2. The modules

| Module | Models |
|---|---|
| `ConfigProvider` | the library: cache, handlers, proxy thread, polling thread, application threads, destructor, and the daemon as its environment |
| `ParameterCache` | what the library promises: a cache without threads, events or storage (abstract specification) |
| `ConfigProviderInvariant`, `ConfigProvider_proof` | the inductive invariant of `ConfigProvider` and the proofs |
| `QualifierState`, `QualifierState_proof` | the way of the `InitialQualifierState` from a plugin to an application |
| `QualifierRegister` | what the library promises of that state: a register read at once, which settles (abstract specification) |
| `Connection`, `Connection_proof` | stop callback, proxy thread, `WaitUntilConnected` and the destructor's order |
| `Factory`, `Factory_proof` | `ConfigProviderFactory::Create` and the use of the provider it returns, on top of `Connection` |
| `UpdateEvent`, `UpdateEvent_proof` | the event from `SendLastUpdatedParameterSet` to the update handler, with samples and mutexes |
| `NameChannel` | what both models of the event promise: a bounded channel of names, treated in rounds (abstract specification) |
| `ParameterSetAccess`, `ParameterSetAccess_proof` | a set on its way from the data model into a JSON document, its text and the client, and the typed reads of it |
| `DataModelTypes`, `DataModel` | the values, and the data model with atomic calls (abstract specification) |
| `ParameterSetCollection`, `ParameterSetCollection_proof` | the data model as it is coded, parameter by parameter under its mutex |
| `ConfigDaemon`, `ConfigDaemon_proof` | the daemon application, loop by loop |
| `DaemonLife` | what the daemon promises of its life: the stages of its plugins and of its service (abstract specification) |
| `MC…` | the instances TLC checks |

Each detailed module has its abstract specification through `INSTANCE … WITH`:
`ConfigProvider` has `ParameterCache` (`PromiseSpec`) and `NameChannel`
(`ChannelSpec`), `UpdateEvent` has `NameChannel` too, `QualifierState` has
`QualifierRegister` (`RegisterSpec`), `ParameterSetCollection` has `DataModel`
(`ModelSpec`) and `ConfigDaemon` has `DaemonLife` (`LifeSpec`).  `Factory` extends
`Connection`.
The library is cut into several modules where the code allows it.  The stop
callback, the condition variable and the qualifier state share with the cache only
the mutex and the moment at which `internal_config_provider_` is set, and
`ConfigProvider`, `Connection` and `QualifierState` each have both.  `UpdateEvent`
has the class `InternalConfigProvider` and its mutex in full and only the outline
of the handler; `ConfigProvider` has the handler in full and no second mutex.  What
ties the two together is `NameChannel`, which both implement: to the names it makes
no difference that `ConfigProvider` leaves out samples and the second mutex.

### ConfigProvider

The content of a set is the number of updates the daemon had made to it
(`version`); `cache`, `staged`, `stored`, `fetched` and `hand` hold such numbers.
A method that fetches is two actions, the fetch and the store, with `mutex` held
in between, because the daemon moves on meanwhile: `GetFetches`/`GetStores`,
`ListFetches`/`ListStores`, `HandlerFetch`/`HandlerDelivers`,
`SetupFetchBegin`/`SetupFetchOne`/`SetupFetchEnd`.  `SetupWrite`, which takes the
mutex anew, is a step apart from the fetches, as in the code, where the mutex is
free in between.  The polling thread is `Poll`, one `DispatchNext` and one handler
for each name, `DispatchEnds`, `PollWakes`; `pending` and `batch` are the names
before and after the swap.  `GetParameterSetsByNameList` takes the mutex for every
name and writes the storage at the end (`ListSyncs`).  `OnChangedParameterSet` and
the empty handlers of the library go through one operator, `Registered`; a handler
is `"none"`, `"empty"` or one of the application's `Callbacks`, so that one callback
in the place of another is seen.
`observed` and `missed` are history variables: what the application was given last,
and the sets whose update a *named* fault took (a full event, a failed send, a
failed fetch, a failed `Subscribe`).

`TrySubscribe…` ignores what `Subscribe` returns and answers true
(`internal_config_provider_impl.cpp:111` and 114).  So `SetupSubscribe` goes on in
any case, and with the fault `"subscribe"` it leaves `subscribed` FALSE: the provider
is connected and published, polls in vain, and hears of no change for good.  The
branch of `SetupInternalConfigProvider` for a failed subscription
(`config_provider_impl.cpp:149`) is never taken with this implementation, and has no
action.  `Faults` names what may fail in a run: `"subscribe"`, `"fetch"`,
`"send"`, `"poll"`.

As a `NameChannel`, the event's slots are what is kept, `pending`
what waits, `batch` the round, and the name whose fetch the handler has in hand is
the one being treated; the channel is stopped from the time the destructor waits
for the polling thread.

Assumptions: calls that change nothing (an error return) are not steps; the
middleware keeps samples that were not asked for, drops the oldest of a full
event, and a fetch yields the current value or an error; the application calls no
method during destruction; its callbacks do not call back.

`GetParameterSet` of the client-side proxy is a stub in the repository (it always
returns an empty value, `internal_config_provider_impl.cpp:96`), and so is the
persistency (`persistency_impl.cpp`).  Both are modelled as their interfaces
describe them, and marked external.

### QualifierState

A state is kept with its place in the sequence of states the field has had, so
that *older* has a meaning.  `InternalConfigProvider` converts its member after it
released its own mutex, and `ConfigProviderImpl` looks at its cache before it
takes its mutex; taking the sample, converting, and caching are therefore steps.
The samples are delivered asynchronously (`Deliver`), and only the newest is seen.
`FirstValues` is what the provider's member may hold before anything is written to
it: it has no initializer (finding 3).  As a `QualifierRegister`, a taken sample is a
state that arrives, and the cache is what settles the register.

### Connection

The constructor's two steps (thread, then stop callback), the stop request and the
callback in the requesting thread, the proxy thread, each waiter's check, sleep
and re-check with the mutex, and the destructor's resets in their order
(`ResetOrder`), each with what it waits for.  A sleeping waiter is woken by the
notification, its stop token, its timeout or for no reason.  What the proxy thread
does between proxy and publication is the single step `Setup`.  A timeout may be
over when the wait begins, as a timeout of zero is.  `Tied` are the waiters that
wait with the stop token the provider has.  The destructor starts when no waiter
is inside a call.

### Factory

`Constructs`, `CreateWaits`, `CreateGoesOn` and `CreateEnds` are `CreateInternal`;
each is a step of `Connection` with a condition on it.  Before `Create` returned
nobody else has the provider, so `Uses` (other waiters, the destruction) begins
after it.  `overload` tells the calls with a timeout from those with a
`Persistency`, which pass a timeout of zero.  What `WaitUntilConnected` answers is
ignored, in the code as in `CreateEnds`.

### UpdateEvent

A name is a sequence of characters, a sample a function from `1 .. SampleSize` to
characters and 0.  `Copied(name, Cleared(memory))` is the sender's `std::fill` and
`std::copy`, where `memory` is whatever the allocated sample holds; `NameIn` is the
receiver's search for the first 0.  `lock` is the mutex of `InternalConfigProvider`,
`outerLock` the one of `ConfigProviderImpl`, which an application thread owns in
`CheckParameterSetUpdates` and the handler takes.  The polling thread is cut where
it takes or gives a mutex: `Locks`, `Polls` (the names are swapped out and the
mutex released), `CallHandler`, `HandlerLocks`, `HandlerReturns`, `DispatchEnds`,
`WaitEnds`, `FallsAsleep`, `WakesUp`.  A limit of zero aborts the process in
`Start`.  `credit` is a history variable: the sends of a name less the calls of the
handler with it.  Assumptions: a name is no longer than the sample (see
section 4), and the application calls nothing when it destroys the provider.

### ParameterSetAccess

JSON values are records with one field, `leaf`, `list` or `object`.  The JSON
library is constants: `Write` (`JsonWriter::ToBuffer`, which may fail) and `Parse`
between values and texts, `As` from a type and a leaf to a value, and `Cast` for
`static_cast`.  `GetParameterSetAsString` is the text the daemon's reactor answers
with; `ArrivesFromDaemon` parses it, and does not happen when it could not be
written.  **A text is not taken for the value it is the text of.**  The repository's
tests show that numbers change on the way: `parameter_set_test.cpp:331` parses 3.222
and line 351 expects 3.22199988, while a double that was not parsed is written in
full (`parameterset_collection_impl_test.cpp:100`).  What is assumed of writer and
parser is `TextAssumption`: they keep the form of a document and the numbers of the
qualifiers, and turn each other leaf into the leaf `Rounded` says (`Reread` for a
whole value).  What is assumed of the numbers is `NumberAssumption`: `As` gives the
value of the type that is `Nearest` to the leaf, or none, and so does the cast of an
integer to a floating point type.  `ReadsWhatTextKeeps` compares a read with
`Nearest` of what the text keeps of the inserted value, not with the operators that
convert it.

`ArrivesFromElsewhere` is any other document, the empty one of the proxy's stub
included.  `GetParametersAsString` answers with a text, or with an error when the
document cannot be written (line 161; the code calls that impossible).  A read is a
call and an answer; arrays are converted element by element (`NextElement`) and row
by row (`StartsRow`, `RowDone`, `NextRow`), into results that are as long as the
list from the start (`NewArray`).  The error codes are what their messages tell
apart (`MessageFor`).  `ContainsSameContent` is an action, but no property speaks of
it: that sets with equal parameters read the same is so by its definition.

### ParameterSetCollection and DataModel

Insertions, updates and reads of whole sets treat one parameter per step with the
mutex held; other calls are one step.  Values are abstract.  `result` is what the
last call to return returned: one variable is enough, because the mutex lets one
call return at a time.  The refinement counts what is still to be written as
written from the moment the last reason to refuse the call is gone; a read takes
effect at its end.

### ConfigDaemon

One step per plugin in every loop; a plugin's `Run` is a call and a return, since
its threads and the stop come in between; any of the results success, failure and
*other* may come back, as the code takes only 1 for a failure.  `service` is the
entry of `provided_services_container_`; the two steps of the destruction are the
members in the reverse order of their declaration.  `run_application` (external)
calls `Run` only after a successful `Initialize` and may request a stop at any
time.  A plugin holds senders from the call of `Run` until its object is gone.
For `DaemonLife`, `Stage` forgets the place in a loop and which of the two good
results a plugin returned, and `Outcome` is what `Run` (or a failed `Initialize`)
returns, once it is on its way out.
`Run` asks the factory for the senders and leaves when it gets an empty one
(`SendersMade`); after a successful `Initialize` the container has the service, so
this way out is never taken.

## 3. The runs

| Run | Config | What it asks | Bounds |
|---|---|---|---|
| `safety` | `ConfigProviderSafety` | seven invariants and an action property of the library with every fault, and that it implements `ParameterCache` | 2 sets, 2 application threads, one callback, one event slot, limit 1, versions 0..2 |
| `liveness` | `ConfigProviderLiveness` | the cache keeps up, the callback that was registered is called, the destructor returns; event and polling implement `NameChannel` | 2 sets, 1 thread, 2 callbacks, 2 slots, limit 1, no faults, one set saved by an earlier run |
| `full_event` | `ConfigProviderFullEvent` | finding 1 | 2 sets, 3 versions, 2 slots, no faults |
| `available` | `ConfigProviderAvailable` | finding 2 | 2 sets, fetches fail |
| `qualifier` | `QualifierStateSafety` | sent, final answers stay; it implements `QualifierRegister` | 2 threads, 3 states sent, unwritten member undefined or no enumerator |
| `qualifier_unwritten` | `QualifierStateUnwritten` | finding 3 | 1 thread, unwritten member anything |
| `data_model` | `ParameterSetCollection` | it implements `DataModel`, so the calls are atomic; fixed sets stay | 2 threads, 2 sets, 2 parameters, 2 values |
| `daemon` | `ConfigDaemonLife` | offer, clean-up, senders, end; it implements `DaemonLife` | 4 plugins |
| `daemon_complete` | `ConfigDaemonComplete` | finding 4 | 2 plugins |
| `factory` | `Factory` | wakeups, answers, stop callback, destructor; liveness of waiters, stop and `Create` | the creator and 2 more waiters |
| `event` | `UpdateEvent` | what is dispatched was sent; it implements `NameChannel` with its limit; liveness of dispatch, calls and stop | 2 threads, 3 names in samples of 2 characters, 2 slots, limits 0..2, 3 sends, 1 failure |
| `access` | `ParameterSetAccess` | reads, qualifier and errors against what was inserted | 2 handles, 2 parameters, 11 leaves, 3 types, lists of two rows, 6 damaged documents |

Why the bounds are enough to see the interesting cases:

* Two sets and two threads give every race on one set and the mixture of sets in
  one batch; a third thread adds no new pair.  The proofs cover any number.
* One event slot and a limit of one in `safety` make the event overflow, and the
  limit cut a round short, after a single change; two slots are the code's value
  (`Subscribe(2)`) and serve in the other runs.
* `MaxVersion = 2` gives every set a value before, during and after a fetch (0
  from an earlier run, 1 at the start, 2 after a change); three are needed for
  three changes between two polls.
* `MaxSends = 3` gives an open state, a final one and a later final one.
* Two values and two parameters let an update be half done and a read see it.
* Four plugins give a loop a first, a last, and two in the middle, one of which
  can fail with plugins before and behind it.
* Two more waiters than the creator let one be told while the other sleeps, after
  `Create` has returned.
* Of the three names two are as long as the sample, and one is the beginning of
  another; three sends overflow two slots, let names be pending while more arrive,
  and put a short name into the memory of a long one.  One failure of
  `GetNewSamples` is enough for each of the places where it may be.
* `liveness` starts with one of the two sets in the storage of an earlier run and
  the other not: one is fetched by the setup, the other by a call.  The names are
  symmetric, so it makes no difference which.  Two callbacks let the second be
  registered after the first.
* The leaves are a number every type holds, one that does not fit a byte, one that
  a floating point type does not hold exactly, an integer that neither this type
  nor `int64_t` holds, a fraction that the parser rounds to another one, a number
  that cannot be written and a string; a list has its bad element in its second
  place and a matrix in its second row.

`safety`, `qualifier`, `data_model` and `access` use symmetry of names, threads or
handles, none of which any property tells apart; the runs with liveness use none.
Deadlock is an error everywhere except in `factory`, where the system really
stops when the provider is destroyed and everybody's time is up, and in `event`,
where it stops when the provider is gone or the process aborted, and all names
are sent.  The runs that expect a violation end at it.

Every property of a passing run has a *seeded fault* in the module: a definition
that changes one mapped operator the way a plausible bug would (a missing lock, a
dropped join, a handler not registered, another order of the members), which makes
TLC find exactly that property violated.  They are marked "Seeded fault" and used
by nothing.

### Fairness

* `ConfigProvider`: threads that can run do run: the proxy thread (whose wait for
  the service is only sure to end after a stop), the polling thread, a call an
  application has begun, the destructor's joins; a plugin sends the name of what
  it changed.  All weak: each of these is enabled until it is done, or waits for a
  mutex whose owner goes on.  Nothing obliges the application to call, the daemon
  to change a set or the service to appear.
* `Factory`: the same for the proxy thread, the stop callback, the constructor, the
  destructor and the thread inside `Create`, whose sleep is only sure to end by its
  stop token or its timeout.  Other waiters are under no fairness and no timeout is
  sure to be over: `WaitersLearn` follows from the notification alone, and
  `CreateReturns` speaks of timeouts that are over.
* `UpdateEvent`: the polling thread, when it can run, and the destructor's join are
  weakly fair.  The two places where a thread waits for a mutex that others take
  again and again (`HandlerLocks`, `CheckTakes`) are strongly fair: a mutex is
  given to a waiter in the end.  The interval need not ever be over, and
  `GetNewSamples` may fail finitely often.
* `ConfigDaemon`: the main thread goes on; a plugin's `Run`, which is given the
  stop token, returns at the latest when the stop is requested.

## 4. What the runs showed

1. **A full event loses updates** (`full_event`).  Two samples are kept for a
   subscriber that polls every five seconds.  Three changes between two polls
   push out a name, and nothing makes up for it.  The run has no failures; then, as
   the theorem `RoomKeepsUpToDate` shows, only the event's size loses an update: if
   every send finds a free slot, and no `Subscribe`, send or fetch fails, none is
   lost.  Each of those failures loses updates as well (`NoLostUpdate` names them),
   and a failed `Subscribe`, which nobody notices, loses all of them.
2. **Available does not mean updated** (`available`).  When the initial fetches
   fail, the availability callback is called although the cache holds the values
   of an earlier run; the README of the config_provider says otherwise (line 57).
   It takes a failed fetch (`AvailableAfterRefresh`), and it concerns all sets or
   none: values of two runs are never mixed when the callback is due
   (`RefreshedTogether`).
3. **The qualifier may be read before it is written** (`qualifier_unwritten`).
   `initial_qualifier_state_` of the client-side proxy has no initializer.  If no
   sample is there yet when it is asked for, what it holds may be cached as a final
   state for good.  `qualifier` shows that this is the only way: if the unwritten
   member holds no final state, kQualified is answered only after it was sent.
4. **One bad plugin empties the daemon** (`daemon_complete`).  The collector
   returns no plugin when one cannot be made, `PreparePlugins` takes the empty list
   for a success, and the service is offered over an empty data model; the design
   says it is offered "as the data model is completely populated".  Nothing in
   between can happen: all creators' plugins run or there is none
   (`OfferedIsCompleteOrEmpty`).

Met on the way and stated by no run: a failed fetch in
`LastUpdatedParameterSetReceiveHandler` uses the event up and is never repeated
(`config_provider_impl.cpp:394`), so that the set stays outdated until the daemon
changes it again (`NoLostUpdate` names this fault, and `KeepsUp` holds without it);
a set name of more than 41 bytes is copied past the end of its sample
(`internal_config_provider_service_impl.cpp:151` checks nothing; the model assumes
there is none); a limit of zero aborts the process, on the proxy thread and not in
the constructor; `ContainsSameContent` takes no notice of the qualifier; `Create`
takes none of what `WaitUntilConnected` answers; `README.md:123` of the config_provider says
that only qualified sets are handed to the storage, the code hands over all of
them; its line 44 says the library waits for a valid `InitialQualifierState`, the
code asks once; a comment calls the jthread the last member although another
follows it; `IsAwaitingProxyConnection` stays true after a setup that failed;
`TrySubscribe…` ignores the result of `Subscribe`, so that the branch of the setup
for its failure is never taken; an integer beyond `int64_t` that a floating point
type does not hold exactly cannot be read as that type, although the comment in
`parameter_set.h:206` means integers in general; the example plugin of
`score_usage.md` returns 1 for success, which `ConfigDaemon::Run` takes for a
failure, and names methods the interface does not have; plugins whose `Initialize`
succeeded before another's failed are destroyed without `Deinitialize`.

## 5. The proofs

All safety properties of the passing runs are theorems, for any number of sets,
threads, waiters, plugins, slots, states and versions, from the named assumptions
on the constants alone (`ConstantsAssumption`, `QualifierAssumption`,
`WaitersAssumption`, `CreatorAssumption`, `EventAssumption`, `AccessAssumption`,
`JsonAssumption`, `NumberAssumption`, `TextAssumption`, `DataModelAssumption`,
`CollectionAssumption`, `CreatorsAssumption`), all of which TLC evaluates.  Some facts are proved and
not run.  They are parts of what the runs check, or follow from it: the type
invariants of `QualifierState`, `ConfigDaemon`, `Connection`, `ParameterSetAccess`
and `ParameterSetCollection`, `FetchedUnderMutex`, `OneReader`, `CacheHoldsSentFinal`,
`CacheNeverOlder`, `NamesOnlyByInsertion`, `PluginProtocol`, and `WithinLimit`,
`NeverCrosswise` and `NothingAfterGone` of `UpdateEvent`.

Six theorems say what the findings of section 4 do *not* concern, and some of
them need an assumption of their own, which the code's environment may meet:
`CachedWasSent` and `QualifiedIsGenuine` that `FirstValues` has no final state,
`AvailableAfterRefresh` that no fetch fails, `RoomKeepsUpToDate` that no `Subscribe`,
no fetch and no send fails and that every send finds a free slot.
`RefreshedTogether` and `OfferedIsCompleteOrEmpty` need none.

Six refinements are proved, for constants of any size: the initial states map to
initial states and every step to a step of the abstract specification or a stutter.

| Theorem | Detailed | Abstract | What is gone in the abstract one |
|---|---|---|---|
| `KeepsPromise` | `ConfigProvider` | `ParameterCache` | threads, event, storage, the time between fetch and store |
| `IsNameChannel` | `ConfigProvider` | `NameChannel` | all but the names |
| `EventIsChannel` | `UpdateEvent` | `NameChannel` | samples, both mutexes, the condition variable |
| `IsRegister` | `QualifierState` | `QualifierRegister` | both mutexes, the steps of a read, the delivery |
| `CallsAreAtomic` | `ParameterSetCollection` | `DataModel` | the loops over parameters, the mutex |
| `LivesAsPromised` | `ConfigDaemon` | `DaemonLife` | the loops over plugins, the scope, the order of members |

Each proof module has an inductive invariant in named parts, one lemma per action
or per group of actions that shows it is kept, and one theorem per property.

* `ConfigProvider_proof` (the invariant is in `ConfigProviderInvariant`, so that
  TLC can check it too).  None of the properties is inductive alone, since each
  rests on what threads hold between two steps.  `PhaseInv` orders proxy thread,
  polling thread and destructor; `HandInv` says what a thread holds; `HandlerInv`
  extends `CachedSetsHaveHandlers` to the time before the publication; `FetchInv`
  and `FreshInv` extend `NoLostUpdate` to fetched values that are not stored yet:
  each is current, or an event is on its way, or a named fault took it;
  `StorageInv` allows the storage to lag only while a list call is in progress;
  `OrderInv` orders observed, cached, fetched and daemon versions.  The refinement
  theorem `KeepsPromise` maps every action to one of `ParameterCache` or a stutter,
  `IsNameChannel` every action that touches a name to one of `NameChannel`.
  `SeenInv`, on top of `Inv`, says that `staged`, which runs ahead of the storage,
  is never behind what an application was given, and equals the storage unless a
  list call is in progress; `NothingSeenIsForgotten` needs `OrderInv` for it,
  because a set that left the cache may be fetched again.
  `RefreshInv` says that no fetched value is from an earlier run, and that the
  cache is refreshed as a whole in `SetupWrite`; `FetchedInv`, that without failures
  the initial fetch leaves no cached set out.
* `QualifierState_proof`: `PhaseInv` (the proxy thread is done before a client
  reads), `LatchInv` (the member is the unwritten value or a sent state), `HandInv`
  (what a reader carries is the conversion of the
  member as it still is),
  `CacheInv` (the cache is not newer than the
  member and is filled before a final state is answered), and `SentInv` under the
  additional assumption.  For `IsRegister` a call reads the register in
  the step that caches its reading: what it carries is still the newest then, since
  nobody else has taken a sample meanwhile.
* `Connection_proof`: `LockInv`, `LifeInv` (what each place of the destructor
  says of threads and callback), `UseInv`, `WakeInv` (a waiter that sleeps while
  the provider is there has the notification before it) and `AnswerInv` (somebody
  was answered, therefore the provider is there until the destructor).
* `Factory_proof`: every step of `Factory` is a step of `Connection` or leaves its
  variables alone, so `FSpec` implies the specification of `Connection` and what is
  proved there holds under `Create`.
* `UpdateEvent_proof`: the lemma `RoundTrip` says that a name comes back from a
  sample of any size as it was, if it is no longer than the sample (which the code
  does not check) and the sample was cleared; `NameInv` (a kept sample holds a name)
  follows, and with it `EventIsChannel`, where the kept names are what the samples are read as.  `LockInv` and
  `LifeInv` say who owns which mutex where and in which phase (`LocksAreOrdered`
  is a consequence), `LimitInv` contains the precondition, and `CreditInv` counts what a name still has in samples,
  pending, in the batch, against what was sent.
* `ParameterSetAccess_proof`: `OriginInv` (a document that came from the daemon is
  what text and parser made of its origin), `ListInv`, `RowInv` and `RowsInv` (the
  elements and
  rows converted so far are what they have to be, the rest fits the length), and
  `AnswerInv` and `ReplyInv` (the reply belongs to the call).  The lemmas
  `LeafIsKept`, `ListIsKept` and `ShapeIsKept` relate what is read of what arrives to
  what was inserted.
* `ParameterSetCollection_proof`: `OwnerInv` and `LocalInv` (a call that is inside
  owns the mutex, all others have no locals), `AddInv`, `UpdateInv` (what is checked
  exists and still may be updated), `ReadInv` (what is copied is what is there);
  the refinement `CallsAreAtomic` follows per action.
* `ConfigDaemon_proof`: `PluginInv` (what each place of the main thread says of
  every plugin) and `ServiceInv`.  `LivesAsPromised` needs `EndInv` too: the way
  out of `Run` knows its result, the unwinding has only plugins before it that ran,
  failed or are still initialised, and the members are destroyed after the last
  `Deinitialize`.

Only model-checked: the liveness properties (`KeepsUp`, `DestructorReturns`,
`CallbackIsCalled`, `WaitersLearn`, `StopReachesThread`, `CreateReturns`,
`TakenIsDispatched`, `CheckReturns`, `StopEnds`, `EndsWhenStopped`), whose proofs need
`ENABLED`, and of course the four findings.

## 6. Not modelled

* The JSON helper (file input and parsing) and the fault event reporter (a
  placeholder): no state.
* Callbacks that call the provider back.  They would wait for the mutex they are
  called under; the repository has no such callback and no document promises that
  one may.
* A daemon that ends and is started again while applications hold a proxy: whether
  and how a proxy connects again is the middleware's matter and not in the
  repository.
* Overlapping calls of the persistency, whose implementation with a storage is not
  in the repository; the content of the plugins, which is not either.
* Middleware answers that contradict each other (the number of new samples is asked
  for twice), and names longer than their sample.
* Logging, and the difference between error codes where nothing depends on it.

## 7. Plan

The order followed the importance of the behaviour: `ConfigProvider` with its
promise and proofs first, then `QualifierState`, `ParameterSetCollection` with
`DataModel`, `ConfigDaemon`, `Connection`; then the parts between them,
`ParameterSetAccess`, `UpdateEvent` and `Factory`.  Then the
abstract specifications of the qualifier state, of the event (shared by
`ConfigProvider` and `UpdateEvent`) and of the daemon's life, with their
refinements, and the theorems that bound the findings.  What is left:

1. The publication step shared by `ConfigProvider` and `Connection`, shown to be
   the same through one abstract specification, as the event is.
2. Re-entrant callbacks in `ConfigProvider`, as an option of the model, if the
   library ever promises something about them.
3. `ConfigSystem`, the composition of daemon and provider over a restart, once the
   middleware's part of it can be read.
