--------------------------- MODULE QualifierState ---------------------------
(***************************************************************************)
(* The InitialQualifierState on its way from a plugin of the ConfigDaemon  *)
(* to an application: InternalConfigProviderService writes it to a field   *)
(* of the service, InternalConfigProvider takes the field's newest sample  *)
(* into a member of its own, and ConfigProviderImpl caches it once it is   *)
(* final.                                                                  *)
(*                                                                         *)
(* InternalConfigProvider converts its member after it has released its    *)
(* own mutex, and ConfigProviderImpl checks its cache before it takes its  *)
(* mutex: taking the sample, converting the member and caching the result  *)
(* are steps of their own here.  A state is kept with its place in the     *)
(* sequence of the states the field has had (place 0: it never came from   *)
(* the field).                                                             *)
(*                                                                         *)
(* The states' copy in the service (initial_qualifier_state_ of the daemon *)
(* side) is written and never read; an Update of the field that fails      *)
(* changes nothing else.  Neither is a variable here.                      *)
(***************************************************************************)
EXTENDS Naturals, Sequences

CONSTANTS
    Clients,      \* the application's threads
    MaxSends,     \* bound: the number of states the field goes through
    FirstValues   \* what the provider's member may hold before it is written

States == {"undefined", "inProgress", "default", "qualifying",
           "unqualified", "qualified"}
(* A byte of the enumeration's type may also be no enumerator at all.       *)
RawStates == States \cup {"invalid"}
Final == {"qualified", "unqualified", "default"}

ASSUME QualifierAssumption ==
    /\ MaxSends \in Nat \ {0}
    /\ FirstValues \subseteq RawStates
    /\ {"setup", "free"} \cap Clients = {}

Threads == Clients \cup {"setup"}

VARIABLES
    sent,       \* every state of the field, oldest first
    delivered,  \* place of the newest sample that reached the subscriber
    latched,    \* InternalConfigProvider::initial_qualifier_state_
    cached,     \* ConfigProviderImpl::initial_qualifier_state_
    provider,   \* internal_config_provider_ # nullptr
    mutex,      \* the owner of ConfigProviderImpl::mutex_
    pc,         \* where the proxy thread and each application thread is
    hand,       \* the converted state a thread is about to cache
    answer      \* history: what each application thread was answered last

vars == <<sent, delivered, latched, cached, provider, mutex, pc, hand, answer>>

Places == 0..MaxSends
Reading(states) == [state : states, at : Places]
NoReading == [state |-> "undefined", at |-> 0]

(* Seeded fault: a missing return lets kQualifying run into kQualified.     *)
ConvertFallsThrough(raw) == IF raw = "qualifying" THEN "qualified" ELSE raw

(* The two Converts: every enumerator has its counterpart, any other byte   *)
(* becomes kUndefined.                                                      *)
Convert(raw) == IF raw \in States THEN raw ELSE "undefined"
ServiceConvert(state) == IF state \in States THEN state ELSE "undefined"

(* Seeded faults: the lock_guard is missing; kDefault is not cached.        *)
LockForgotten(t) == mutex' = t
CacheForgetsDefault(r) == IF r.state \in Final \ {"default"} THEN r ELSE cached

Lock(t) == mutex = "free" /\ mutex' = t

(* CacheInitialQualifierState: only final states are cached.                *)
CacheInitialQualifierState(r) == IF r.state \in Final THEN r ELSE cached

-----------------------------------------------------------------------------
Init ==
    /\ sent = <<ServiceConvert("undefined")>>
    /\ delivered = 0
    /\ latched \in [state : FirstValues, at : {0}]
    /\ cached = NoReading
    /\ provider = FALSE
    /\ mutex = "free"
    /\ pc = [t \in Threads |-> IF t = "setup" THEN "connect" ELSE "idle"]
    /\ hand = [t \in Threads |-> NoReading]
    /\ answer = [c \in Clients |-> NoReading]

(* A plugin calls its InitialQualifierStateSender.                          *)
SetInitialQualifierState(state) ==
    /\ Len(sent) < MaxSends
    /\ sent' = Append(sent, ServiceConvert(state))
    /\ UNCHANGED <<delivered, latched, cached, provider, mutex, pc, hand, answer>>

(* The field's value reaches the subscriber, which keeps the newest one.    *)
Deliver ==
    /\ pc["setup"] \notin {"connect", "failed"}
    /\ \E place \in (delivered + 1)..Len(sent) : delivered' = place
    /\ UNCHANGED <<sent, latched, cached, provider, mutex, pc, hand, answer>>

-----------------------------------------------------------------------------
(* InternalConfigProvider::GetInitialQualifierState, the part under its     *)
(* mutex: the newest sample, if there is one that is new and the middleware *)
(* yields it, overwrites the member.                                        *)
Taken == {latched} \cup
         {[state |-> sent[p], at |-> p] : p \in {delivered} \ 0..latched.at}

Take(t, from) ==
    /\ pc[t] = from
    /\ latched' \in Taken
    /\ pc' = [pc EXCEPT ![t] = "convert"]
    /\ UNCHANGED <<sent, delivered, cached, provider, hand, answer>>

(* ... and the part after the unlock.                                       *)
ConvertMember(t) ==
    /\ pc[t] = "convert"
    /\ hand' = [hand EXCEPT ![t] = [latched EXCEPT !.state = Convert(@)]]
    /\ pc' = [pc EXCEPT ![t] = "cache"]
    /\ UNCHANGED <<sent, delivered, latched, cached, provider, mutex, answer>>

(***************************************************************************)
(* The proxy thread: the provider is made and subscribes to the field, its *)
(* state is asked for and cached, then the provider is published.          *)
(***************************************************************************)
SetupConnects ==
    /\ pc["setup"] = "connect"
    /\ \E to \in {"take", "failed"} : pc' = [pc EXCEPT !["setup"] = to]
    /\ UNCHANGED <<sent, delivered, latched, cached, provider, mutex, hand, answer>>

SetupTakes == Take("setup", "take") /\ UNCHANGED mutex

SetupCaches ==
    /\ pc["setup"] = "cache"
    /\ cached' = CacheInitialQualifierState(hand["setup"])
    /\ hand' = [hand EXCEPT !["setup"] = NoReading]
    /\ pc' = [pc EXCEPT !["setup"] = "publish"]
    /\ UNCHANGED <<sent, delivered, latched, provider, mutex, answer>>

SetupPublishes ==
    /\ pc["setup"] = "publish"
    /\ mutex = "free"
    /\ provider' = TRUE
    /\ pc' = [pc EXCEPT !["setup"] = "done"]
    /\ UNCHANGED <<sent, delivered, latched, cached, mutex, hand, answer>>

(***************************************************************************)
(* ConfigProviderImpl::GetInitialQualifierState of an application thread.  *)
(* The cache is looked at without the mutex; it never becomes kUndefined   *)
(* again, so that the check and the return of the member are one step.     *)
(***************************************************************************)
GetCached(c) ==
    /\ pc[c] = "idle"
    /\ cached.state # "undefined"
    /\ answer' = [answer EXCEPT ![c] = cached]
    /\ UNCHANGED <<sent, delivered, latched, cached, provider, mutex, pc, hand>>

GetMisses(c) ==
    /\ pc[c] = "idle"
    /\ cached.state = "undefined"
    /\ pc' = [pc EXCEPT ![c] = "checked"]
    /\ UNCHANGED <<sent, delivered, latched, cached, provider, mutex, hand, answer>>

GetNotReady(c) ==
    /\ pc[c] = "checked"
    /\ mutex = "free"
    /\ ~provider
    /\ answer' = [answer EXCEPT ![c] = cached]
    /\ pc' = [pc EXCEPT ![c] = "idle"]
    /\ UNCHANGED <<sent, delivered, latched, cached, provider, mutex, hand>>

GetTakes(c) == provider /\ Lock(c) /\ Take(c, "checked")

GetCaches(c) ==
    /\ pc[c] = "cache"
    /\ cached' = CacheInitialQualifierState(hand[c])
    /\ answer' = [answer EXCEPT ![c] = hand[c]]
    /\ hand' = [hand EXCEPT ![c] = NoReading]
    /\ mutex' = "free"
    /\ pc' = [pc EXCEPT ![c] = "idle"]
    /\ UNCHANGED <<sent, delivered, latched, provider>>

GetInitialQualifierState(c) ==
    \/ GetCached(c) \/ GetMisses(c) \/ GetNotReady(c)
    \/ GetTakes(c) \/ ConvertMember(c) \/ GetCaches(c)

CacheInitialState ==
    \/ SetupConnects \/ SetupTakes \/ ConvertMember("setup")
    \/ SetupCaches \/ SetupPublishes

Next ==
    \/ \E state \in States : SetInitialQualifierState(state)
    \/ Deliver
    \/ CacheInitialState
    \/ \E c \in Clients : GetInitialQualifierState(c)

Spec == Init /\ [][Next]_vars

-----------------------------------------------------------------------------
(* Every variable has its type.                                             *)
TypeOK ==
    /\ sent \in Seq(States) /\ Len(sent) \in 1..MaxSends
    /\ delivered \in 0..Len(sent)
    /\ latched \in Reading(RawStates)
    /\ cached \in Reading(States)
    /\ provider \in BOOLEAN
    /\ mutex \in Clients \cup {"free"}
    /\ pc \in [Threads -> {"connect", "failed", "take", "publish", "done",
                           "idle", "checked", "convert", "cache"}]
    /\ hand \in [Threads -> Reading(States)]
    /\ answer \in [Clients -> Reading(States)]

(* Between the unlock in InternalConfigProvider::GetInitialQualifierState   *)
(* and the end of the caller's use of the result no other thread can take a *)
(* sample: the proxy thread asks before it publishes the provider, the      *)
(* application's threads under ConfigProviderImpl::mutex_.                  *)
Reads(t) == pc[t] \in {"convert", "cache"}
OneReader ==
    \A t, u \in Threads : Reads(t) /\ Reads(u) => t = u

(* A state the provider caches is a final state the daemon has sent.        *)
WasSent(r) == r.at \in DOMAIN sent /\ r.state = sent[r.at]
CacheHoldsSentFinal ==
    cached.state # "undefined" => cached.state \in Final /\ WasSent(cached)

(* No order of the calls replaces the cached state by an older one.         *)
CacheNeverOlder == [][cached'.at >= cached.at]_cached

(* A thread that was told a final state is never told later that the state  *)
(* is still open: the cache holds the final state before the call returns.  *)
FinalAnswersStay ==
    [][\A c \in Clients : answer[c].state \in Final => answer'[c].state \in Final]_answer

(* What the design says of kQualified, "applications consuming the data are *)
(* allowed to assume parameters are safe to be used": it is answered only   *)
(* after the daemon has sent it.                                            *)
QualifiedWasSent ==
    \A c \in Clients :
        answer[c].state = "qualified" => \E p \in DOMAIN sent : sent[p] = "qualified"

(* With its samples, conversions, mutexes and its cache this is a register: *)
(* every call of GetInitialQualifierState is told, at one moment, either    *)
(* the settled state or the newest one that has arrived.                    *)
Newest == [state |-> Convert(latched.state), at |-> latched.at]
Register ==
    INSTANCE QualifierRegister
      WITH newest <- Newest, settled <- cached, published <- provider,
           Unset <- NoReading, FirstStates <- {Convert(raw) : raw \in FirstValues}
RegisterSpec == Register!RSpec
=============================================================================
