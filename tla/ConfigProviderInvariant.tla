---------------------- MODULE ConfigProviderInvariant ----------------------
(***************************************************************************)
(* The inductive invariant of ConfigProvider, in named parts.  The safety  *)
(* properties of ConfigProvider follow from it; none of them is inductive  *)
(* alone, because each rests on what the threads hold between two steps.   *)
(***************************************************************************)
EXTENDS ConfigProvider

ClientHolds(c) == clientPc[c] \in {"get", "listStore"}

(***************************************************************************)
(* The order of the proxy thread, the polling thread and the destructor:   *)
(* the provider is there from SetupPublish to the end of the destructor,   *)
(* the polling thread starts with it and ends before it, applications      *)
(* fetch only while it is there, and only a failed Subscribe leaves it     *)
(* without the event.                                                      *)
(***************************************************************************)
PhaseInv ==
    /\ provider <=> setupPc \in {"announce", "done"} /\ life # "destroyed"
    /\ pollPc = "off" <=> setupPc \notin {"announce", "done"}
    /\ life \in {"joinPoll", "destroyed"} => setupPc \in {"done", "failed"}
    /\ life = "joinPoll" => provider
    /\ pollPc = "ended" => life \in {"joinPoll", "destroyed"}
    /\ life = "destroyed" => pollPc \in {"off", "ended"}
    /\ life # "alive" => \A c \in Clients : clientPc[c] = "idle"
    /\ \A c \in Clients : ClientHolds(c) => provider
    /\ pollPc \in {"off", "poll", "wait", "ended"} => batch = {}
    /\ Listens => subscribed \/ "subscribe" \in Faults

(* What a thread holds: a name, and past the fetch the fetched version.     *)
(* An application holds only sets that are not cached yet.                  *)
HandInv ==
    /\ pollPc \in {"handler", "deliver"} => hand["poll"].set \in SetNames
    /\ pollPc = "deliver" => /\ hand["poll"].value \in Versions
                             /\ handlers[hand["poll"].set] # "none"
    /\ \A c \in Clients : ClientHolds(c) =>
         hand[c].set \in SetNames \ Cached /\ hand[c].value \in Versions

(* From SetupRegister on a cached set has a handler.                        *)
HandlerInv ==
    setupPc \in {"publish", "announce", "done"} =>
        \A s \in Cached : handlers[s] # "none"

(***************************************************************************)
(* A version fetched earlier is current, or an event for it is on its way, *)
(* or the last change was missed: for the values of the initial fetch, for *)
(* what a thread holds, and from SetupWrite on for what is cached.         *)
(***************************************************************************)
Fresh(s, v) == v = version[s] \/ OnItsWay(s) \/ s \in missed

FetchInv ==
    /\ setupPc \notin {"fetching", "write"} => fetched = AbsentMap
    /\ setupPc \in {"fetching", "write"} => Fetched \subseteq Cached
    /\ setupPc = "fetching" =>
         todo \subseteq Cached /\ \A s \in Cached \ Fetched : s \in todo \cup missed
    /\ setupPc = "write" => \A s \in Cached \ Fetched : s \in missed

FreshInv ==
    life = "alive" =>
      /\ setupPc \in {"fetching", "write"} => \A s \in Fetched : Fresh(s, fetched[s])
      /\ setupPc \in {"register", "publish", "announce", "done"} =>
           \A s \in Cached : Fresh(s, cache[s]) \/ BeingStored(s)
      /\ pollPc = "deliver" => Fresh(hand["poll"].set, hand["poll"].value)
      /\ \A c \in Clients : ClientHolds(c) => Fresh(hand[c].set, hand[c].value)

(* The persistency has been handed what is cached; the storage may lag      *)
(* behind it only while a GetParameterSetsByNameList is in progress.        *)
StorageInv ==
    /\ \A s \in Cached : staged[s] = cache[s]
    /\ \A s \in Cached : stored[s] # cache[s] =>
         \E c \in Clients : clientPc[c] \in {"list", "listStore"}

(* Versions move forward: observed, cached, fetched, daemon's.              *)
OrderInv ==
    /\ \A s \in Cached : cache[s] <= version[s]
    /\ \A s \in Fetched : s \in Cached => cache[s] <= fetched[s]
    /\ \A s \in Fetched : fetched[s] <= version[s]
    /\ \A s \in SetNames : observed[s] # Absent =>
         /\ observed[s] <= version[s]
         /\ s \in Cached => observed[s] <= cache[s]
    /\ \A t \in Threads : t # "setup" /\ Holds(t) =>
         /\ hand[t].value <= version[hand[t].set]
         /\ hand[t].set \in Cached => cache[hand[t].set] <= hand[t].value
         /\ observed[hand[t].set] # Absent => observed[hand[t].set] <= hand[t].value

Inv == /\ TypeOK /\ FetchedUnderMutex /\ PhaseInv /\ HandInv /\ HandlerInv
       /\ FetchInv /\ FreshInv /\ StorageInv /\ OrderInv
=============================================================================
