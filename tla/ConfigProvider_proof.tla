------------------------ MODULE ConfigProvider_proof ------------------------
(***************************************************************************)
(* Proofs about ConfigProvider for every set of names, every number of     *)
(* application threads, every size of the event and every choice of        *)
(* faults.                                                                 *)
(***************************************************************************)
EXTENDS ConfigProviderInvariant, FiniteSetTheorems, TLAPS

(***************************************************************************)
(* The samples GetNewSamples hands over and those it leaves.               *)
(***************************************************************************)
LEMMA NumTakenType ==
    ASSUME TypeOK
    PROVE  /\ Cardinality(pending) \in Nat /\ IsFiniteSet(pending)
           /\ FreeSlots \in Nat
           /\ NumTaken \in 0..Len(ring)
           /\ NumTaken <= FreeSlots
<1>1. IsFiniteSet(pending) /\ Cardinality(pending) \in Nat
  BY FS_Subset, FS_CardinalityType, ConstantsAssumption DEF TypeOK
<1> QED
  BY <1>1, ConstantsAssumption DEF TypeOK, FreeSlots, NumTaken

(* k samples add at most k names.                                           *)
LEMMA NewNamesType ==
    ASSUME TypeOK
    PROVE  /\ NewNames \subseteq SetNames
           /\ Cardinality(NewNames) <= MaxSamples
           /\ RestOfRing \in Seq(SetNames) /\ Len(RestOfRing) <= Len(ring)
<1>1. /\ Cardinality(pending) \in Nat /\ IsFiniteSet(pending)
      /\ FreeSlots \in Nat /\ NumTaken \in 0..Len(ring) /\ NumTaken <= FreeSlots
  BY NumTakenType
<1>2. ring \in Seq(SetNames) /\ Len(ring) \in Nat
  BY DEF TypeOK
<1>3. \A i \in 1..NumTaken : ring[i] \in SetNames
  BY <1>1, <1>2
<1> DEFINE taken == {ring[i] : i \in 1..NumTaken}
<1>4. IsFiniteSet(taken) /\ Cardinality(taken) <= NumTaken
  <2>1. IsFiniteSet(1..NumTaken) /\ Cardinality(1..NumTaken) = NumTaken
    BY <1>1, FS_Interval
  <2> DEFINE f == [i \in 1..NumTaken |-> ring[i]]
  <2>2. f \in Surjection(1..NumTaken, taken)
    BY DEF Surjection
  <2> QED
    BY <2>1, <2>2, FS_Surjection
<1>5. Cardinality(pending \cup taken) <= Cardinality(pending) + Cardinality(taken)
      /\ Cardinality(pending \cup taken) \in Nat
  <2>1. IsFiniteSet(pending \cap taken) /\ Cardinality(pending \cap taken) \in Nat
    BY <1>1, FS_Intersection, FS_CardinalityType
  <2>2. Cardinality(taken) \in Nat
    BY <1>4, FS_CardinalityType
  <2>3. /\ IsFiniteSet(pending \cup taken)
        /\ Cardinality(pending \cup taken) =
             Cardinality(pending) + Cardinality(taken) - Cardinality(pending \cap taken)
    BY <1>1, <1>4, FS_Union
  <2>4. Cardinality(pending \cup taken) \in Nat
    BY <2>3, FS_CardinalityType
  <2> QED
    BY <1>1, <2>1, <2>2, <2>3, <2>4
<1>6. Cardinality(taken) \in Nat
  BY <1>4, FS_CardinalityType
<1>7. NewNames \subseteq SetNames /\ NewNames = pending \cup taken
  BY <1>3 DEF TypeOK, NewNames
<1>8. RestOfRing \in Seq(SetNames) /\ Len(RestOfRing) <= Len(ring)
  BY <1>1, <1>2 DEF RestOfRing
<1> QED
  BY <1>1, <1>4, <1>5, <1>6, <1>7, <1>8, ConstantsAssumption DEF FreeSlots, TypeOK

-----------------------------------------------------------------------------
(***************************************************************************)
(* Type correctness.                                                       *)
(***************************************************************************)
LEMMA InitTypeOK == Init => TypeOK
<1> SUFFICES ASSUME Init PROVE TypeOK
  OBVIOUS
<1>1. Cardinality({}) = 0
  BY FS_EmptySet
<1>2. 0 \in Versions /\ 1 \in Versions
  BY ConstantsAssumption DEF Versions
<1>3. stored \in MapType /\ AbsentMap \in MapType
  BY <1>2 DEF Init, MapType, AbsentMap
<1>4. hand \in [Threads -> HandType]
  BY DEF Init, HandType, NoHand
<1>5. ring \in Seq(SetNames) /\ Len(ring) <= EventSlots
  BY ConstantsAssumption DEF Init
<1>6. /\ version \in [SetNames -> Versions]
      /\ cache \in MapType /\ fetched \in MapType /\ staged \in MapType
      /\ observed \in MapType
  BY <1>2, <1>3 DEF Init
<1>7. /\ pending \subseteq SetNames /\ Cardinality(pending) <= MaxSamples
      /\ want \in [Clients -> SUBSET SetNames]
  BY <1>1, ConstantsAssumption DEF Init
<1>8. /\ handlers \in [SetNames -> {"none", "empty"} \cup Callbacks]
      /\ clientPc \in [Clients -> {"idle", "get", "list", "listStore"}]
  BY DEF Init
<1> QED
  BY <1>3, <1>4, <1>5, <1>6, <1>7, <1>8 DEF Init, TypeOK

LEMMA DaemonTypeOK ==
    ASSUME TypeOK, DaemonNext
    PROVE  TypeOK'
<1> USE DEF TypeOK, MapType, HandType, event, pollVars, setupVars, clientVars, storageVars
<1>1. ASSUME NEW s \in SetNames, DaemonUpdate(s) PROVE TypeOK'
  <2>1. version' \in [SetNames -> Versions]
    BY <1>1, ConstantsAssumption DEF DaemonUpdate, Versions
  <2> QED
    BY <1>1, <2>1 DEF DaemonUpdate
<1>2. ASSUME NEW s \in SetNames, DaemonSend(s) PROVE TypeOK'
  <2>1. ring' \in Seq(SetNames) /\ Len(ring') <= EventSlots
    BY <1>2, ConstantsAssumption DEF DaemonSend, Pushed
  <2>2. missed' \subseteq SetNames
    BY <1>2, ConstantsAssumption DEF DaemonSend, Dropped
  <2> QED
    BY <1>2, <2>1, <2>2 DEF DaemonSend
<1>3. ASSUME NEW s \in SetNames, DaemonSendFails(s) PROVE TypeOK'
  BY <1>3 DEF DaemonSendFails
<1> QED
  BY <1>1, <1>2, <1>3 DEF DaemonNext

LEMMA SetupTypeOK ==
    ASSUME TypeOK, SetupNext
    PROVE  TypeOK'
<1> USE DEF TypeOK, MapType, HandType, daemonVars, event, pollVars, clientVars, storageVars, SetupGo
<1>1. CASE SetupGetsProxy BY <1>1 DEF SetupGetsProxy
<1>2. CASE SetupGetsNoProxy BY <1>2 DEF SetupGetsNoProxy
<1>3. CASE SetupSubscribe BY <1>3 DEF SetupSubscribe
<1>4. CASE SetupFetchBegin
  BY <1>4 DEF SetupFetchBegin, Lock, Threads, Cached
<1>5. ASSUME NEW s \in SetNames, SetupFetchOne(s) PROVE TypeOK'
  BY <1>5 DEF SetupFetchOne
<1>6. CASE SetupFetchEnd BY <1>6 DEF SetupFetchEnd, Unlock
<1>7. CASE SetupWrite
  BY <1>7 DEF SetupWrite, Saved, Refetched, AbsentMap, Fetched
<1>8. CASE SetupRegister
  BY <1>8 DEF SetupRegister, Registered
<1>9. CASE SetupPublish BY <1>9 DEF SetupPublish
<1>10. CASE SetupAnnounce BY <1>10 DEF SetupAnnounce
<1> QED
  BY <1>1, <1>2, <1>3, <1>4, <1>5, <1>6, <1>7, <1>8, <1>9, <1>10 DEF SetupNext

LEMMA PollTypeOK ==
    ASSUME TypeOK, PollThreadNext
    PROVE  TypeOK'
<1> USE DEF TypeOK, MapType, HandType, daemonVars, event, setupVars, clientVars, storageVars
<1>0. Cardinality({}) = 0
  BY FS_EmptySet
<1>t. "poll" \in Threads
  BY DEF Threads
<1>1. CASE Poll
  <2>1. /\ NewNames \subseteq SetNames
        /\ RestOfRing \in Seq(SetNames) /\ Len(RestOfRing) <= Len(ring)
    BY NewNamesType
  <2>2. ring' \in Seq(SetNames) /\ Len(ring') <= EventSlots
    BY <1>1, <2>1, ConstantsAssumption DEF Poll
  <2> QED
    BY <1>0, <1>1, <2>1, <2>2, ConstantsAssumption DEF Poll
<1>2. CASE PollFails BY <1>2 DEF PollFails
<1>3. CASE PollWakes BY <1>3 DEF PollWakes
<1>4. CASE PollEnds BY <1>4 DEF PollEnds
<1>5. CASE DispatchEnds BY <1>5 DEF DispatchEnds
<1>6. ASSUME NEW s \in SetNames, DispatchNext(s) PROVE TypeOK'
  BY <1>t, <1>6 DEF DispatchNext
<1>7. ASSUME NEW s \in SetNames, HandlerIgnores(s) PROVE TypeOK'
  BY <1>t, <1>7 DEF HandlerIgnores, NoHand
<1>8. ASSUME NEW s \in SetNames, HandlerFetch(s) PROVE TypeOK'
  BY <1>t, <1>8 DEF HandlerFetch, Lock
<1>9. ASSUME NEW s \in SetNames, HandlerFetchFails(s) PROVE TypeOK'
  BY <1>t, <1>9 DEF HandlerFetchFails, NoHand
<1>10. ASSUME NEW s \in SetNames, HandlerDelivers(s) PROVE TypeOK'
  BY <1>t, <1>10 DEF HandlerDelivers, NoHand, Unlock, Persist, CaughtUp
<1> QED
  BY <1>1, <1>2, <1>3, <1>4, <1>5, <1>6, <1>7, <1>8, <1>9, <1>10 DEF PollThreadNext

LEMMA ClientTypeOK ==
    ASSUME TypeOK, NEW c \in Clients, ClientNext(c)
    PROVE  TypeOK'
<1> USE DEF TypeOK, MapType, HandType, daemonVars, event, pollVars, setupVars, storageVars, ClientGo
<1>t. c \in Threads
  BY DEF Threads
<1>1. ASSUME NEW s \in SetNames, GetCached(c, s) PROVE TypeOK'
  BY <1>1 DEF GetCached
<1>2. ASSUME NEW s \in SetNames, GetFetches(c, s) PROVE TypeOK'
  BY <1>t, <1>2 DEF GetFetches, Fetch, Lock
<1>3. ASSUME NEW s \in SetNames, GetStores(c, s) PROVE TypeOK'
  BY <1>t, <1>3 DEF GetStores, StoreFetched, Persist, Registered, CaughtUp, Unlock, NoHand
<1>4. ASSUME NEW s \in SetNames, ListCached(c, s) PROVE TypeOK'
  BY <1>4 DEF ListCached
<1>5. ASSUME NEW s \in SetNames, ListSkips(c, s) PROVE TypeOK'
  BY <1>5 DEF ListSkips
<1>6. ASSUME NEW s \in SetNames, ListFetches(c, s) PROVE TypeOK'
  BY <1>t, <1>6 DEF ListFetches, Fetch, Lock
<1>7. ASSUME NEW s \in SetNames, ListStores(c, s) PROVE TypeOK'
  BY <1>t, <1>7 DEF ListStores, StoreFetched, Persist, Registered, CaughtUp, Unlock, NoHand
<1>8. ASSUME NEW s \in SetNames, NEW k \in Callbacks, OnChanged(c, s, k) PROVE TypeOK'
  BY <1>8 DEF OnChanged, Registered
<1>9. ASSUME NEW names \in SUBSET SetNames, ListBegins(c, names) PROVE TypeOK'
  BY <1>9 DEF ListBegins
<1>10. CASE ListSyncs(c) BY <1>10 DEF ListSyncs
<1>11. CASE CheckUpdates(c)
  <2>1. /\ NewNames \subseteq SetNames /\ Cardinality(NewNames) <= MaxSamples
        /\ RestOfRing \in Seq(SetNames) /\ Len(RestOfRing) <= Len(ring)
    BY NewNamesType
  <2>2. ring' \in Seq(SetNames) /\ Len(ring') <= EventSlots
    BY <1>11, <2>1, ConstantsAssumption DEF CheckUpdates
  <2> QED
    BY <1>11, <2>1, <2>2 DEF CheckUpdates
<1> QED
  BY <1>1, <1>2, <1>3, <1>4, <1>5, <1>6, <1>7, <1>8, <1>9, <1>10, <1>11 DEF ClientNext

LEMMA DestroyTypeOK ==
    ASSUME TypeOK, DestroyNext
    PROVE  TypeOK'
<1> USE DEF TypeOK, MapType, HandType, daemonVars, event, pollVars, setupVars, clientVars, storageVars
<1>1. CASE DestroyBegins BY <1>1 DEF DestroyBegins
<1>2. CASE DestroyJoinsSetup BY <1>2 DEF DestroyJoinsSetup
<1>3. CASE DestroyJoinsPoll
  <2>1. ring' \in Seq(SetNames) /\ Len(ring') <= EventSlots
    BY <1>3, ConstantsAssumption DEF DestroyJoinsPoll
  <2> QED
    BY <1>3, <2>1 DEF DestroyJoinsPoll
<1> QED
  BY <1>1, <1>2, <1>3 DEF DestroyNext

LEMMA NextTypeOK == TypeOK /\ [Next]_vars => TypeOK'
<1> SUFFICES ASSUME TypeOK, [Next]_vars PROVE TypeOK'
  OBVIOUS
<1>1. CASE UNCHANGED vars
  BY <1>1 DEF TypeOK, vars
<1>2. CASE Gone
  BY <1>1, <1>2 DEF Gone
<1> QED
  BY <1>1, <1>2, DaemonTypeOK, SetupTypeOK, PollTypeOK, ClientTypeOK, DestroyTypeOK DEF Next

(***************************************************************************)
(* Every variable keeps its type, the event never holds more samples than  *)
(* it has slots, and the names collected for the handlers never exceed     *)
(* max_samples_limit.                                                      *)
(***************************************************************************)
THEOREM TypeCorrect == Spec => []TypeOK
BY InitTypeOK, NextTypeOK, PTL DEF Spec

-----------------------------------------------------------------------------
(***************************************************************************)
(* The names of the threads are different, and Absent is no version.       *)
(***************************************************************************)
LEMMA ThreadNames ==
    /\ "setup" \in Threads /\ "poll" \in Threads /\ Clients \subseteq Threads
    /\ Free \notin Threads /\ "setup" \notin Clients /\ "poll" \notin Clients
BY ConstantsAssumption DEF Threads, Free

LEMMA VersionsArePresent == Absent \notin Versions /\ Versions \subseteq Nat
BY ConstantsAssumption DEF Versions

(* Where a map has a value, it is a number.                                 *)
LEMMA MapsHoldNumbers ==
    ASSUME TypeOK
    PROVE  /\ \A s \in SetNames : version[s] \in Nat
           /\ \A s \in Cached : cache[s] \in Nat
           /\ \A s \in Fetched : fetched[s] \in Nat
           /\ \A s \in SetNames : observed[s] # Absent => observed[s] \in Nat
BY VersionsArePresent DEF TypeOK, MapType, Cached, Fetched

(***************************************************************************)
(* At most one thread holds a fetched value, and none while the mutex is   *)
(* free.                                                                   *)
(***************************************************************************)
LEMMA HoldsAlone ==
    ASSUME FetchedUnderMutex
    PROVE  /\ \A c \in Clients : ClientHolds(c) <=> mutex = c
           /\ pollPc = "deliver" <=> mutex = "poll"
           /\ setupPc = "fetching" <=> mutex = "setup"
BY ThreadNames DEF FetchedUnderMutex, Holds, ClientHolds

(***************************************************************************)
(* A sample leaves the full event only into missed; a sample taken from    *)
(* the event is among the new names, and the others stay in it.            *)
(***************************************************************************)
LEMMA PushedKeeps ==
    ASSUME TypeOK, NEW s \in SetNames
    PROVE  /\ s \in Range(Pushed(s))
           /\ \A r \in Range(ring) : \/ r \in Range(Pushed(s))
                                     \/ Len(ring) >= EventSlots /\ r = Head(ring)
<1>1. ring \in Seq(SetNames) /\ Len(ring) \in Nat /\ EventSlots \in Nat \ {0}
  BY ConstantsAssumption DEF TypeOK
<1>2. CASE Len(ring) < EventSlots
  <2>1. Pushed(s) = Append(ring, s)
    BY <1>2 DEF Pushed
  <2>2. DOMAIN Pushed(s) = 1..Len(ring) + 1 /\ Pushed(s)[Len(ring) + 1] = s
    BY <1>1, <2>1
  <2>3. \A i \in DOMAIN ring : i \in DOMAIN Pushed(s) /\ Pushed(s)[i] = ring[i]
    BY <1>1, <2>1
  <2> QED
    BY <1>1, <2>2, <2>3 DEF Range
<1>3. CASE Len(ring) >= EventSlots
  <2>1. Pushed(s) = Append(Tail(ring), s) /\ ring # <<>>
    BY <1>1, <1>3 DEF Pushed
  <2>2. /\ Tail(ring) \in Seq(SetNames) /\ Len(Tail(ring)) = Len(ring) - 1
        /\ \A i \in 1..(Len(ring) - 1) : Tail(ring)[i] = ring[i + 1]
        /\ Head(ring) = ring[1]
    BY <1>1, <2>1
  <2>3. /\ DOMAIN Pushed(s) = 1..Len(ring) /\ Pushed(s)[Len(ring)] = s
        /\ \A i \in 1..(Len(ring) - 1) : Pushed(s)[i] = ring[i + 1]
    BY <1>1, <1>3, <2>1, <2>2
  <2>4. ASSUME NEW i \in DOMAIN ring, i # 1
        PROVE  ring[i] \in Range(Pushed(s))
    <3>1. i - 1 \in 1..(Len(ring) - 1) /\ (i - 1) + 1 = i
      BY <1>1, <2>4
    <3>2. i - 1 \in DOMAIN Pushed(s) /\ Pushed(s)[i - 1] = ring[i]
      BY <1>1, <2>3, <3>1
    <3> QED
      BY <3>2 DEF Range
  <2>5. s \in Range(Pushed(s))
    BY <1>1, <1>3, <2>3 DEF Range
  <2> QED
    BY <1>3, <2>2, <2>4, <2>5 DEF Range
<1> QED
  BY <1>1, <1>2, <1>3

LEMMA TakenOrLeft ==
    ASSUME TypeOK
    PROVE  \A r \in Range(ring) : r \in NewNames \/ r \in Range(RestOfRing)
<1>1. ring \in Seq(SetNames) /\ Len(ring) \in Nat /\ NumTaken \in 0..Len(ring)
  BY NumTakenType DEF TypeOK
<1>2. ASSUME NEW i \in DOMAIN ring
      PROVE  ring[i] \in NewNames \/ ring[i] \in Range(RestOfRing)
  <2>1. CASE i <= NumTaken
    BY <1>1, <1>2, <2>1 DEF NewNames
  <2>2. CASE i > NumTaken
    <3>1. i - NumTaken \in 1..(Len(ring) - NumTaken)
      BY <1>1, <1>2, <2>2
    <3>2. i - NumTaken \in DOMAIN RestOfRing /\ RestOfRing[i - NumTaken] = ring[i]
      BY <1>1, <3>1 DEF RestOfRing
    <3> QED
      BY <3>2 DEF Range
  <2> QED
    BY <1>1, <1>2, <2>1, <2>2
<1> QED
  BY <1>2 DEF Range

-----------------------------------------------------------------------------
(***************************************************************************)
(* Every step preserves each part of the invariant; one lemma for each     *)
(* part, one case for each action.  First: a thread that goes from a fetch *)
(* to its store takes the mutex and gives it back.                         *)
(***************************************************************************)
LEMMA NextFetchedUnderMutex ==
    ASSUME TypeOK, FetchedUnderMutex, [Next]_vars
    PROVE  FetchedUnderMutex'
<1> USE DEF TypeOK, FetchedUnderMutex, Holds, daemonVars, event, pollVars, setupVars, clientVars, storageVars
<1> USE ThreadNames
<1>1. CASE DaemonNext
  <2>1. ASSUME NEW s \in SetNames, DaemonUpdate(s) PROVE FetchedUnderMutex'
    BY <2>1 DEF DaemonUpdate
  <2>2. ASSUME NEW s \in SetNames, DaemonSend(s) PROVE FetchedUnderMutex'
    BY <2>2 DEF DaemonSend
  <2>3. ASSUME NEW s \in SetNames, DaemonSendFails(s) PROVE FetchedUnderMutex'
    BY <2>3 DEF DaemonSendFails
  <2> QED
    BY <1>1, <2>1, <2>2, <2>3 DEF DaemonNext
<1>2. CASE SetupNext
  <2> USE DEF SetupGo
  <2>1. CASE SetupGetsProxy
    BY <2>1 DEF SetupGetsProxy
  <2>2. CASE SetupGetsNoProxy
    BY <2>2 DEF SetupGetsNoProxy
  <2>3. CASE SetupSubscribe
    BY <2>3 DEF SetupSubscribe
  <2>4. CASE SetupFetchBegin
    BY <2>4 DEF SetupFetchBegin, Lock
  <2>5. ASSUME NEW s \in SetNames, SetupFetchOne(s) PROVE FetchedUnderMutex'
    BY <2>5 DEF SetupFetchOne
  <2>6. CASE SetupFetchEnd
    BY <2>6 DEF SetupFetchEnd, Unlock
  <2>7. CASE SetupWrite
    BY <2>7 DEF SetupWrite, Saved
  <2>8. CASE SetupRegister
    BY <2>8 DEF SetupRegister
  <2>9. CASE SetupPublish
    BY <2>9 DEF SetupPublish
  <2>10. CASE SetupAnnounce
    BY <2>10 DEF SetupAnnounce
  <2> QED
    BY <1>2, <2>1, <2>2, <2>3, <2>4, <2>5, <2>6, <2>7, <2>8, <2>9, <2>10 DEF SetupNext
<1>3. CASE PollThreadNext
  <2>1. CASE Poll
    BY <2>1 DEF Poll
  <2>2. CASE PollFails
    BY <2>2 DEF PollFails
  <2>3. CASE PollWakes
    BY <2>3 DEF PollWakes
  <2>4. CASE PollEnds
    BY <2>4 DEF PollEnds
  <2>5. CASE DispatchEnds
    BY <2>5 DEF DispatchEnds
  <2>6. ASSUME NEW s \in SetNames, DispatchNext(s) PROVE FetchedUnderMutex'
    BY <2>6 DEF DispatchNext
  <2>7. ASSUME NEW s \in SetNames, HandlerIgnores(s) PROVE FetchedUnderMutex'
    BY <2>7 DEF HandlerIgnores
  <2>8. ASSUME NEW s \in SetNames, HandlerFetch(s) PROVE FetchedUnderMutex'
    BY <2>8 DEF HandlerFetch, Lock
  <2>9. ASSUME NEW s \in SetNames, HandlerFetchFails(s) PROVE FetchedUnderMutex'
    BY <2>9 DEF HandlerFetchFails
  <2>10. ASSUME NEW s \in SetNames, HandlerDelivers(s) PROVE FetchedUnderMutex'
    BY <2>10 DEF HandlerDelivers, Unlock
  <2> QED
    BY <1>3, <2>1, <2>2, <2>3, <2>4, <2>5, <2>6, <2>7, <2>8, <2>9, <2>10 DEF PollThreadNext
<1>4. ASSUME NEW c \in Clients, ClientNext(c) PROVE FetchedUnderMutex'
  <2> USE DEF ClientGo
  <2>1. ASSUME NEW s \in SetNames, GetCached(c, s) PROVE FetchedUnderMutex'
    BY <2>1 DEF GetCached
  <2>2. ASSUME NEW s \in SetNames, GetFetches(c, s) PROVE FetchedUnderMutex'
    BY <2>2 DEF GetFetches, Fetch, Lock
  <2>3. ASSUME NEW s \in SetNames, GetStores(c, s) PROVE FetchedUnderMutex'
    BY <2>3 DEF GetStores, StoreFetched, Unlock
  <2>4. ASSUME NEW s \in SetNames, ListCached(c, s) PROVE FetchedUnderMutex'
    BY <2>4 DEF ListCached
  <2>5. ASSUME NEW s \in SetNames, ListSkips(c, s) PROVE FetchedUnderMutex'
    BY <2>5 DEF ListSkips
  <2>6. ASSUME NEW s \in SetNames, ListFetches(c, s) PROVE FetchedUnderMutex'
    BY <2>6 DEF ListFetches, Fetch, Lock
  <2>7. ASSUME NEW s \in SetNames, ListStores(c, s) PROVE FetchedUnderMutex'
    BY <2>7 DEF ListStores, StoreFetched, Unlock
  <2>8. ASSUME NEW s \in SetNames, NEW k \in Callbacks, OnChanged(c, s, k) PROVE FetchedUnderMutex'
    BY <2>8 DEF OnChanged
  <2>9. ASSUME NEW names \in SUBSET SetNames, ListBegins(c, names) PROVE FetchedUnderMutex'
    BY <2>9 DEF ListBegins
  <2>10. CASE ListSyncs(c)
    BY <2>10 DEF ListSyncs
  <2>11. CASE CheckUpdates(c)
    BY <2>11 DEF CheckUpdates
  <2> QED
    BY <1>4, <2>1, <2>2, <2>3, <2>4, <2>5, <2>6, <2>7, <2>8, <2>9, <2>10, <2>11 DEF ClientNext
<1>5. CASE DestroyNext
  <2>1. CASE DestroyBegins
    BY <2>1 DEF DestroyBegins
  <2>2. CASE DestroyJoinsSetup
    BY <2>2 DEF DestroyJoinsSetup
  <2>3. CASE DestroyJoinsPoll
    BY <2>3 DEF DestroyJoinsPoll
  <2> QED
    BY <1>5, <2>1, <2>2, <2>3 DEF DestroyNext
<1>6. CASE Gone \/ UNCHANGED vars
  BY <1>6 DEF Gone, vars
<1> QED
  BY <1>1, <1>2, <1>3, <1>4, <1>5, <1>6 DEF Next

(***************************************************************************)
(* The order of the proxy thread, the polling thread and the destructor.   *)
(***************************************************************************)
LEMMA NextPhaseInv ==
    ASSUME TypeOK, FetchedUnderMutex, PhaseInv, [Next]_vars
    PROVE  PhaseInv'
<1> USE DEF TypeOK, PhaseInv, Listens, ClientHolds, StopPolling, daemonVars, event, pollVars, setupVars, clientVars, storageVars
<1>1. CASE DaemonNext
  <2>1. ASSUME NEW s \in SetNames, DaemonUpdate(s) PROVE PhaseInv'
    BY <2>1 DEF DaemonUpdate
  <2>2. ASSUME NEW s \in SetNames, DaemonSend(s) PROVE PhaseInv'
    BY <2>2 DEF DaemonSend
  <2>3. ASSUME NEW s \in SetNames, DaemonSendFails(s) PROVE PhaseInv'
    BY <2>3 DEF DaemonSendFails
  <2> QED
    BY <1>1, <2>1, <2>2, <2>3 DEF DaemonNext
<1>2. CASE SetupNext
  <2> USE DEF SetupGo
  <2>1. CASE SetupGetsProxy
    BY <2>1 DEF SetupGetsProxy
  <2>2. CASE SetupGetsNoProxy
    BY <2>2 DEF SetupGetsNoProxy
  <2>3. CASE SetupSubscribe
    BY <2>3 DEF SetupSubscribe
  <2>4. CASE SetupFetchBegin
    BY <2>4 DEF SetupFetchBegin
  <2>5. ASSUME NEW s \in SetNames, SetupFetchOne(s) PROVE PhaseInv'
    BY <2>5 DEF SetupFetchOne
  <2>6. CASE SetupFetchEnd
    BY <2>6 DEF SetupFetchEnd
  <2>7. CASE SetupWrite
    BY <2>7 DEF SetupWrite, Saved
  <2>8. CASE SetupRegister
    BY <2>8 DEF SetupRegister
  <2>9. CASE SetupPublish
    BY <2>9 DEF SetupPublish
  <2>10. CASE SetupAnnounce
    BY <2>10 DEF SetupAnnounce
  <2> QED
    BY <1>2, <2>1, <2>2, <2>3, <2>4, <2>5, <2>6, <2>7, <2>8, <2>9, <2>10 DEF SetupNext
<1>3. CASE PollThreadNext
  <2>1. CASE Poll
    BY <2>1 DEF Poll
  <2>2. CASE PollFails
    BY <2>2 DEF PollFails
  <2>3. CASE PollWakes
    BY <2>3 DEF PollWakes
  <2>4. CASE PollEnds
    BY <2>4 DEF PollEnds
  <2>5. CASE DispatchEnds
    BY <2>5 DEF DispatchEnds
  <2>6. ASSUME NEW s \in SetNames, DispatchNext(s) PROVE PhaseInv'
    BY <2>6 DEF DispatchNext
  <2>7. ASSUME NEW s \in SetNames, HandlerIgnores(s) PROVE PhaseInv'
    BY <2>7 DEF HandlerIgnores
  <2>8. ASSUME NEW s \in SetNames, HandlerFetch(s) PROVE PhaseInv'
    BY <2>8 DEF HandlerFetch
  <2>9. ASSUME NEW s \in SetNames, HandlerFetchFails(s) PROVE PhaseInv'
    BY <2>9 DEF HandlerFetchFails
  <2>10. ASSUME NEW s \in SetNames, HandlerDelivers(s) PROVE PhaseInv'
    BY <2>10 DEF HandlerDelivers
  <2> QED
    BY <1>3, <2>1, <2>2, <2>3, <2>4, <2>5, <2>6, <2>7, <2>8, <2>9, <2>10 DEF PollThreadNext
<1>4. ASSUME NEW c \in Clients, ClientNext(c) PROVE PhaseInv'
  <2> USE DEF ClientGo
  <2>1. ASSUME NEW s \in SetNames, GetCached(c, s) PROVE PhaseInv'
    BY <2>1 DEF GetCached
  <2>2. ASSUME NEW s \in SetNames, GetFetches(c, s) PROVE PhaseInv'
    BY <2>2 DEF GetFetches, Fetch
  <2>3. ASSUME NEW s \in SetNames, GetStores(c, s) PROVE PhaseInv'
    BY <2>3 DEF GetStores, StoreFetched
  <2>4. ASSUME NEW s \in SetNames, ListCached(c, s) PROVE PhaseInv'
    BY <2>4 DEF ListCached
  <2>5. ASSUME NEW s \in SetNames, ListSkips(c, s) PROVE PhaseInv'
    BY <2>5 DEF ListSkips
  <2>6. ASSUME NEW s \in SetNames, ListFetches(c, s) PROVE PhaseInv'
    BY <2>6 DEF ListFetches, Fetch
  <2>7. ASSUME NEW s \in SetNames, ListStores(c, s) PROVE PhaseInv'
    BY <2>7 DEF ListStores, StoreFetched
  <2>8. ASSUME NEW s \in SetNames, NEW k \in Callbacks, OnChanged(c, s, k) PROVE PhaseInv'
    BY <2>8 DEF OnChanged
  <2>9. ASSUME NEW names \in SUBSET SetNames, ListBegins(c, names) PROVE PhaseInv'
    BY <2>9 DEF ListBegins
  <2>10. CASE ListSyncs(c)
    BY <2>10 DEF ListSyncs
  <2>11. CASE CheckUpdates(c)
    BY <2>11 DEF CheckUpdates
  <2> QED
    BY <1>4, <2>1, <2>2, <2>3, <2>4, <2>5, <2>6, <2>7, <2>8, <2>9, <2>10, <2>11 DEF ClientNext
<1>5. CASE DestroyNext
  <2>1. CASE DestroyBegins
    BY <2>1 DEF DestroyBegins
  <2>2. CASE DestroyJoinsSetup
    BY <2>2 DEF DestroyJoinsSetup
  <2>3. CASE DestroyJoinsPoll
    BY <2>3 DEF DestroyJoinsPoll
  <2> QED
    BY <1>5, <2>1, <2>2, <2>3 DEF DestroyNext
<1>6. CASE Gone \/ UNCHANGED vars
  BY <1>6 DEF Gone, vars
<1> QED
  BY <1>1, <1>2, <1>3, <1>4, <1>5, <1>6 DEF Next

(***************************************************************************)
(* What the threads hold.                                                  *)
(***************************************************************************)
LEMMA NextHandInv ==
    ASSUME TypeOK, FetchedUnderMutex, PhaseInv, HandInv, [Next]_vars
    PROVE  HandInv'
<1> USE DEF TypeOK, MapType, HandType, HandInv, ClientHolds, Cached, daemonVars, event, pollVars, setupVars, clientVars, storageVars
<1> USE ThreadNames, VersionsArePresent
<1>1. CASE DaemonNext
  <2>1. ASSUME NEW s \in SetNames, DaemonUpdate(s) PROVE HandInv'
    BY <2>1 DEF DaemonUpdate
  <2>2. ASSUME NEW s \in SetNames, DaemonSend(s) PROVE HandInv'
    BY <2>2 DEF DaemonSend
  <2>3. ASSUME NEW s \in SetNames, DaemonSendFails(s) PROVE HandInv'
    BY <2>3 DEF DaemonSendFails
  <2> QED
    BY <1>1, <2>1, <2>2, <2>3 DEF DaemonNext
<1>2. CASE SetupNext
  <2> USE DEF SetupGo
  <2>1. CASE SetupGetsProxy
    BY <2>1 DEF SetupGetsProxy
  <2>2. CASE SetupGetsNoProxy
    BY <2>2 DEF SetupGetsNoProxy
  <2>3. CASE SetupSubscribe
    BY <2>3 DEF SetupSubscribe
  <2>4. CASE SetupFetchBegin
    BY <2>4 DEF SetupFetchBegin, Lock
  <2>5. ASSUME NEW s \in SetNames, SetupFetchOne(s) PROVE HandInv'
    BY <2>5 DEF SetupFetchOne
  <2>6. CASE SetupFetchEnd
    BY <2>6 DEF SetupFetchEnd, Unlock
  <2>7. CASE SetupWrite
    BY <2>7 DEF SetupWrite, Saved, PhaseInv
  <2>8. CASE SetupRegister
    BY <2>8 DEF SetupRegister, Registered
  <2>9. CASE SetupPublish
    BY <2>9 DEF SetupPublish
  <2>10. CASE SetupAnnounce
    BY <2>10 DEF SetupAnnounce
  <2> QED
    BY <1>2, <2>1, <2>2, <2>3, <2>4, <2>5, <2>6, <2>7, <2>8, <2>9, <2>10 DEF SetupNext
<1>3. CASE PollThreadNext
  <2>1. CASE Poll
    BY <2>1 DEF Poll
  <2>2. CASE PollFails
    BY <2>2 DEF PollFails
  <2>3. CASE PollWakes
    BY <2>3 DEF PollWakes
  <2>4. CASE PollEnds
    BY <2>4 DEF PollEnds
  <2>5. CASE DispatchEnds
    BY <2>5 DEF DispatchEnds
  <2>6. ASSUME NEW s \in SetNames, DispatchNext(s) PROVE HandInv'
    BY <2>6 DEF DispatchNext
  <2>7. ASSUME NEW s \in SetNames, HandlerIgnores(s) PROVE HandInv'
    BY <2>7 DEF HandlerIgnores
  <2>8. ASSUME NEW s \in SetNames, HandlerFetch(s) PROVE HandInv'
    BY <2>8 DEF HandlerFetch, Lock
  <2>9. ASSUME NEW s \in SetNames, HandlerFetchFails(s) PROVE HandInv'
    BY <2>9 DEF HandlerFetchFails
  <2>10. ASSUME NEW s \in SetNames, HandlerDelivers(s) PROVE HandInv'
    BY <2>10, HoldsAlone DEF HandlerDelivers, Unlock
  <2> QED
    BY <1>3, <2>1, <2>2, <2>3, <2>4, <2>5, <2>6, <2>7, <2>8, <2>9, <2>10 DEF PollThreadNext
<1>4. ASSUME NEW c \in Clients, ClientNext(c) PROVE HandInv'
  <2> USE DEF ClientGo
  <2>1. ASSUME NEW s \in SetNames, GetCached(c, s) PROVE HandInv'
    BY <2>1 DEF GetCached
  <2>2. ASSUME NEW s \in SetNames, GetFetches(c, s) PROVE HandInv'
    BY <2>2 DEF GetFetches, Fetch, Lock
  <2>3. ASSUME NEW s \in SetNames, GetStores(c, s) PROVE HandInv'
    BY <2>3, HoldsAlone DEF GetStores, StoreFetched, Registered, Unlock
  <2>4. ASSUME NEW s \in SetNames, ListCached(c, s) PROVE HandInv'
    BY <2>4 DEF ListCached
  <2>5. ASSUME NEW s \in SetNames, ListSkips(c, s) PROVE HandInv'
    BY <2>5 DEF ListSkips
  <2>6. ASSUME NEW s \in SetNames, ListFetches(c, s) PROVE HandInv'
    BY <2>6 DEF ListFetches, Fetch, Lock
  <2>7. ASSUME NEW s \in SetNames, ListStores(c, s) PROVE HandInv'
    BY <2>7, HoldsAlone DEF ListStores, StoreFetched, Registered, Unlock
  <2>8. ASSUME NEW s \in SetNames, NEW k \in Callbacks, OnChanged(c, s, k) PROVE HandInv'
    BY <2>8, ConstantsAssumption DEF OnChanged, Registered
  <2>9. ASSUME NEW names \in SUBSET SetNames, ListBegins(c, names) PROVE HandInv'
    BY <2>9 DEF ListBegins
  <2>10. CASE ListSyncs(c)
    BY <2>10 DEF ListSyncs
  <2>11. CASE CheckUpdates(c)
    BY <2>11 DEF CheckUpdates
  <2> QED
    BY <1>4, <2>1, <2>2, <2>3, <2>4, <2>5, <2>6, <2>7, <2>8, <2>9, <2>10, <2>11 DEF ClientNext
<1>5. CASE DestroyNext
  <2>1. CASE DestroyBegins
    BY <2>1 DEF DestroyBegins
  <2>2. CASE DestroyJoinsSetup
    BY <2>2 DEF DestroyJoinsSetup
  <2>3. CASE DestroyJoinsPoll
    BY <2>3 DEF DestroyJoinsPoll
  <2> QED
    BY <1>5, <2>1, <2>2, <2>3 DEF DestroyNext
<1>6. CASE Gone \/ UNCHANGED vars
  BY <1>6 DEF Gone, vars
<1> QED
  BY <1>1, <1>2, <1>3, <1>4, <1>5, <1>6 DEF Next

(***************************************************************************)
(* Handlers are only added, and a set is cached together with its          *)
(* handler.                                                                *)
(***************************************************************************)
LEMMA NextHandlerInv ==
    ASSUME TypeOK, PhaseInv, HandInv, HandlerInv, [Next]_vars
    PROVE  HandlerInv'
<1> USE DEF TypeOK, HandlerInv, Cached, daemonVars, event, pollVars, setupVars, clientVars, storageVars
<1>1. CASE DaemonNext
  <2>1. ASSUME NEW s \in SetNames, DaemonUpdate(s) PROVE HandlerInv'
    BY <2>1 DEF DaemonUpdate
  <2>2. ASSUME NEW s \in SetNames, DaemonSend(s) PROVE HandlerInv'
    BY <2>2 DEF DaemonSend
  <2>3. ASSUME NEW s \in SetNames, DaemonSendFails(s) PROVE HandlerInv'
    BY <2>3 DEF DaemonSendFails
  <2> QED
    BY <1>1, <2>1, <2>2, <2>3 DEF DaemonNext
<1>2. CASE SetupNext
  <2> USE DEF SetupGo
  <2>1. CASE SetupGetsProxy
    BY <2>1 DEF SetupGetsProxy
  <2>2. CASE SetupGetsNoProxy
    BY <2>2 DEF SetupGetsNoProxy
  <2>3. CASE SetupSubscribe
    BY <2>3 DEF SetupSubscribe
  <2>4. CASE SetupFetchBegin
    BY <2>4 DEF SetupFetchBegin
  <2>5. ASSUME NEW s \in SetNames, SetupFetchOne(s) PROVE HandlerInv'
    BY <2>5 DEF SetupFetchOne
  <2>6. CASE SetupFetchEnd
    BY <2>6 DEF SetupFetchEnd
  <2>7. CASE SetupWrite
    BY <2>7 DEF SetupWrite, Saved, Refetched, Fetched
  <2>8. CASE SetupRegister
    BY <2>8 DEF SetupRegister, Registered
  <2>9. CASE SetupPublish
    BY <2>9 DEF SetupPublish
  <2>10. CASE SetupAnnounce
    BY <2>10 DEF SetupAnnounce
  <2> QED
    BY <1>2, <2>1, <2>2, <2>3, <2>4, <2>5, <2>6, <2>7, <2>8, <2>9, <2>10 DEF SetupNext
<1>3. CASE PollThreadNext
  <2>1. CASE Poll
    BY <2>1 DEF Poll
  <2>2. CASE PollFails
    BY <2>2 DEF PollFails
  <2>3. CASE PollWakes
    BY <2>3 DEF PollWakes
  <2>4. CASE PollEnds
    BY <2>4 DEF PollEnds
  <2>5. CASE DispatchEnds
    BY <2>5 DEF DispatchEnds
  <2>6. ASSUME NEW s \in SetNames, DispatchNext(s) PROVE HandlerInv'
    BY <2>6 DEF DispatchNext
  <2>7. ASSUME NEW s \in SetNames, HandlerIgnores(s) PROVE HandlerInv'
    BY <2>7 DEF HandlerIgnores
  <2>8. ASSUME NEW s \in SetNames, HandlerFetch(s) PROVE HandlerInv'
    BY <2>8 DEF HandlerFetch
  <2>9. ASSUME NEW s \in SetNames, HandlerFetchFails(s) PROVE HandlerInv'
    BY <2>9 DEF HandlerFetchFails
  <2>10. ASSUME NEW s \in SetNames, HandlerDelivers(s) PROVE HandlerInv'
    BY <2>10 DEF HandlerDelivers, HandInv
  <2> QED
    BY <1>3, <2>1, <2>2, <2>3, <2>4, <2>5, <2>6, <2>7, <2>8, <2>9, <2>10 DEF PollThreadNext
<1>4. ASSUME NEW c \in Clients, ClientNext(c) PROVE HandlerInv'
  <2> USE DEF ClientGo
  <2>1. ASSUME NEW s \in SetNames, GetCached(c, s) PROVE HandlerInv'
    BY <2>1 DEF GetCached
  <2>2. ASSUME NEW s \in SetNames, GetFetches(c, s) PROVE HandlerInv'
    BY <2>2 DEF GetFetches, Fetch
  <2>3. ASSUME NEW s \in SetNames, GetStores(c, s) PROVE HandlerInv'
    BY <2>3 DEF GetStores, StoreFetched, Registered
  <2>4. ASSUME NEW s \in SetNames, ListCached(c, s) PROVE HandlerInv'
    BY <2>4 DEF ListCached
  <2>5. ASSUME NEW s \in SetNames, ListSkips(c, s) PROVE HandlerInv'
    BY <2>5 DEF ListSkips
  <2>6. ASSUME NEW s \in SetNames, ListFetches(c, s) PROVE HandlerInv'
    BY <2>6 DEF ListFetches, Fetch
  <2>7. ASSUME NEW s \in SetNames, ListStores(c, s) PROVE HandlerInv'
    BY <2>7 DEF ListStores, StoreFetched, Registered
  <2>8. ASSUME NEW s \in SetNames, NEW k \in Callbacks, OnChanged(c, s, k) PROVE HandlerInv'
    BY <2>8, ConstantsAssumption DEF OnChanged, Registered
  <2>9. ASSUME NEW names \in SUBSET SetNames, ListBegins(c, names) PROVE HandlerInv'
    BY <2>9 DEF ListBegins
  <2>10. CASE ListSyncs(c)
    BY <2>10 DEF ListSyncs
  <2>11. CASE CheckUpdates(c)
    BY <2>11 DEF CheckUpdates
  <2> QED
    BY <1>4, <2>1, <2>2, <2>3, <2>4, <2>5, <2>6, <2>7, <2>8, <2>9, <2>10, <2>11 DEF ClientNext
<1>5. CASE DestroyNext
  <2>1. CASE DestroyBegins
    BY <2>1 DEF DestroyBegins
  <2>2. CASE DestroyJoinsSetup
    BY <2>2 DEF DestroyJoinsSetup
  <2>3. CASE DestroyJoinsPoll
    BY <2>3 DEF DestroyJoinsPoll
  <2> QED
    BY <1>5, <2>1, <2>2, <2>3 DEF DestroyNext
<1>6. CASE Gone \/ UNCHANGED vars
  BY <1>6 DEF Gone, vars
<1> QED
  BY <1>1, <1>2, <1>3, <1>4, <1>5, <1>6 DEF Next

(***************************************************************************)
(* The initial fetch covers every cached set.                              *)
(***************************************************************************)
LEMMA NextFetchInv ==
    ASSUME TypeOK, PhaseInv, FetchInv, [Next]_vars
    PROVE  FetchInv'
<1> USE DEF TypeOK, FetchInv, Cached, Fetched, daemonVars, event, pollVars, setupVars, clientVars, storageVars
<1> USE VersionsArePresent
<1>1. CASE DaemonNext
  <2>1. ASSUME NEW s \in SetNames, DaemonUpdate(s) PROVE FetchInv'
    BY <2>1 DEF DaemonUpdate
  <2>2. ASSUME NEW s \in SetNames, DaemonSend(s) PROVE FetchInv'
    BY <2>2 DEF DaemonSend
  <2>3. ASSUME NEW s \in SetNames, DaemonSendFails(s) PROVE FetchInv'
    BY <2>3 DEF DaemonSendFails
  <2> QED
    BY <1>1, <2>1, <2>2, <2>3 DEF DaemonNext
<1>2. CASE SetupNext
  <2> USE DEF SetupGo
  <2>1. CASE SetupGetsProxy
    BY <2>1 DEF SetupGetsProxy
  <2>2. CASE SetupGetsNoProxy
    BY <2>2 DEF SetupGetsNoProxy
  <2>3. CASE SetupSubscribe
    BY <2>3 DEF SetupSubscribe
  <2>4. CASE SetupFetchBegin
    BY <2>4 DEF SetupFetchBegin, AbsentMap
  <2>5. ASSUME NEW s \in SetNames, SetupFetchOne(s) PROVE FetchInv'
    BY <2>5 DEF SetupFetchOne, MapType
  <2>6. CASE SetupFetchEnd
    BY <2>6 DEF SetupFetchEnd
  <2>7. CASE SetupWrite
    BY <2>7 DEF SetupWrite, Saved, Refetched, Fetched
  <2>8. CASE SetupRegister
    BY <2>8 DEF SetupRegister
  <2>9. CASE SetupPublish
    BY <2>9 DEF SetupPublish
  <2>10. CASE SetupAnnounce
    BY <2>10 DEF SetupAnnounce
  <2> QED
    BY <1>2, <2>1, <2>2, <2>3, <2>4, <2>5, <2>6, <2>7, <2>8, <2>9, <2>10 DEF SetupNext
<1>3. CASE PollThreadNext
  <2>1. CASE Poll
    BY <2>1 DEF Poll
  <2>2. CASE PollFails
    BY <2>2 DEF PollFails
  <2>3. CASE PollWakes
    BY <2>3 DEF PollWakes
  <2>4. CASE PollEnds
    BY <2>4 DEF PollEnds
  <2>5. CASE DispatchEnds
    BY <2>5 DEF DispatchEnds
  <2>6. ASSUME NEW s \in SetNames, DispatchNext(s) PROVE FetchInv'
    BY <2>6 DEF DispatchNext
  <2>7. ASSUME NEW s \in SetNames, HandlerIgnores(s) PROVE FetchInv'
    BY <2>7 DEF HandlerIgnores
  <2>8. ASSUME NEW s \in SetNames, HandlerFetch(s) PROVE FetchInv'
    BY <2>8 DEF HandlerFetch
  <2>9. ASSUME NEW s \in SetNames, HandlerFetchFails(s) PROVE FetchInv'
    BY <2>9 DEF HandlerFetchFails
  <2>10. ASSUME NEW s \in SetNames, HandlerDelivers(s) PROVE FetchInv'
    BY <2>10 DEF HandlerDelivers, PhaseInv
  <2> QED
    BY <1>3, <2>1, <2>2, <2>3, <2>4, <2>5, <2>6, <2>7, <2>8, <2>9, <2>10 DEF PollThreadNext
<1>4. ASSUME NEW c \in Clients, ClientNext(c) PROVE FetchInv'
  <2> USE DEF ClientGo
  <2>1. ASSUME NEW s \in SetNames, GetCached(c, s) PROVE FetchInv'
    BY <2>1 DEF GetCached
  <2>2. ASSUME NEW s \in SetNames, GetFetches(c, s) PROVE FetchInv'
    BY <2>2 DEF GetFetches, Fetch
  <2>3. ASSUME NEW s \in SetNames, GetStores(c, s) PROVE FetchInv'
    BY <2>3 DEF GetStores, StoreFetched, PhaseInv, ClientHolds
  <2>4. ASSUME NEW s \in SetNames, ListCached(c, s) PROVE FetchInv'
    BY <2>4 DEF ListCached
  <2>5. ASSUME NEW s \in SetNames, ListSkips(c, s) PROVE FetchInv'
    BY <2>5 DEF ListSkips
  <2>6. ASSUME NEW s \in SetNames, ListFetches(c, s) PROVE FetchInv'
    BY <2>6 DEF ListFetches, Fetch
  <2>7. ASSUME NEW s \in SetNames, ListStores(c, s) PROVE FetchInv'
    BY <2>7 DEF ListStores, StoreFetched, PhaseInv, ClientHolds
  <2>8. ASSUME NEW s \in SetNames, NEW k \in Callbacks, OnChanged(c, s, k) PROVE FetchInv'
    BY <2>8 DEF OnChanged
  <2>9. ASSUME NEW names \in SUBSET SetNames, ListBegins(c, names) PROVE FetchInv'
    BY <2>9 DEF ListBegins
  <2>10. CASE ListSyncs(c)
    BY <2>10 DEF ListSyncs
  <2>11. CASE CheckUpdates(c)
    BY <2>11 DEF CheckUpdates
  <2> QED
    BY <1>4, <2>1, <2>2, <2>3, <2>4, <2>5, <2>6, <2>7, <2>8, <2>9, <2>10, <2>11 DEF ClientNext
<1>5. CASE DestroyNext
  <2>1. CASE DestroyBegins
    BY <2>1 DEF DestroyBegins
  <2>2. CASE DestroyJoinsSetup
    BY <2>2 DEF DestroyJoinsSetup
  <2>3. CASE DestroyJoinsPoll
    BY <2>3 DEF DestroyJoinsPoll
  <2> QED
    BY <1>5, <2>1, <2>2, <2>3 DEF DestroyNext
<1>6. CASE Gone \/ UNCHANGED vars
  BY <1>6 DEF Gone, vars
<1> QED
  BY <1>1, <1>2, <1>3, <1>4, <1>5, <1>6 DEF Next

(***************************************************************************)
(* The cache is written to and the persistency is told in one step.        *)
(***************************************************************************)
LEMMA NextStorageInv ==
    ASSUME TypeOK, HandInv, StorageInv, [Next]_vars
    PROVE  StorageInv'
<1> USE DEF TypeOK, MapType, StorageInv, Cached, daemonVars, event, pollVars, setupVars, clientVars, storageVars
<1>1. CASE DaemonNext
  <2>1. ASSUME NEW s \in SetNames, DaemonUpdate(s) PROVE StorageInv'
    BY <2>1 DEF DaemonUpdate
  <2>2. ASSUME NEW s \in SetNames, DaemonSend(s) PROVE StorageInv'
    BY <2>2 DEF DaemonSend
  <2>3. ASSUME NEW s \in SetNames, DaemonSendFails(s) PROVE StorageInv'
    BY <2>3 DEF DaemonSendFails
  <2> QED
    BY <1>1, <2>1, <2>2, <2>3 DEF DaemonNext
<1>2. CASE SetupNext
  <2> USE DEF SetupGo
  <2>1. CASE SetupGetsProxy
    BY <2>1 DEF SetupGetsProxy
  <2>2. CASE SetupGetsNoProxy
    BY <2>2 DEF SetupGetsNoProxy
  <2>3. CASE SetupSubscribe
    BY <2>3 DEF SetupSubscribe
  <2>4. CASE SetupFetchBegin
    BY <2>4 DEF SetupFetchBegin
  <2>5. ASSUME NEW s \in SetNames, SetupFetchOne(s) PROVE StorageInv'
    BY <2>5 DEF SetupFetchOne
  <2>6. CASE SetupFetchEnd
    BY <2>6 DEF SetupFetchEnd
  <2>7. CASE SetupWrite
    BY <2>7 DEF SetupWrite, Saved, Refetched, Fetched
  <2>8. CASE SetupRegister
    BY <2>8 DEF SetupRegister
  <2>9. CASE SetupPublish
    BY <2>9 DEF SetupPublish
  <2>10. CASE SetupAnnounce
    BY <2>10 DEF SetupAnnounce
  <2> QED
    BY <1>2, <2>1, <2>2, <2>3, <2>4, <2>5, <2>6, <2>7, <2>8, <2>9, <2>10 DEF SetupNext
<1>3. CASE PollThreadNext
  <2>1. CASE Poll
    BY <2>1 DEF Poll
  <2>2. CASE PollFails
    BY <2>2 DEF PollFails
  <2>3. CASE PollWakes
    BY <2>3 DEF PollWakes
  <2>4. CASE PollEnds
    BY <2>4 DEF PollEnds
  <2>5. CASE DispatchEnds
    BY <2>5 DEF DispatchEnds
  <2>6. ASSUME NEW s \in SetNames, DispatchNext(s) PROVE StorageInv'
    BY <2>6 DEF DispatchNext
  <2>7. ASSUME NEW s \in SetNames, HandlerIgnores(s) PROVE StorageInv'
    BY <2>7 DEF HandlerIgnores
  <2>8. ASSUME NEW s \in SetNames, HandlerFetch(s) PROVE StorageInv'
    BY <2>8 DEF HandlerFetch
  <2>9. ASSUME NEW s \in SetNames, HandlerFetchFails(s) PROVE StorageInv'
    BY <2>9 DEF HandlerFetchFails
  <2>10. ASSUME NEW s \in SetNames, HandlerDelivers(s) PROVE StorageInv'
    BY <2>10 DEF HandlerDelivers, Persist
  <2> QED
    BY <1>3, <2>1, <2>2, <2>3, <2>4, <2>5, <2>6, <2>7, <2>8, <2>9, <2>10 DEF PollThreadNext
<1>4. ASSUME NEW c \in Clients, ClientNext(c) PROVE StorageInv'
  <2> USE DEF ClientGo
  <2>1. ASSUME NEW s \in SetNames, GetCached(c, s) PROVE StorageInv'
    BY <2>1 DEF GetCached
  <2>2. ASSUME NEW s \in SetNames, GetFetches(c, s) PROVE StorageInv'
    BY <2>2 DEF GetFetches, Fetch
  <2>3. ASSUME NEW s \in SetNames, GetStores(c, s) PROVE StorageInv'
    BY <2>3 DEF GetStores, StoreFetched, Persist, HandInv, ClientHolds
  <2>4. ASSUME NEW s \in SetNames, ListCached(c, s) PROVE StorageInv'
    BY <2>4 DEF ListCached
  <2>5. ASSUME NEW s \in SetNames, ListSkips(c, s) PROVE StorageInv'
    BY <2>5 DEF ListSkips
  <2>6. ASSUME NEW s \in SetNames, ListFetches(c, s) PROVE StorageInv'
    BY <2>6 DEF ListFetches, Fetch
  <2>7. ASSUME NEW s \in SetNames, ListStores(c, s) PROVE StorageInv'
    BY <2>7 DEF ListStores, StoreFetched, Persist, HandInv, ClientHolds
  <2>8. ASSUME NEW s \in SetNames, NEW k \in Callbacks, OnChanged(c, s, k) PROVE StorageInv'
    BY <2>8 DEF OnChanged
  <2>9. ASSUME NEW names \in SUBSET SetNames, ListBegins(c, names) PROVE StorageInv'
    BY <2>9 DEF ListBegins
  <2>10. CASE ListSyncs(c)
    BY <2>10 DEF ListSyncs
  <2>11. CASE CheckUpdates(c)
    BY <2>11 DEF CheckUpdates
  <2> QED
    BY <1>4, <2>1, <2>2, <2>3, <2>4, <2>5, <2>6, <2>7, <2>8, <2>9, <2>10, <2>11 DEF ClientNext
<1>5. CASE DestroyNext
  <2>1. CASE DestroyBegins
    BY <2>1 DEF DestroyBegins
  <2>2. CASE DestroyJoinsSetup
    BY <2>2 DEF DestroyJoinsSetup
  <2>3. CASE DestroyJoinsPoll
    BY <2>3 DEF DestroyJoinsPoll
  <2> QED
    BY <1>5, <2>1, <2>2, <2>3 DEF DestroyNext
<1>6. CASE Gone \/ UNCHANGED vars
  BY <1>6 DEF Gone, vars
<1> QED
  BY <1>1, <1>2, <1>3, <1>4, <1>5, <1>6 DEF Next

(***************************************************************************)
(* Versions move forward, since a value is stored under the same lock      *)
(* that was held when it was fetched.                                      *)
(***************************************************************************)
LEMMA NextOrderInv ==
    ASSUME TypeOK, FetchedUnderMutex, PhaseInv, HandInv, FetchInv, OrderInv, [Next]_vars
    PROVE  OrderInv'
<1> USE DEF OrderInv, Cached, Fetched, Holds, daemonVars, event, pollVars, setupVars, clientVars, storageVars
<1> USE ThreadNames, VersionsArePresent, MapsHoldNumbers
<1>1. CASE DaemonNext
  <2>1. ASSUME NEW s \in SetNames, DaemonUpdate(s) PROVE OrderInv'
    <3>1. version' \in [SetNames -> Nat] /\ \A r \in SetNames : version[r] <= version'[r]
      BY <2>1 DEF DaemonUpdate, TypeOK
    <3>2. \A t \in Threads : t # "setup" /\ Holds(t) =>
            hand[t].set \in SetNames /\ hand[t].value \in Nat
      BY DEF HandInv, ClientHolds, Threads
    <3> QED
      BY <2>1, <3>1, <3>2 DEF DaemonUpdate
  <2>2. ASSUME NEW s \in SetNames, DaemonSend(s) PROVE OrderInv'
    BY <2>2 DEF DaemonSend
  <2>3. ASSUME NEW s \in SetNames, DaemonSendFails(s) PROVE OrderInv'
    BY <2>3 DEF DaemonSendFails
  <2> QED
    BY <1>1, <2>1, <2>2, <2>3 DEF DaemonNext
<1>2. CASE SetupNext
  <2> USE DEF SetupGo
  <2>1. CASE SetupGetsProxy
    BY <2>1 DEF SetupGetsProxy
  <2>2. CASE SetupGetsNoProxy
    BY <2>2 DEF SetupGetsNoProxy
  <2>3. CASE SetupSubscribe
    BY <2>3 DEF SetupSubscribe
  <2>4. CASE SetupFetchBegin
    BY <2>4 DEF SetupFetchBegin, Lock
  <2>5. ASSUME NEW s \in SetNames, SetupFetchOne(s) PROVE OrderInv'
    <3>1. s \in SetNames /\ version[s] \in Nat /\ s \in Cached /\ cache[s] <= version[s]
      BY <2>5 DEF SetupFetchOne, FetchInv
    <3>2. \A t \in Threads : t # "setup" => ~Holds(t)
      BY <2>5 DEF SetupFetchOne, PhaseInv, ClientHolds
    <3>3. UNCHANGED <<version, cache, observed, setupPc, clientPc, pollPc, hand>>
      BY <2>5 DEF SetupFetchOne
    <3>4. \A r \in SetNames : \/ fetched'[r] = fetched[r]
                              \/ r = s /\ fetched'[r] = version[s]
      BY <2>5 DEF SetupFetchOne, TypeOK, MapType
    <3>5. \A r \in Fetched' : /\ r \in Cached => cache[r] <= fetched'[r]
                             /\ fetched'[r] <= version[r]
      BY <3>1, <3>4
    <3> QED
      BY <3>2, <3>3, <3>5
  <2>6. CASE SetupFetchEnd
    BY <2>6 DEF SetupFetchEnd, Unlock
  <2>7. CASE SetupWrite
    <3>1. cache' = cache \/ cache' = fetched
      BY <2>7 DEF SetupWrite, Saved, Refetched
    <3>2. Fetched' = {}
      BY <2>7 DEF SetupWrite, Saved, AbsentMap
    <3>3. Fetched \subseteq Cached
      BY <2>7 DEF SetupWrite, Saved, FetchInv
    <3>4. \A t \in Threads : t # "setup" => ~Holds(t)
      BY <2>7 DEF SetupWrite, Saved, PhaseInv, ClientHolds
    <3>5. UNCHANGED <<version, observed, clientPc, pollPc, hand>>
      BY <2>7 DEF SetupWrite, Saved
    <3>6. CASE cache' = cache
      BY <3>2, <3>4, <3>5, <3>6
    <3>7. CASE cache' = fetched
      BY <3>2, <3>3, <3>4, <3>5, <3>7
    <3> QED
      BY <3>1, <3>6, <3>7
  <2>8. CASE SetupRegister
    BY <2>8 DEF SetupRegister
  <2>9. CASE SetupPublish
    BY <2>9 DEF SetupPublish
  <2>10. CASE SetupAnnounce
    BY <2>10 DEF SetupAnnounce
  <2> QED
    BY <1>2, <2>1, <2>2, <2>3, <2>4, <2>5, <2>6, <2>7, <2>8, <2>9, <2>10 DEF SetupNext
<1>3. CASE PollThreadNext
  <2>1. CASE Poll
    BY <2>1 DEF Poll
  <2>2. CASE PollFails
    BY <2>2 DEF PollFails
  <2>3. CASE PollWakes
    BY <2>3 DEF PollWakes
  <2>4. CASE PollEnds
    BY <2>4 DEF PollEnds
  <2>5. CASE DispatchEnds
    BY <2>5 DEF DispatchEnds
  <2>6. ASSUME NEW s \in SetNames, DispatchNext(s) PROVE OrderInv'
    BY <2>6 DEF DispatchNext
  <2>7. ASSUME NEW s \in SetNames, HandlerIgnores(s) PROVE OrderInv'
    BY <2>7 DEF HandlerIgnores
  <2>8. ASSUME NEW s \in SetNames, HandlerFetch(s) PROVE OrderInv'
    BY <2>8 DEF HandlerFetch, Lock, TypeOK, MapType, HandType
  <2>9. ASSUME NEW s \in SetNames, HandlerFetchFails(s) PROVE OrderInv'
    BY <2>9 DEF HandlerFetchFails
  <2>10. ASSUME NEW s \in SetNames, HandlerDelivers(s) PROVE OrderInv'
    <3> DEFINE v == hand["poll"].value
    <3>1. s \in SetNames /\ hand["poll"].set = s /\ v \in Nat
      BY <2>10 DEF HandlerDelivers, HandInv
    <3>2. /\ v <= version[s]
          /\ s \in Cached => cache[s] <= v
          /\ observed[s] # Absent => observed[s] <= v
      BY <2>10, <3>1 DEF HandlerDelivers
    <3>3. /\ \A r \in SetNames \ {s} : cache'[r] = cache[r] /\ observed'[r] = observed[r]
          /\ cache'[s] = v /\ observed'[s] \in {observed[s], v}
          /\ UNCHANGED <<version, fetched, setupPc, clientPc>>
      BY <2>10, <3>1 DEF HandlerDelivers, TypeOK, MapType
    <3>4. Fetched = {} /\ Fetched' = {}
      BY <2>10, <3>3 DEF HandlerDelivers, PhaseInv, FetchInv, AbsentMap
    <3>5. \A t \in Threads : t # "setup" => ~Holds(t)'
      BY <2>10, HoldsAlone DEF HandlerDelivers, ClientHolds
    <3>6. \A r \in Cached' : cache'[r] <= version'[r]
      BY <3>1, <3>2, <3>3
    <3>7. ASSUME NEW r \in SetNames, observed'[r] # Absent
          PROVE  observed'[r] <= version'[r] /\ (r \in Cached' => observed'[r] <= cache'[r])
      <4>1. CASE r = s
        BY <3>1, <3>2, <3>3, <3>7, <4>1
      <4>2. CASE r # s
        BY <3>1, <3>3, <3>7, <4>2
      <4> QED
        BY <4>1, <4>2
    <3> QED
      BY <3>4, <3>5, <3>6, <3>7
  <2> QED
    BY <1>3, <2>1, <2>2, <2>3, <2>4, <2>5, <2>6, <2>7, <2>8, <2>9, <2>10 DEF PollThreadNext
<1>4. ASSUME NEW c \in Clients, ClientNext(c) PROVE OrderInv'
  <2> USE DEF ClientGo
  <2>1. ASSUME NEW s \in SetNames, GetCached(c, s) PROVE OrderInv'
    BY <2>1 DEF GetCached
  <2>2. ASSUME NEW s \in SetNames, GetFetches(c, s) PROVE OrderInv'
    BY <2>2 DEF GetFetches, Fetch, Lock, TypeOK, MapType, HandType
  <2>3. ASSUME NEW s \in SetNames, GetStores(c, s) PROVE OrderInv'
    <3> DEFINE v == hand[c].value
    <3>1. s \in SetNames /\ hand[c].set = s /\ v \in Nat /\ s \notin Cached
      BY <2>3 DEF GetStores, HandInv, ClientHolds
    <3>2. /\ v <= version[s]
          /\ observed[s] # Absent => observed[s] <= v
      BY <2>3, <3>1 DEF GetStores
    <3>3. /\ \A r \in SetNames \ {s} : cache'[r] = cache[r] /\ observed'[r] = observed[r]
          /\ cache'[s] = v /\ observed'[s] = v
          /\ UNCHANGED <<version, fetched, setupPc, pollPc>>
      BY <2>3, <3>1 DEF GetStores, StoreFetched, TypeOK, MapType
    <3>4. Fetched = {} /\ Fetched' = {}
      BY <2>3, <3>3 DEF GetStores, PhaseInv, ClientHolds, FetchInv, AbsentMap
    <3>5. \A t \in Threads : t # "setup" => ~Holds(t)'
      BY <2>3, HoldsAlone DEF GetStores, ClientHolds, StoreFetched, Unlock, TypeOK
    <3>6. \A r \in Cached' : cache'[r] <= version'[r]
      BY <3>1, <3>2, <3>3
    <3>7. ASSUME NEW r \in SetNames, observed'[r] # Absent
          PROVE  observed'[r] <= version'[r] /\ (r \in Cached' => observed'[r] <= cache'[r])
      <4>1. CASE r = s
        BY <3>1, <3>2, <3>3, <3>7, <4>1
      <4>2. CASE r # s
        BY <3>1, <3>3, <3>7, <4>2
      <4> QED
        BY <4>1, <4>2
    <3> QED
      BY <3>4, <3>5, <3>6, <3>7
  <2>4. ASSUME NEW s \in SetNames, ListCached(c, s) PROVE OrderInv'
    BY <2>4 DEF ListCached
  <2>5. ASSUME NEW s \in SetNames, ListSkips(c, s) PROVE OrderInv'
    BY <2>5 DEF ListSkips
  <2>6. ASSUME NEW s \in SetNames, ListFetches(c, s) PROVE OrderInv'
    BY <2>6 DEF ListFetches, Fetch, Lock, TypeOK, MapType, HandType
  <2>7. ASSUME NEW s \in SetNames, ListStores(c, s) PROVE OrderInv'
    <3> DEFINE v == hand[c].value
    <3>1. s \in SetNames /\ hand[c].set = s /\ v \in Nat /\ s \notin Cached
      BY <2>7 DEF ListStores, HandInv, ClientHolds
    <3>2. /\ v <= version[s]
          /\ observed[s] # Absent => observed[s] <= v
      BY <2>7, <3>1 DEF ListStores
    <3>3. /\ \A r \in SetNames \ {s} : cache'[r] = cache[r] /\ observed'[r] = observed[r]
          /\ cache'[s] = v /\ observed'[s] = v
          /\ UNCHANGED <<version, fetched, setupPc, pollPc>>
      BY <2>7, <3>1 DEF ListStores, StoreFetched, TypeOK, MapType
    <3>4. Fetched = {} /\ Fetched' = {}
      BY <2>7, <3>3 DEF ListStores, PhaseInv, ClientHolds, FetchInv, AbsentMap
    <3>5. \A t \in Threads : t # "setup" => ~Holds(t)'
      BY <2>7, HoldsAlone DEF ListStores, ClientHolds, StoreFetched, Unlock, TypeOK
    <3>6. \A r \in Cached' : cache'[r] <= version'[r]
      BY <3>1, <3>2, <3>3
    <3>7. ASSUME NEW r \in SetNames, observed'[r] # Absent
          PROVE  observed'[r] <= version'[r] /\ (r \in Cached' => observed'[r] <= cache'[r])
      <4>1. CASE r = s
        BY <3>1, <3>2, <3>3, <3>7, <4>1
      <4>2. CASE r # s
        BY <3>1, <3>3, <3>7, <4>2
      <4> QED
        BY <4>1, <4>2
    <3> QED
      BY <3>4, <3>5, <3>6, <3>7
  <2>8. ASSUME NEW s \in SetNames, NEW k \in Callbacks, OnChanged(c, s, k) PROVE OrderInv'
    BY <2>8 DEF OnChanged
  <2>9. ASSUME NEW names \in SUBSET SetNames, ListBegins(c, names) PROVE OrderInv'
    BY <2>9 DEF ListBegins
  <2>10. CASE ListSyncs(c)
    BY <2>10 DEF ListSyncs
  <2>11. CASE CheckUpdates(c)
    BY <2>11 DEF CheckUpdates
  <2> QED
    BY <1>4, <2>1, <2>2, <2>3, <2>4, <2>5, <2>6, <2>7, <2>8, <2>9, <2>10, <2>11 DEF ClientNext
<1>5. CASE DestroyNext
  <2>1. CASE DestroyBegins
    BY <2>1 DEF DestroyBegins
  <2>2. CASE DestroyJoinsSetup
    BY <2>2 DEF DestroyJoinsSetup
  <2>3. CASE DestroyJoinsPoll
    BY <2>3 DEF DestroyJoinsPoll
  <2> QED
    BY <1>5, <2>1, <2>2, <2>3 DEF DestroyNext
<1>6. CASE Gone \/ UNCHANGED vars
  BY <1>6 DEF Gone, vars
<1> QED
  BY <1>1, <1>2, <1>3, <1>4, <1>5, <1>6 DEF Next

(***************************************************************************)
(* A value that is not current has an event on its way, or was missed.     *)
(***************************************************************************)
LEMMA NextFreshInv ==
    ASSUME TypeOK, FetchedUnderMutex, PhaseInv, HandInv, HandlerInv, FetchInv, FreshInv, [Next]_vars
    PROVE  FreshInv'
<1> USE DEF daemonVars, event, pollVars, setupVars, clientVars, storageVars
<1> USE ThreadNames, VersionsArePresent
<1>1. CASE DaemonNext
  <2>1. ASSUME NEW s \in SetNames, DaemonUpdate(s) PROVE FreshInv'
    BY <2>1 DEF DaemonUpdate, TypeOK, FreshInv, Fresh, OnItsWay, BeingStored, Cached, Fetched, Range, ClientHolds
  <2>2. ASSUME NEW s \in SetNames, DaemonSend(s) PROVE FreshInv'
    <3>1. CASE ~Listens
      BY <2>2, <3>1 DEF DaemonSend, Listens, PhaseInv, FreshInv, ClientHolds
    <3>2. CASE Listens
      <4>1. /\ s \in Range(ring') \/ s \in missed'
            /\ \A r \in Range(ring) : r \in Range(ring') \/ r \in missed'
        <5>1. CASE subscribed
          <6>1. ring' = Pushed(s)
            BY <2>2, <5>1 DEF DaemonSend
          <6>2. Len(ring) \in Nat /\ EventSlots \in Nat
            BY ConstantsAssumption DEF TypeOK
          <6>3. Len(ring) >= EventSlots => Head(ring) \in missed'
            BY <2>2, <5>1, <6>2 DEF DaemonSend, Dropped
          <6> QED
            BY <6>1, <6>3, PushedKeeps
        <5>2. CASE ~subscribed
          BY <2>2, <3>2, <5>2 DEF DaemonSend, Dropped
        <5> QED
          BY <5>1, <5>2
      <4>2. missed \subseteq missed'
        BY <2>2 DEF DaemonSend
      <4>3. \A r \in SetNames : OnItsWay(r) => OnItsWay(r)' \/ r \in missed'
        BY <2>2, <4>1 DEF DaemonSend, OnItsWay
      <4>4. \A r \in SetNames : BeingStored(r) => BeingStored(r)'
        BY <2>2 DEF DaemonSend, BeingStored
      <4>5. /\ UNCHANGED <<version, pollPc, cache, fetched, setupPc, clientPc, hand, life>>
        BY <2>2 DEF DaemonSend
      <4>6. /\ \A d \in Clients : ClientHolds(d) => hand[d].set \in SetNames
            /\ pollPc = "deliver" => hand["poll"].set \in SetNames
        BY DEF HandInv
      <4> QED
        BY <4>2, <4>3, <4>4, <4>5, <4>6 DEF FreshInv, Fresh, Cached, Fetched, ClientHolds
    <3> QED
      BY <3>1, <3>2
  <2>3. ASSUME NEW s \in SetNames, DaemonSendFails(s) PROVE FreshInv'
    BY <2>3 DEF DaemonSendFails, TypeOK, FreshInv, Fresh, OnItsWay, BeingStored, Cached, Fetched, Range, ClientHolds
  <2> QED
    BY <1>1, <2>1, <2>2, <2>3 DEF DaemonNext
<1>2. CASE SetupNext
  <2> USE DEF SetupGo
  <2>1. CASE SetupGetsProxy
    BY <2>1 DEF SetupGetsProxy, TypeOK, FreshInv, Fresh, OnItsWay, BeingStored, Cached, Fetched, Range, ClientHolds
  <2>2. CASE SetupGetsNoProxy
    BY <2>2 DEF SetupGetsNoProxy, TypeOK, FreshInv, Fresh, OnItsWay, BeingStored, Cached, Fetched, Range, ClientHolds
  <2>3. CASE SetupSubscribe
    BY <2>3 DEF SetupSubscribe, TypeOK, FreshInv, Fresh, OnItsWay, BeingStored, Cached, Fetched, Range, ClientHolds
  <2>4. CASE SetupFetchBegin
    <3>1. Fetched' = {}
      BY <2>4 DEF SetupFetchBegin, FetchInv, AbsentMap, Fetched
    <3>2. pollPc' # "deliver" /\ \A d \in Clients : ~ClientHolds(d)'
      BY <2>4 DEF SetupFetchBegin, PhaseInv, ClientHolds
    <3> QED
      BY <2>4, <3>1, <3>2 DEF SetupFetchBegin, FreshInv
  <2>5. ASSUME NEW s \in SetNames, SetupFetchOne(s) PROVE FreshInv'
    <3>1. \A r \in SetNames : \/ fetched'[r] = fetched[r]
                              \/ r = s /\ fetched'[r] = version[r]
      BY <2>5 DEF SetupFetchOne, TypeOK, MapType
    <3>2. pollPc' # "deliver" /\ \A d \in Clients : ~ClientHolds(d)'
      BY <2>5 DEF SetupFetchOne, PhaseInv, ClientHolds
    <3>3. missed \subseteq missed' /\ \A r \in SetNames : OnItsWay(r) => OnItsWay(r)'
      BY <2>5 DEF SetupFetchOne, OnItsWay
    <3> QED
      BY <2>5, <3>1, <3>2, <3>3 DEF SetupFetchOne, FreshInv, Fresh, Fetched
  <2>6. CASE SetupFetchEnd
    BY <2>6 DEF SetupFetchEnd, Unlock, TypeOK, FreshInv, Fresh, OnItsWay, BeingStored, Cached, Fetched, Range, ClientHolds
  <2>7. CASE SetupWrite
    <3>1. pollPc' # "deliver" /\ \A d \in Clients : ~ClientHolds(d)'
      BY <2>7 DEF SetupWrite, Saved, PhaseInv, ClientHolds
    <3>2. \A r \in SetNames : OnItsWay(r) => OnItsWay(r)'
      BY <2>7 DEF SetupWrite, Saved, OnItsWay
    <3>3. /\ setupPc' = "register" /\ setupPc = "write" /\ UNCHANGED <<version, life>>
          /\ missed' = missed \ {r \in Fetched : fetched[r] = version[r]}
          /\ \A r \in Cached \ Fetched : r \in missed
          /\ cache' = IF Fetched = {} THEN cache ELSE fetched
      BY <2>7 DEF SetupWrite, Saved, FetchInv, Refetched
    <3>4. ASSUME life = "alive", NEW r \in Cached' PROVE Fresh(r, cache[r])'
      <4>1. CASE Fetched = {}
        BY <3>3, <3>4, <4>1 DEF Fresh, Cached
      <4>2. CASE Fetched # {}
        <5>1. r \in Fetched /\ r \in SetNames /\ cache'[r] = fetched[r]
          BY <3>3, <4>2 DEF Cached, Fetched
        <5>2. Fresh(r, fetched[r])
          BY <3>3, <3>4, <5>1 DEF FreshInv
        <5> QED
          BY <3>2, <3>3, <5>1, <5>2 DEF Fresh
      <4> QED
        BY <4>1, <4>2
    <3> QED
      BY <3>1, <3>3, <3>4 DEF FreshInv
  <2>8. CASE SetupRegister
    BY <2>8 DEF SetupRegister, TypeOK, FreshInv, Fresh, OnItsWay, BeingStored, Cached, Fetched, Range, ClientHolds
  <2>9. CASE SetupPublish
    <3>1. \A r \in SetNames : OnItsWay(r) => OnItsWay(r)'
      BY <2>9 DEF SetupPublish, OnItsWay, PhaseInv
    <3>2. pollPc = "off" /\ \A d \in Clients : ~ClientHolds(d)
      BY <2>9 DEF SetupPublish, PhaseInv, ClientHolds
    <3> QED
      BY <2>9, <3>1, <3>2 DEF SetupPublish, FreshInv, Fresh, BeingStored, Cached, ClientHolds
  <2>10. CASE SetupAnnounce
    BY <2>10 DEF SetupAnnounce, TypeOK, FreshInv, Fresh, OnItsWay, BeingStored, Cached, Fetched, Range, ClientHolds
  <2> QED
    BY <1>2, <2>1, <2>2, <2>3, <2>4, <2>5, <2>6, <2>7, <2>8, <2>9, <2>10 DEF SetupNext
<1>3. CASE PollThreadNext
  <2>1. CASE Poll
    <3>1. \A r \in Range(ring) : r \in NewNames \/ r \in Range(RestOfRing)
      BY TakenOrLeft
    <3>2. pending \subseteq NewNames
      BY DEF NewNames
    <3>3. \A r \in SetNames : OnItsWay(r) => OnItsWay(r)'
      BY <2>1, <3>1, <3>2 DEF Poll, OnItsWay, PhaseInv
    <3> QED
      BY <2>1, <3>3 DEF Poll, PhaseInv, HandInv, FreshInv, Fresh, BeingStored, Cached, Fetched, ClientHolds
  <2>2. CASE PollFails
    BY <2>2 DEF PollFails, TypeOK, FreshInv, Fresh, OnItsWay, BeingStored, Cached, Fetched, Range, ClientHolds
  <2>3. CASE PollWakes
    BY <2>3 DEF PollWakes, TypeOK, FreshInv, Fresh, OnItsWay, BeingStored, Cached, Fetched, Range, ClientHolds
  <2>4. CASE PollEnds
    BY <2>4 DEF PollEnds, TypeOK, FreshInv, Fresh, OnItsWay, BeingStored, Cached, Fetched, Range, ClientHolds
  <2>5. CASE DispatchEnds
    <3>1. CASE StopPolling
      BY <2>5, <3>1 DEF DispatchEnds, StopPolling, FreshInv
    <3>2. CASE batch = {}
      <4>1. \A r \in SetNames : OnItsWay(r) => OnItsWay(r)'
        BY <2>5, <3>2 DEF DispatchEnds, OnItsWay
      <4> QED
        BY <2>5, <4>1 DEF DispatchEnds, FreshInv, Fresh, BeingStored, HandInv, Cached, Fetched, ClientHolds
    <3> QED
      BY <2>5, <3>1, <3>2 DEF DispatchEnds
  <2>6. ASSUME NEW s \in SetNames, DispatchNext(s) PROVE FreshInv'
    BY <2>6 DEF DispatchNext, TypeOK, FreshInv, Fresh, OnItsWay, BeingStored, Cached, Fetched, Range, ClientHolds
  <2>7. ASSUME NEW s \in SetNames, HandlerIgnores(s) PROVE FreshInv'
    <3> SUFFICES ASSUME life = "alive" PROVE FreshInv'
      BY <2>7 DEF HandlerIgnores, FreshInv
    <3>1. setupPc \in {"announce", "done"} /\ provider
      BY <2>7 DEF HandlerIgnores, PhaseInv
    <3>2. s \notin Cached
      BY <2>7, <3>1 DEF HandlerIgnores, HandlerInv
    <3>3. \A r \in Cached : OnItsWay(r) => OnItsWay(r)'
      BY <2>7, <3>2 DEF HandlerIgnores, OnItsWay
    <3>4. \A d \in Clients : ~ClientHolds(d)'
      BY <2>7, HoldsAlone DEF HandlerIgnores, ClientHolds
    <3> QED
      BY <2>7, <3>1, <3>3, <3>4 DEF HandlerIgnores, FreshInv, Fresh, BeingStored, Cached
  <2>8. ASSUME NEW s \in SetNames, HandlerFetch(s) PROVE FreshInv'
    <3> SUFFICES ASSUME life = "alive" PROVE FreshInv'
      BY <2>8 DEF HandlerFetch, FreshInv
    <3>1. setupPc \in {"announce", "done"}
      BY <2>8 DEF HandlerFetch, PhaseInv
    <3>2. hand'["poll"] = [set |-> s, value |-> version[s]]
      BY <2>8 DEF HandlerFetch, TypeOK
    <3>3. \A r \in SetNames \ {s} : OnItsWay(r) => OnItsWay(r)'
      BY <2>8 DEF HandlerFetch, OnItsWay
    <3>4. BeingStored(s)' /\ Fresh(s, version[s])'
      BY <2>8, <3>2 DEF HandlerFetch, BeingStored, Fresh
    <3>5. \A d \in Clients : ~ClientHolds(d)'
      BY <2>8, HoldsAlone DEF HandlerFetch, ClientHolds, Lock
    <3>6. ASSUME NEW r \in Cached' PROVE Fresh(r, cache[r])' \/ BeingStored(r)'
      <4>1. CASE r = s
        BY <3>4, <4>1
      <4>2. CASE r # s
        BY <2>8, <3>1, <3>3, <3>6, <4>2 DEF HandlerFetch, FreshInv, Fresh, BeingStored, Cached
      <4> QED
        BY <4>1, <4>2
    <3>7. UNCHANGED <<version, setupPc>>
      BY <2>8 DEF HandlerFetch
    <3> QED
      BY <3>1, <3>2, <3>4, <3>5, <3>6, <3>7 DEF FreshInv
  <2>9. ASSUME NEW s \in SetNames, HandlerFetchFails(s) PROVE FreshInv'
    BY <2>9 DEF HandlerFetchFails, TypeOK, FreshInv, Fresh, OnItsWay, BeingStored, Cached, Fetched, Range, ClientHolds
  <2>10. ASSUME NEW s \in SetNames, HandlerDelivers(s) PROVE FreshInv'
    <3> SUFFICES ASSUME life = "alive" PROVE FreshInv'
      BY <2>10 DEF HandlerDelivers, FreshInv
    <3> DEFINE v == hand["poll"].value
    <3>1. /\ setupPc \in {"announce", "done"} /\ setupPc' = setupPc
          /\ pollPc' # "deliver" /\ hand["poll"].set = s /\ s \in SetNames
      BY <2>10 DEF HandlerDelivers, PhaseInv
    <3>2. Fresh(s, v)
      BY <2>10 DEF HandlerDelivers, FreshInv
    <3>3. cache'[s] = v /\ \A r \in SetNames \ {s} : cache'[r] = cache[r]
      BY <2>10 DEF HandlerDelivers, TypeOK, MapType
    <3>4. /\ UNCHANGED <<version, announce, ring, pending, batch>>
          /\ missed' = CaughtUp(s, v)
      BY <2>10 DEF HandlerDelivers
    <3>5. \A r \in SetNames : OnItsWay(r) => OnItsWay(r)'
      BY <2>10, <3>4 DEF HandlerDelivers, OnItsWay
    <3>6. \A d \in Clients : ~ClientHolds(d)'
      BY <2>10, HoldsAlone DEF HandlerDelivers, ClientHolds
    <3>7. ASSUME NEW r \in Cached' PROVE Fresh(r, cache[r])'
      <4>1. CASE r = s
        BY <3>2, <3>3, <3>4, <3>5, <4>1 DEF Fresh, CaughtUp
      <4>2. CASE r # s
        <5>1. r \in SetNames /\ r \in Cached /\ cache'[r] = cache[r]
          BY <3>3, <3>7, <4>2 DEF Cached
        <5>2. ~BeingStored(r)
          <6>1. [set |-> r, value |-> version[r]].set = r
            OBVIOUS
          <6> QED
            BY <3>1, <4>2, <6>1 DEF BeingStored
        <5>3. Fresh(r, cache[r])
          BY <3>1, <5>1, <5>2 DEF FreshInv
        <5> QED
          BY <3>4, <3>5, <4>2, <5>1, <5>3 DEF Fresh, CaughtUp
      <4> QED
        BY <4>1, <4>2
    <3> QED
      BY <3>1, <3>6, <3>7 DEF FreshInv
  <2> QED
    BY <1>3, <2>1, <2>2, <2>3, <2>4, <2>5, <2>6, <2>7, <2>8, <2>9, <2>10 DEF PollThreadNext
<1>4. ASSUME NEW c \in Clients, ClientNext(c) PROVE FreshInv'
  <2> USE DEF ClientGo
  <2>1. ASSUME NEW s \in SetNames, GetCached(c, s) PROVE FreshInv'
    BY <2>1 DEF GetCached, TypeOK, FreshInv, Fresh, OnItsWay, BeingStored, Cached, Fetched, Range, ClientHolds
  <2>2. ASSUME NEW s \in SetNames, GetFetches(c, s) PROVE FreshInv'
    <3>1. \A d \in Clients \ {c} : clientPc'[d] = clientPc[d] /\ hand'[d] = hand[d]
      BY <2>2 DEF GetFetches, Fetch, TypeOK
    <3>2. hand'["poll"] = hand["poll"] /\ hand'[c] = [set |-> s, value |-> version[s]]
      BY <2>2 DEF GetFetches, Fetch, TypeOK
    <3>3. /\ UNCHANGED <<version, announce, ring, pending, batch, pollPc, cache>>
          /\ UNCHANGED <<fetched, setupPc, missed, life>>
      BY <2>2 DEF GetFetches
    <3>4. \A r \in SetNames : /\ OnItsWay(r)' <=> OnItsWay(r)
                              /\ BeingStored(r)' <=> BeingStored(r)
      BY <3>2, <3>3 DEF OnItsWay, BeingStored
    <3>5. /\ \A d \in Clients : ClientHolds(d) => hand[d].set \in SetNames
          /\ pollPc = "deliver" => hand["poll"].set \in SetNames
      BY DEF HandInv
    <3> QED
      BY <2>2, <3>1, <3>2, <3>3, <3>4, <3>5 DEF FreshInv, Fresh, Cached, Fetched, ClientHolds
  <2>3. ASSUME NEW s \in SetNames, GetStores(c, s) PROVE FreshInv'
    <3> DEFINE v == hand[c].value
    <3>1. /\ mutex = c /\ ClientHolds(c) /\ pollPc # "deliver" /\ s \notin Cached
          /\ setupPc \notin {"fetching", "write"} /\ hand[c].set = s /\ life = "alive"
      BY <2>3, HoldsAlone DEF GetStores, PhaseInv, HandInv, ClientHolds
    <3>2. Fresh(s, v)
      BY <3>1 DEF FreshInv
    <3>3. /\ cache'[s] = v /\ \A r \in SetNames \ {s} : cache'[r] = cache[r]
          /\ hand'["poll"] = hand["poll"]
      BY <2>3, <3>1 DEF GetStores, StoreFetched, TypeOK, MapType
    <3>4. /\ UNCHANGED <<version, announce, ring, pending, batch, pollPc, setupPc>>
          /\ missed' = CaughtUp(s, v)
      BY <2>3, <3>1 DEF GetStores, StoreFetched
    <3>5. \A r \in SetNames : OnItsWay(r)' <=> OnItsWay(r)
      BY <3>3, <3>4 DEF OnItsWay
    <3>6. \A d \in Clients : ~ClientHolds(d)'
      BY <2>3, <3>1, HoldsAlone DEF GetStores, ClientHolds, TypeOK
    <3>7. ASSUME setupPc' \in {"register", "publish", "announce", "done"}, NEW r \in Cached'
          PROVE  Fresh(r, cache[r])'
      <4>1. CASE r = s
        BY <3>2, <3>3, <3>4, <3>5, <4>1 DEF Fresh, CaughtUp
      <4>2. CASE r # s
        <5>1. r \in SetNames /\ r \in Cached /\ cache'[r] = cache[r]
          BY <3>3, <3>7, <4>2 DEF Cached
        <5>2. Fresh(r, cache[r])
          BY <3>1, <3>4, <3>7, <5>1 DEF FreshInv, BeingStored
        <5> QED
          BY <3>4, <3>5, <4>2, <5>1, <5>2 DEF Fresh, CaughtUp
      <4> QED
        BY <4>1, <4>2
    <3> QED
      BY <3>1, <3>4, <3>6, <3>7 DEF FreshInv, Cached
  <2>4. ASSUME NEW s \in SetNames, ListCached(c, s) PROVE FreshInv'
    BY <2>4 DEF ListCached, TypeOK, FreshInv, Fresh, OnItsWay, BeingStored, Cached, Fetched, Range, ClientHolds
  <2>5. ASSUME NEW s \in SetNames, ListSkips(c, s) PROVE FreshInv'
    BY <2>5 DEF ListSkips, TypeOK, FreshInv, Fresh, OnItsWay, BeingStored, Cached, Fetched, Range, ClientHolds
  <2>6. ASSUME NEW s \in SetNames, ListFetches(c, s) PROVE FreshInv'
    <3>1. \A d \in Clients \ {c} : clientPc'[d] = clientPc[d] /\ hand'[d] = hand[d]
      BY <2>6 DEF ListFetches, Fetch, TypeOK
    <3>2. hand'["poll"] = hand["poll"] /\ hand'[c] = [set |-> s, value |-> version[s]]
      BY <2>6 DEF ListFetches, Fetch, TypeOK
    <3>3. /\ UNCHANGED <<version, announce, ring, pending, batch, pollPc, cache>>
          /\ UNCHANGED <<fetched, setupPc, missed, life>>
      BY <2>6 DEF ListFetches
    <3>4. \A r \in SetNames : /\ OnItsWay(r)' <=> OnItsWay(r)
                              /\ BeingStored(r)' <=> BeingStored(r)
      BY <3>2, <3>3 DEF OnItsWay, BeingStored
    <3>5. /\ \A d \in Clients : ClientHolds(d) => hand[d].set \in SetNames
          /\ pollPc = "deliver" => hand["poll"].set \in SetNames
      BY DEF HandInv
    <3> QED
      BY <2>6, <3>1, <3>2, <3>3, <3>4, <3>5 DEF FreshInv, Fresh, Cached, Fetched, ClientHolds
  <2>7. ASSUME NEW s \in SetNames, ListStores(c, s) PROVE FreshInv'
    <3> DEFINE v == hand[c].value
    <3>1. /\ mutex = c /\ ClientHolds(c) /\ pollPc # "deliver" /\ s \notin Cached
          /\ setupPc \notin {"fetching", "write"} /\ hand[c].set = s /\ life = "alive"
      BY <2>7, HoldsAlone DEF ListStores, PhaseInv, HandInv, ClientHolds
    <3>2. Fresh(s, v)
      BY <3>1 DEF FreshInv
    <3>3. /\ cache'[s] = v /\ \A r \in SetNames \ {s} : cache'[r] = cache[r]
          /\ hand'["poll"] = hand["poll"]
      BY <2>7, <3>1 DEF ListStores, StoreFetched, TypeOK, MapType
    <3>4. /\ UNCHANGED <<version, announce, ring, pending, batch, pollPc, setupPc>>
          /\ missed' = CaughtUp(s, v)
      BY <2>7, <3>1 DEF ListStores, StoreFetched
    <3>5. \A r \in SetNames : OnItsWay(r)' <=> OnItsWay(r)
      BY <3>3, <3>4 DEF OnItsWay
    <3>6. \A d \in Clients : ~ClientHolds(d)'
      BY <2>7, <3>1, HoldsAlone DEF ListStores, ClientHolds, TypeOK
    <3>7. ASSUME setupPc' \in {"register", "publish", "announce", "done"}, NEW r \in Cached'
          PROVE  Fresh(r, cache[r])'
      <4>1. CASE r = s
        BY <3>2, <3>3, <3>4, <3>5, <4>1 DEF Fresh, CaughtUp
      <4>2. CASE r # s
        <5>1. r \in SetNames /\ r \in Cached /\ cache'[r] = cache[r]
          BY <3>3, <3>7, <4>2 DEF Cached
        <5>2. Fresh(r, cache[r])
          BY <3>1, <3>4, <3>7, <5>1 DEF FreshInv, BeingStored
        <5> QED
          BY <3>4, <3>5, <4>2, <5>1, <5>2 DEF Fresh, CaughtUp
      <4> QED
        BY <4>1, <4>2
    <3> QED
      BY <3>1, <3>4, <3>6, <3>7 DEF FreshInv, Cached
  <2>8. ASSUME NEW s \in SetNames, NEW k \in Callbacks, OnChanged(c, s, k) PROVE FreshInv'
    BY <2>8 DEF OnChanged, TypeOK, FreshInv, Fresh, OnItsWay, BeingStored, Cached, Fetched, Range, ClientHolds
  <2>9. ASSUME NEW names \in SUBSET SetNames, ListBegins(c, names) PROVE FreshInv'
    BY <2>9 DEF ListBegins, TypeOK, FreshInv, Fresh, OnItsWay, BeingStored, Cached, Fetched, Range, ClientHolds
  <2>10. CASE ListSyncs(c)
    BY <2>10 DEF ListSyncs, TypeOK, FreshInv, Fresh, OnItsWay, BeingStored, Cached, Fetched, Range, ClientHolds
  <2>11. CASE CheckUpdates(c)
    <3>1. \A r \in Range(ring) : r \in NewNames \/ r \in Range(RestOfRing)
      BY TakenOrLeft
    <3>2. pending \subseteq NewNames
      BY DEF NewNames
    <3>3. \A r \in SetNames : OnItsWay(r) => OnItsWay(r)'
      BY <2>11, <3>1, <3>2 DEF CheckUpdates, OnItsWay, PhaseInv
    <3> QED
      BY <2>11, <3>3 DEF CheckUpdates, HandInv, FreshInv, Fresh, BeingStored, Cached, Fetched, ClientHolds
  <2> QED
    BY <1>4, <2>1, <2>2, <2>3, <2>4, <2>5, <2>6, <2>7, <2>8, <2>9, <2>10, <2>11 DEF ClientNext
<1>5. CASE DestroyNext
  <2>1. CASE DestroyBegins
    BY <2>1 DEF DestroyBegins, TypeOK, FreshInv, Fresh, OnItsWay, BeingStored, Cached, Fetched, Range, ClientHolds
  <2>2. CASE DestroyJoinsSetup
    BY <2>2 DEF DestroyJoinsSetup, TypeOK, FreshInv, Fresh, OnItsWay, BeingStored, Cached, Fetched, Range, ClientHolds
  <2>3. CASE DestroyJoinsPoll
    BY <2>3 DEF DestroyJoinsPoll, TypeOK, FreshInv, Fresh, OnItsWay, BeingStored, Cached, Fetched, Range, ClientHolds
  <2> QED
    BY <1>5, <2>1, <2>2, <2>3 DEF DestroyNext
<1>6. CASE Gone \/ UNCHANGED vars
  BY <1>6 DEF Gone, vars, TypeOK, FreshInv, Fresh, OnItsWay, BeingStored, Cached, Fetched, Range, ClientHolds
<1> QED
  BY <1>1, <1>2, <1>3, <1>4, <1>5, <1>6 DEF Next

-----------------------------------------------------------------------------
(***************************************************************************)
(* The initial states satisfy the invariant, and every step preserves it.  *)
(***************************************************************************)
LEMMA InitInv == Init => Inv
<1> SUFFICES ASSUME Init PROVE Inv
  OBVIOUS
<1> USE ThreadNames, VersionsArePresent
<1>1. TypeOK
  BY InitTypeOK
<1>2. FetchedUnderMutex
  BY DEF Init, FetchedUnderMutex, Holds
<1>3. PhaseInv /\ HandInv /\ HandlerInv
  BY DEF Init, PhaseInv, HandInv, HandlerInv, ClientHolds, Listens
<1>4. FetchInv /\ FreshInv
  BY DEF Init, FetchInv, FreshInv, ClientHolds
<1>5. StorageInv
  BY DEF Init, StorageInv
<1>6. OrderInv
  <2>1. Fetched = {} /\ \A s \in SetNames : observed[s] = Absent
    BY DEF Init, AbsentMap, Fetched
  <2>2. \A s \in Cached : cache[s] = 0 /\ version[s] = 1
    BY DEF Init, Cached
  <2>3. \A t \in Threads : t # "setup" => ~Holds(t)
    BY DEF Init, Holds
  <2> QED
    BY <2>1, <2>2, <2>3 DEF OrderInv
<1> QED
  BY <1>1, <1>2, <1>3, <1>4, <1>5, <1>6 DEF Inv

LEMMA NextInv == Inv /\ [Next]_vars => Inv'
<1> SUFFICES ASSUME Inv, [Next]_vars PROVE Inv'
  OBVIOUS
<1> USE DEF Inv
<1>1. TypeOK' BY NextTypeOK
<1>2. FetchedUnderMutex' BY NextFetchedUnderMutex
<1>3. PhaseInv' BY NextPhaseInv
<1>4. HandInv' BY NextHandInv
<1>5. HandlerInv' BY NextHandlerInv
<1>6. FetchInv' BY NextFetchInv
<1>7. FreshInv' BY NextFreshInv
<1>8. StorageInv' BY NextStorageInv
<1>9. OrderInv' BY NextOrderInv
<1> QED
  BY <1>1, <1>2, <1>3, <1>4, <1>5, <1>6, <1>7, <1>8, <1>9

(***************************************************************************)
(* The inductive invariant holds in every reachable state.                 *)
(***************************************************************************)
THEOREM Invariance == Spec => []Inv
BY InitInv, NextInv, PTL DEF Spec

-----------------------------------------------------------------------------
(***************************************************************************)
(* The mutex is held from every fetch to the store of its result, by one   *)
(* thread at a time.                                                       *)
(***************************************************************************)
THEOREM FetchesExclude == Spec => []FetchedUnderMutex
<1>1. Inv => FetchedUnderMutex
  BY DEF Inv
<1> QED
  BY <1>1, Invariance, PTL

(***************************************************************************)
(* A connected provider has a handler for every set it caches: no event    *)
(* for a cached set is dropped for want of a handler.                      *)
(***************************************************************************)
THEOREM HandlersComplete == Spec => []CachedSetsHaveHandlers
<1>1. Inv => CachedSetsHaveHandlers
  BY DEF Inv, CachedSetsHaveHandlers, PhaseInv, HandlerInv
<1> QED
  BY <1>1, Invariance, PTL

(***************************************************************************)
(* The polling thread never runs without the provider it fetches from.     *)
(***************************************************************************)
THEOREM ProviderOutlivesPolling == Spec => []PollingHasProvider
<1>1. Inv => PollingHasProvider
  BY DEF Inv, PollingHasProvider, PhaseInv
<1> QED
  BY <1>1, Invariance, PTL

(***************************************************************************)
(* A connected provider that caches an old version either will learn of    *)
(* the new one or has lost it to a full event, a failed send or a failed   *)
(* fetch: no interleaving of the threads loses an update.                  *)
(***************************************************************************)
THEOREM UpdatesArrive == Spec => []NoLostUpdate
<1>1. Inv => NoLostUpdate
  <2> SUFFICES ASSUME Inv, provider, life = "alive", NEW s \in LeftBehind
               PROVE  s \in missed
    BY DEF NoLostUpdate
  <2>1. setupPc \in {"announce", "done"}
    BY DEF Inv, PhaseInv
  <2>2. s \in Cached /\ cache[s] # version[s] /\ ~OnItsWay(s) /\ ~BeingStored(s)
    BY DEF LeftBehind
  <2> QED
    BY <2>1, <2>2 DEF Inv, FreshInv, Fresh
<1> QED
  BY <1>1, Invariance, PTL

(***************************************************************************)
(* While no GetParameterSetsByNameList is in progress, the storage holds   *)
(* what is cached.                                                         *)
(***************************************************************************)
THEOREM StorageFollowsCache == Spec => []StorageIsCurrent
<1>1. Inv => StorageIsCurrent
  BY DEF Inv, StorageIsCurrent, StorageInv
<1> QED
  BY <1>1, Invariance, PTL

(***************************************************************************)
(* When the destructor returns both threads have ended, nobody owns the    *)
(* mutex and the provider is gone.                                         *)
(***************************************************************************)
THEOREM DestroyedMeansQuiet == Spec => []NothingRunsAfterDestruction
<1>1. Inv => NothingRunsAfterDestruction
  <2> SUFFICES ASSUME Inv, life = "destroyed" PROVE NothingRunsAfterDestruction
    BY DEF NothingRunsAfterDestruction
  <2>1. /\ setupPc \in {"done", "failed"} /\ pollPc \in {"off", "ended"}
        /\ ~provider /\ \A c \in Clients : clientPc[c] = "idle"
    BY DEF Inv, PhaseInv
  <2>2. mutex = Free
    <3>1. \A t \in Threads : ~Holds(t)
      BY <2>1, ThreadNames DEF Holds
    <3> QED
      BY <3>1 DEF Inv, FetchedUnderMutex, TypeOK
  <2> QED
    BY <2>1, <2>2 DEF NothingRunsAfterDestruction
<1> QED
  BY <1>1, Invariance, PTL

-----------------------------------------------------------------------------
(***************************************************************************)
(* The steps that give a value to the application never give an older one. *)
(***************************************************************************)
LEMMA StepNeverGoesBack ==
    ASSUME Inv, [Next]_vars, NEW s \in SetNames, observed[s] # Absent
    PROVE  observed'[s] >= observed[s]
<1> USE DEF Inv
<1>1. observed[s] \in Nat /\ \A r \in SetNames : r \in Cached => cache[r] \in Nat
  BY MapsHoldNumbers
<1>2. CASE UNCHANGED observed
  BY <1>1, <1>2
<1>3. ASSUME NEW c \in Clients, NEW r \in SetNames, GetCached(c, r) \/ ListCached(c, r)
      PROVE  observed'[s] >= observed[s]
  <2>1. r \in Cached /\ observed' = [observed EXCEPT ![r] = cache[r]]
    BY <1>3 DEF GetCached, ListCached
  <2>2. observed \in [SetNames -> Versions \cup {Absent}]
    BY DEF TypeOK, MapType
  <2>3. r = s => observed[s] <= cache[r]
    BY <2>1 DEF OrderInv
  <2>4. observed'[s] = IF r = s THEN cache[r] ELSE observed[s]
    BY <2>1, <2>2
  <2> QED
    BY <1>1, <2>1, <2>3, <2>4
<1>4. ASSUME NEW c \in Clients, NEW r \in SetNames, GetStores(c, r) \/ ListStores(c, r)
      PROVE  observed'[s] >= observed[s]
  <2>1. /\ Holds(c) /\ hand[c].set = r /\ hand[c].value \in Nat
        /\ c # "setup" /\ c \in Threads
    BY <1>4, ThreadNames, VersionsArePresent
       DEF GetStores, ListStores, ClientGo, Holds, HandInv, ClientHolds
  <2>2. observed' = [observed EXCEPT ![r] = hand[c].value]
    BY <1>4 DEF GetStores, ListStores, StoreFetched
  <2> QED
    BY <1>1, <2>1, <2>2 DEF OrderInv, TypeOK, MapType
<1>5. ASSUME NEW r \in SetNames, HandlerDelivers(r)
      PROVE  observed'[s] >= observed[s]
  <2>1. /\ Holds("poll") /\ hand["poll"].set = r /\ hand["poll"].value \in Nat
    BY <1>5, ThreadNames, VersionsArePresent DEF HandlerDelivers, Holds, HandInv
  <2>2. observed' \in {observed, [observed EXCEPT ![r] = hand["poll"].value]}
    BY <1>5 DEF HandlerDelivers
  <2> QED
    BY <1>1, <2>1, <2>2, ThreadNames DEF OrderInv, TypeOK, MapType
<1>6. \/ UNCHANGED observed
      \/ \E c \in Clients, r \in SetNames : GetCached(c, r) \/ ListCached(c, r)
      \/ \E c \in Clients, r \in SetNames : GetStores(c, r) \/ ListStores(c, r)
      \/ \E r \in SetNames : HandlerDelivers(r)
  <2>1. CASE DaemonNext
    BY <2>1 DEF DaemonNext, DaemonUpdate, DaemonSend, DaemonSendFails
  <2>2. CASE SetupNext
    BY <2>2 DEF SetupNext, SetupGetsProxy, SetupGetsNoProxy, SetupSubscribe,
         SetupFetchBegin, SetupFetchOne, SetupFetchEnd, SetupWrite, SetupRegister,
         SetupPublish, SetupAnnounce
  <2>3. CASE PollThreadNext
    BY <2>3 DEF PollThreadNext, Poll, PollFails, PollWakes, PollEnds, DispatchEnds,
         DispatchNext, HandlerIgnores, HandlerFetch, HandlerFetchFails
  <2>4. ASSUME NEW c \in Clients, ClientNext(c) PROVE <1>6!1 \/ <1>6!2 \/ <1>6!3 \/ <1>6!4
    BY <2>4 DEF ClientNext, GetFetches, ListBegins, ListSkips, ListFetches, ListSyncs,
         OnChanged, CheckUpdates
  <2>5. CASE DestroyNext
    BY <2>5 DEF DestroyNext, DestroyBegins, DestroyJoinsSetup, DestroyJoinsPoll
  <2> QED
    BY <2>1, <2>2, <2>3, <2>4, <2>5 DEF Next, Gone, vars
<1> QED
  BY <1>2, <1>3, <1>4, <1>5, <1>6

(***************************************************************************)
(* What the application is given for a set never goes back to an older     *)
(* version, whichever of the cached value, the fetched value and the       *)
(* update callback it comes from.                                          *)
(***************************************************************************)
THEOREM ObservedGrows == Spec => NeverGoesBack
<1>1. Inv /\ [Next]_vars =>
        [\A s \in SetNames : observed[s] # Absent => observed'[s] >= observed[s]]_vars
  BY StepNeverGoesBack
<1> QED
  BY <1>1, Invariance, PTL DEF Spec, NeverGoesBack

-----------------------------------------------------------------------------
(***************************************************************************)
(* The implementation of the abstract cache of module ParameterCache.      *)
(***************************************************************************)
LEMMA PhaseIs ==
    ASSUME PhaseInv
    PROVE  /\ life = "destroyed" => Phase = "closed"
           /\ provider => Phase = "connected"
           /\ life # "destroyed" /\ ~provider => Phase = "loading"
BY DEF Phase, PhaseInv

(* Storing a fetched value is a Refresh.                                    *)
LEMMA StoreRefines ==
    ASSUME Inv, Inv', provider, UNCHANGED <<version, provider>>,
           NEW s \in SetNames, NEW t \in Threads, t # "setup", Holds(t),
           hand[t].set = s, hand[t].value \in Versions,
           cache' = [cache EXCEPT ![s] = hand[t].value]
    PROVE  Promise!Refresh(s)
<1>1. Phase = "connected" /\ Phase' = "connected"
  BY PhaseIs DEF Inv, PhaseInv, Phase
<1>2. /\ hand[t].value <= version[s] /\ version[s] \in Nat /\ hand[t].value \in Nat
      /\ s \in Cached => cache[s] <= hand[t].value
  BY MapsHoldNumbers, VersionsArePresent DEF Inv, OrderInv
<1>3. hand[t].value \in 0..version[s] /\ Promise!Forward(cache[s], hand[t].value, s)
  BY <1>2 DEF Promise!Forward, Cached
<1>4. cache \in [SetNames -> Versions \cup {Absent}]
  BY DEF Inv, TypeOK, MapType
<1>5. cache'[s] = hand[t].value /\ cache' = [cache EXCEPT ![s] = cache'[s]]
  BY <1>4
<1> QED
  BY <1>1, <1>3, <1>5 DEF Promise!Refresh

(* The initial fetch replaces the cache in one Reload.                      *)
LEMMA WriteRefines ==
    ASSUME Inv, Inv', SetupWrite
    PROVE  Promise!Reload \/ UNCHANGED <<version, cache, Phase>>
<1>1. /\ setupPc = "write" /\ setupPc' = "register" /\ UNCHANGED version
      /\ cache' = IF Fetched = {} THEN cache ELSE fetched
  BY DEF SetupWrite, Saved, SetupGo, Refetched, daemonVars, event
<1>2. ~provider /\ ~provider' /\ life # "destroyed" /\ life' # "destroyed"
  BY <1>1 DEF Inv, PhaseInv
<1>3. Phase = "loading" /\ Phase' = "loading"
  BY <1>2 DEF Phase
<1>4. CASE Fetched = {}
  BY <1>1, <1>3, <1>4
<1>5. CASE Fetched # {}
  <2>1. cache' = fetched /\ fetched \in [SetNames -> 0..MaxVersion \cup {Absent}]
    BY <1>1, <1>5 DEF Inv, TypeOK, MapType, Versions
  <2>2. ASSUME NEW s \in SetNames, fetched[s] # Absent
        PROVE  cache[s] # Absent /\ Promise!Forward(cache[s], fetched[s], s)
    <3>1. s \in Fetched /\ s \in Cached
      BY <1>1, <2>2 DEF Inv, FetchInv, Fetched
    <3>2. /\ cache[s] \in Nat /\ fetched[s] \in Nat /\ version[s] \in Nat
          /\ cache[s] <= fetched[s] /\ fetched[s] <= version[s]
      BY <3>1, MapsHoldNumbers DEF Inv, OrderInv
    <3> QED
      BY <3>1, <3>2 DEF Promise!Forward, Cached
  <2>3. ~Promise!IsEmpty(fetched)
    BY <1>5 DEF Promise!IsEmpty, Fetched
  <2> QED
    BY <1>1, <1>3, <2>1, <2>2, <2>3 DEF Promise!Reload
<1> QED
  BY <1>4, <1>5

(* A step of the destructor closes the cache or changes nothing of it.      *)
LEMMA DestroyRefines ==
    ASSUME Inv, Inv', DestroyNext
    PROVE  Promise!Close \/ UNCHANGED <<version, cache, Phase>>
<1>1. UNCHANGED <<version, cache>>
  BY DEF DestroyNext, DestroyBegins, DestroyJoinsSetup, DestroyJoinsPoll, daemonVars, event
<1>2. CASE life' = "destroyed"
  <2>1. Phase' = "closed"
    BY <1>2 DEF Phase
  <2> QED
    BY <1>1, <2>1 DEF Promise!Close
<1>3. CASE life' # "destroyed"
  <2>1. life # "destroyed" /\ UNCHANGED provider
    BY <1>3 DEF DestroyNext, DestroyBegins, DestroyJoinsSetup, DestroyJoinsPoll
  <2>2. UNCHANGED Phase
    BY <1>3, <2>1 DEF Phase
  <2> QED
    BY <1>1, <2>2
<1> QED
  BY <1>2, <1>3

LEMMA StepRefines ==
    ASSUME Inv, Inv', [Next]_vars
    PROVE  Promise!Next \/ UNCHANGED <<version, cache, Phase>>
<1> DEFINE Goal == Promise!Next \/ UNCHANGED <<version, cache, Phase>>
<1>0. /\ UNCHANGED <<life, provider>> => UNCHANGED Phase
      /\ UNCHANGED <<version, cache, life, provider>> => Goal
  BY DEF Phase
<1>1. CASE DaemonNext
  <2>1. ASSUME NEW s \in SetNames, DaemonUpdate(s) PROVE Goal
    <3>1. UNCHANGED <<life, provider, cache>>
      BY <2>1 DEF DaemonUpdate
    <3>2. Promise!Change(s)
      BY <1>0, <2>1, <3>1 DEF DaemonUpdate, Promise!Change
    <3> QED
      BY <3>2 DEF Promise!Next
  <2>2. ASSUME NEW s \in SetNames, DaemonSend(s) \/ DaemonSendFails(s) PROVE Goal
    BY <1>0, <2>2 DEF DaemonSend, DaemonSendFails
  <2> QED
    BY <1>1, <2>1, <2>2 DEF DaemonNext
<1>2. CASE SetupNext
  <2>1. CASE SetupWrite
    BY <2>1, WriteRefines DEF Promise!Next
  <2>2. CASE SetupPublish
    <3>1. ~provider /\ provider' /\ life # "destroyed" /\ UNCHANGED <<version, cache, life>>
      BY <2>2 DEF SetupPublish, SetupGo, Inv, PhaseInv, daemonVars, event
    <3>2. Phase = "loading" /\ Phase' = "connected"
      BY <3>1 DEF Phase
    <3> QED
      BY <3>1, <3>2 DEF Promise!Next, Promise!Connect
  <2>3. CASE ~SetupWrite /\ ~SetupPublish
    <3>1. UNCHANGED <<version, cache, life, provider>>
      BY <1>2, <2>3 DEF SetupNext, SetupGetsProxy, SetupGetsNoProxy, SetupSubscribe,
           SetupFetchBegin, SetupFetchOne, SetupFetchEnd, SetupRegister, SetupAnnounce,
           daemonVars, event
    <3> QED
      BY <1>0, <3>1
  <2> QED
    BY <2>1, <2>2, <2>3
<1>3. CASE PollThreadNext
  <2>1. ASSUME NEW s \in SetNames, HandlerDelivers(s) PROVE Goal
    <3>1. /\ Holds("poll") /\ hand["poll"].set = s /\ hand["poll"].value \in Versions
          /\ provider /\ UNCHANGED <<version, provider>>
          /\ cache' = [cache EXCEPT ![s] = hand["poll"].value]
      BY <2>1 DEF HandlerDelivers, Holds, Inv, HandInv, PhaseInv, daemonVars, event
    <3>2. Promise!Refresh(s)
      BY <3>1, StoreRefines, ThreadNames
    <3> QED
      BY <3>2 DEF Promise!Next
  <2>2. CASE \A s \in SetNames : ~HandlerDelivers(s)
    <3>1. UNCHANGED <<version, cache, life, provider>>
      BY <1>3, <2>2 DEF PollThreadNext, Poll, PollFails, PollWakes, PollEnds, DispatchEnds,
           DispatchNext, HandlerIgnores, HandlerFetch, HandlerFetchFails, daemonVars, event
    <3> QED
      BY <1>0, <3>1
  <2> QED
    BY <2>1, <2>2
<1>4. ASSUME NEW c \in Clients, ClientNext(c) PROVE Goal
  <2>1. ASSUME NEW s \in SetNames, GetStores(c, s) \/ ListStores(c, s) PROVE Goal
    <3>1. /\ Holds(c) /\ hand[c].set = s /\ hand[c].value \in Versions /\ s \notin Cached
          /\ provider /\ UNCHANGED <<version, provider>> /\ c # "setup" /\ c \in Threads
      BY <2>1, ThreadNames DEF GetStores, ListStores, ClientGo, Holds, ClientHolds, Inv,
           HandInv, PhaseInv, daemonVars, event
    <3>2. cache' = [cache EXCEPT ![s] = hand[c].value]
      BY <2>1, <3>1 DEF GetStores, ListStores, StoreFetched
    <3>3. Promise!Refresh(s)
      BY <3>1, <3>2, StoreRefines
    <3> QED
      BY <3>3 DEF Promise!Next
  <2>2. CASE \A s \in SetNames : ~GetStores(c, s) /\ ~ListStores(c, s)
    <3>1. UNCHANGED <<version, cache, life, provider>>
      BY <1>4, <2>2 DEF ClientNext, GetCached, GetFetches, ListBegins, ListCached,
           ListSkips, ListFetches, ListSyncs, OnChanged, CheckUpdates, daemonVars, event
    <3> QED
      BY <1>0, <3>1
  <2> QED
    BY <2>1, <2>2
<1>5. CASE DestroyNext
  BY <1>5, DestroyRefines DEF Promise!Next
<1>6. CASE Gone \/ UNCHANGED vars
  BY <1>0, <1>6 DEF Gone, vars
<1> QED
  BY <1>1, <1>2, <1>3, <1>4, <1>5, <1>6 DEF Next

LEMMA InitRefines == Init => Promise!Init
BY DEF Init, Promise!Init, Phase

(***************************************************************************)
(* The threaded provider implements the abstract cache: with its phase     *)
(* read off the destructor and the provider pointer, each of its steps is  *)
(* one step of ParameterCache or changes nothing there.                    *)
(***************************************************************************)
THEOREM KeepsPromise == Spec => PromiseSpec
<1>1. Inv /\ Inv' /\ [Next]_vars => [Promise!Next]_<<version, cache, Phase>>
  BY StepRefines
<1> QED
  BY <1>1, InitRefines, Invariance, PTL DEF Spec, PromiseSpec, Promise!Spec

-----------------------------------------------------------------------------
(***************************************************************************)
(* The event as a channel of names (module NameChannel).                   *)
(***************************************************************************)
Observed == <<MaxSamples, subscribed, ring, pending, batch, Treated, Stopped>>

(* The polling thread carries a name only where its handler runs.           *)
CarryInv == pollPc \notin {"handler", "deliver"} => Treated = {}

LEMMA SameCardinality == \A S : Channel!Cardinality(S) = Cardinality(S)
BY DEF Channel!Cardinality, Cardinality

(* Which steps of the polling thread touch what the channel is made of.     *)
LEMMA PollHand ==
    ASSUME TypeOK, NEW t \in Threads, t # "poll", NEW h, hand' = [hand EXCEPT ![t] = h]
    PROVE  UNCHANGED Treated
BY DEF TypeOK, Treated

LEMMA NoHandTreatsNothing ==
    ASSUME TypeOK, hand' = [hand EXCEPT !["poll"] = NoHand] PROVE Treated' = {}
<1>1. "poll" \in Threads
  BY DEF Threads
<1> QED
  BY <1>1 DEF TypeOK, NoHand, Treated

(* A taking of samples is a taking of names, within the limit.              *)
LEMMA NamesTaken ==
    ASSUME TypeOK, ring' = RestOfRing
    PROVE  /\ NumTaken \in 0..Len(ring) /\ Channel!Remove(NumTaken)
           /\ NewNames = pending \cup Channel!First(NumTaken)
           /\ Channel!Cardinality(NewNames) <= MaxSamples
<1>1. NumTaken \in 0..Len(ring) /\ Cardinality(NewNames) <= MaxSamples
  BY NumTakenType, NewNamesType
<1> QED
  BY <1>1, SameCardinality DEF RestOfRing, NewNames, Channel!Remove, Channel!First

LEMMA DaemonOnChannel ==
    ASSUME Inv, CarryInv, DaemonNext
    PROVE  CarryInv' /\ [Channel!ChannelNext]_Observed
<1> USE DEF event, pollVars, setupVars
<1>1. UNCHANGED <<subscribed, pending, batch, pollPc, hand, setupPc, life>>
  BY DEF DaemonNext, DaemonUpdate, DaemonSend, DaemonSendFails
<1>2. UNCHANGED <<MaxSamples, subscribed, Treated, Stopped>> /\ CarryInv'
  BY <1>1 DEF Treated, Stopped, CarryInv
<1>3. ASSUME NEW s \in SetNames, DaemonSend(s) PROVE Channel!SendName(s)
  BY <1>1, <1>2, <1>3 DEF DaemonSend, Pushed, Channel!SendName, Channel!MakeRoom
<1>4. ASSUME NEW s \in SetNames, DaemonUpdate(s) \/ DaemonSendFails(s)
      PROVE  UNCHANGED Observed
  BY <1>1, <1>2, <1>4 DEF DaemonUpdate, DaemonSendFails, Observed
<1> QED
  BY <1>2, <1>3, <1>4 DEF DaemonNext, Channel!ChannelNext

LEMMA SetupOnChannel ==
    ASSUME Inv, CarryInv, SetupNext
    PROVE  CarryInv' /\ [Channel!ChannelNext]_Observed
<1> USE DEF event, pollVars, SetupGo
<1>1. /\ UNCHANGED <<ring, pending, batch, hand, life>>
      /\ pollPc' = pollPc \/ pollPc' = "poll"
  BY DEF SetupNext, SetupGetsProxy, SetupGetsNoProxy, SetupSubscribe, SetupFetchBegin,
         SetupFetchOne, SetupFetchEnd, SetupWrite, SetupRegister, SetupPublish, SetupAnnounce
<1>2. UNCHANGED <<MaxSamples, Treated, Stopped>>
  BY <1>1 DEF Treated, Stopped
<1>3. CarryInv'
  <2>1. CASE SetupPublish
    <3>1. pollPc = "off"
      BY <2>1 DEF SetupPublish, Inv, PhaseInv
    <3> QED
      BY <1>2, <3>1 DEF CarryInv
  <2>2. CASE ~SetupPublish
    <3>1. pollPc' = pollPc
      BY <2>2 DEF SetupNext, SetupGetsProxy, SetupGetsNoProxy, SetupSubscribe,
         SetupFetchBegin, SetupFetchOne, SetupFetchEnd, SetupWrite, SetupRegister,
         SetupAnnounce
    <3> QED
      BY <1>2, <3>1 DEF CarryInv
  <2> QED
    BY <2>1, <2>2
<1>4. UNCHANGED subscribed \/ subscribed' = TRUE
  BY DEF SetupNext, SetupGetsProxy, SetupGetsNoProxy, SetupSubscribe, SetupFetchBegin,
         SetupFetchOne, SetupFetchEnd, SetupWrite, SetupRegister, SetupPublish,
         SetupAnnounce
<1> QED
  BY <1>1, <1>2, <1>3, <1>4 DEF Observed, Channel!ChannelNext, Channel!Subscribe

LEMMA PollOnChannel ==
    ASSUME Inv, CarryInv, PollThreadNext
    PROVE  CarryInv' /\ [Channel!ChannelNext]_Observed
<1> DEFINE Goal == CarryInv' /\ [Channel!ChannelNext]_Observed
<1> USE DEF event, setupVars
<1>0. TypeOK /\ "poll" \in Threads /\ Absent \notin SetNames
  BY ConstantsAssumption DEF Inv, Threads
<1>1. UNCHANGED <<setupPc, subscribed, life>>
  BY DEF PollThreadNext, Poll, PollFails, PollWakes, PollEnds, DispatchEnds,
         DispatchNext, HandlerIgnores, HandlerFetch, HandlerFetchFails, HandlerDelivers
<1>2. UNCHANGED <<MaxSamples, subscribed, Stopped>>
  BY <1>1 DEF Stopped
<1>3. CASE Poll
  <2>1. /\ ~Stopped /\ batch = {} /\ Treated = {} /\ UNCHANGED <<hand, Treated>>
        /\ pollPc' = "dispatch"
    BY <1>3 DEF Poll, Stopped, StopPolling, Inv, PhaseInv, CarryInv, Treated
  <2>2. ring' = RestOfRing /\ batch' = NewNames /\ pending' = {}
    BY <1>3 DEF Poll
  <2>3. Channel!BeginRound
    BY <1>0, <1>2, <2>1, <2>2, NamesTaken DEF Channel!BeginRound
  <2> QED
    BY <2>1, <2>3 DEF CarryInv, Channel!ChannelNext
<1>4. CASE PollFails \/ PollWakes \/ PollEnds
  <2>1. /\ UNCHANGED <<ring, pending, batch, hand, Treated>>
        /\ pollPc \notin {"handler", "deliver"}
    BY <1>4 DEF PollFails, PollWakes, PollEnds, Treated
  <2> QED
    BY <1>2, <2>1 DEF CarryInv, Observed
<1>5. CASE DispatchEnds
  <2>1. /\ UNCHANGED <<ring, pending, hand, Treated>> /\ batch' = {}
        /\ pollPc = "dispatch" /\ (batch = {} \/ Stopped)
    BY <1>5 DEF DispatchEnds, StopPolling, Stopped, Treated
  <2> QED
    BY <1>2, <2>1 DEF CarryInv, Observed, Channel!ChannelNext, Channel!Abandon
<1>6. ASSUME NEW s \in SetNames, DispatchNext(s) PROVE Goal
  <2>1. /\ UNCHANGED <<ring, pending>> /\ batch' = batch \ {s} /\ s \in batch
        /\ hand' = [hand EXCEPT !["poll"] = [set |-> s, value |-> Absent]]
        /\ pollPc = "dispatch" /\ pollPc' = "handler" /\ life # "joinPoll"
    BY <1>6 DEF DispatchNext, StopPolling
  <2>2. Treated = {} /\ ~Stopped
    BY <2>1 DEF CarryInv, Stopped, Inv, PhaseInv
  <2>3. Treated' = {s}
    BY <1>0, <2>1 DEF Treated, TypeOK
  <2>4. Channel!Treat(s)
    BY <1>2, <2>1, <2>2, <2>3 DEF Channel!Treat
  <2> QED
    BY <2>1, <2>4 DEF CarryInv, Channel!ChannelNext
<1>7. ASSUME NEW s \in SetNames,
             HandlerIgnores(s) \/ HandlerFetchFails(s) \/ HandlerDelivers(s)
      PROVE  Goal
  <2>1. UNCHANGED <<ring, pending, batch>> /\ hand' = [hand EXCEPT !["poll"] = NoHand]
    BY <1>7 DEF HandlerIgnores, HandlerFetchFails, HandlerDelivers
  <2>2. Treated' = {}
    BY <1>0, <2>1, NoHandTreatsNothing
  <2>3. Channel!Treated
    BY <1>2, <2>1, <2>2 DEF Channel!Treated
  <2> QED
    BY <2>2, <2>3 DEF CarryInv, Channel!ChannelNext
<1>8. ASSUME NEW s \in SetNames, HandlerFetch(s) PROVE Goal
  <2>1. /\ UNCHANGED <<ring, pending, batch>> /\ hand["poll"].set = s /\ pollPc' = "deliver"
        /\ hand' = [hand EXCEPT !["poll"] = [set |-> s, value |-> version[s]]]
    BY <1>8 DEF HandlerFetch
  <2>2. UNCHANGED Treated
    BY <1>0, <2>1 DEF Treated, TypeOK
  <2> QED
    BY <1>2, <2>1, <2>2 DEF CarryInv, Observed
<1> QED
  BY <1>3, <1>4, <1>5, <1>6, <1>7, <1>8 DEF PollThreadNext

LEMMA ClientOnChannel ==
    ASSUME Inv, CarryInv, NEW c \in Clients, ClientNext(c)
    PROVE  CarryInv' /\ [Channel!ChannelNext]_Observed
<1> USE DEF event, setupVars, pollVars
<1>0. TypeOK /\ c \in Threads /\ c # "poll"
  BY ThreadNames DEF Inv
<1>1. /\ UNCHANGED <<setupPc, subscribed, life, pollPc, batch>>
      /\ UNCHANGED hand \/ \E h : hand' = [hand EXCEPT ![c] = h]
  BY DEF ClientNext, GetCached, GetFetches, GetStores, ListBegins, ListCached, ListSkips,
         ListFetches, ListStores, ListSyncs, OnChanged, CheckUpdates, Fetch, StoreFetched
<1>2. UNCHANGED Treated
  BY <1>0, <1>1, PollHand DEF Treated
<1>3. UNCHANGED <<MaxSamples, subscribed, Stopped>> /\ CarryInv'
  BY <1>1, <1>2 DEF Stopped, CarryInv
<1>4. CASE CheckUpdates(c)
  <2>1. ring' = RestOfRing /\ pending' = NewNames
    BY <1>4 DEF CheckUpdates
  <2>2. Channel!Take
    BY <1>0, <1>1, <1>2, <1>3, <2>1, NamesTaken DEF Channel!Take
  <2> QED
    BY <1>3, <2>2 DEF Channel!ChannelNext
<1>5. CASE ~CheckUpdates(c)
  <2>1. UNCHANGED <<ring, pending>>
    BY <1>5 DEF ClientNext, GetCached, GetFetches, GetStores, ListBegins, ListCached,
       ListSkips, ListFetches, ListStores, ListSyncs, OnChanged
  <2> QED
    BY <1>1, <1>2, <1>3, <2>1 DEF Observed
<1> QED
  BY <1>4, <1>5

LEMMA DestroyOnChannel ==
    ASSUME Inv, CarryInv, DestroyNext
    PROVE  CarryInv' /\ [Channel!ChannelNext]_Observed
<1> USE DEF event, setupVars, pollVars
<1>1. UNCHANGED <<MaxSamples, pending, batch, pollPc, hand, Treated>> /\ CarryInv'
  BY DEF DestroyNext, DestroyBegins, DestroyJoinsSetup, DestroyJoinsPoll, Treated, CarryInv
<1>2. CASE DestroyJoinsPoll
  <2>1. /\ Stopped /\ UNCHANGED Stopped
        /\ subscribed' = FALSE /\ ring' = <<>>
    BY <1>2 DEF DestroyJoinsPoll, Stopped
  <2> QED
    BY <1>1, <2>1 DEF Channel!ChannelNext, Channel!Close
<1>3. CASE DestroyBegins \/ DestroyJoinsSetup
  <2>1. /\ UNCHANGED <<subscribed, ring>>
        /\ UNCHANGED Stopped \/ Stopped' = TRUE
    BY <1>3 DEF DestroyBegins, DestroyJoinsSetup, Stopped
  <2> QED
    BY <1>1, <2>1 DEF Observed, Channel!ChannelNext, Channel!Stop
<1> QED
  BY <1>2, <1>3 DEF DestroyNext

(* From the event to the handler the provider is the channel of names that  *)
(* UpdateEvent implements too: no name is invented, treated twice, taken    *)
(* beyond the limit or left, except where the channel says so.              *)
THEOREM IsNameChannel == Spec => ChannelSpec
<1>1. Init => Channel!ChannelInit /\ CarryInv
  <2> SUFFICES ASSUME Init PROVE Channel!ChannelInit /\ CarryInv
    OBVIOUS
  <2>1. Treated = {} /\ ~Stopped /\ ~subscribed
    BY DEF Init, Treated, NoHand, Stopped, Threads
  <2> QED
    BY <2>1, ConstantsAssumption DEF Init, CarryInv, Channel!ChannelInit
<1>2. Inv /\ CarryInv /\ [Next]_vars => CarryInv' /\ [Channel!ChannelNext]_Observed
  <2>1. CASE Gone \/ UNCHANGED vars
    BY <2>1 DEF Gone, vars, event, pollVars, setupVars, CarryInv, Observed, Treated, Stopped
  <2> QED
    BY <2>1, DaemonOnChannel, SetupOnChannel, PollOnChannel, ClientOnChannel,
       DestroyOnChannel DEF Next
<1> QED
  BY <1>1, <1>2, Invariance, PTL DEF Spec, ChannelSpec, Channel!ChannelSpec, Observed,
     Channel!vars

-----------------------------------------------------------------------------
(***************************************************************************)
(* What the two findings about the cache amount to.  The values an earlier *)
(* run saved have version 0, the daemon's begin at 1.                      *)
(***************************************************************************)
Before == {"getProxy", "subscribe", "fetch", "fetching", "write", "failed"}
Behind == {"register", "publish", "announce", "done"}

AllRefreshed == \A s \in Cached : cache[s] # 0
NoneRefreshed == \A s \in Cached : cache[s] = 0

RefreshInv ==
    /\ \A s \in SetNames : version[s] # 0 /\ fetched[s] # 0
    /\ pollPc = "deliver" => hand["poll"].value # 0
    /\ \A c \in Clients : ClientHolds(c) => hand[c].value # 0
    /\ setupPc \in Before => NoneRefreshed
    /\ setupPc \in {"register", "publish"} => AllRefreshed \/ NoneRefreshed

(* Where no fetch fails.                                                    *)
FetchedInv ==
    /\ setupPc = "fetching" => Cached \subseteq Fetched \cup todo
    /\ setupPc = "write" => Cached \subseteq Fetched
    /\ setupPc \in Behind => AllRefreshed

LEMMA AbsentIsNoNumber == Absent # 0 /\ 0 \in Versions /\ 1 \in Versions
BY ConstantsAssumption DEF Versions

LEMMA InitRefreshInv == Init => RefreshInv /\ FetchedInv
<1> SUFFICES ASSUME Init PROVE RefreshInv /\ FetchedInv
  OBVIOUS
<1>1. \A s \in SetNames : version[s] = 1 /\ fetched[s] = Absent /\ cache[s] \in {Absent, 0}
  BY DEF Init, AbsentMap
<1>2. setupPc = "getProxy" /\ pollPc = "off" /\ \A c \in Clients : ~ClientHolds(c)
  BY DEF Init, ClientHolds
<1> QED
  BY <1>1, <1>2, AbsentIsNoNumber
     DEF RefreshInv, FetchedInv, Before, Behind, NoneRefreshed, Cached

(* No thread fetches or stores a value of an earlier run.                   *)
LEMMA NextRefreshInv ==
    ASSUME Inv, RefreshInv, [Next]_vars
    PROVE  RefreshInv'
<1> USE AbsentIsNoNumber
    DEF Before, NoneRefreshed, AllRefreshed, ClientHolds, daemonVars, event, pollVars, setupVars,
        clientVars, storageVars
<1>0. /\ TypeOK /\ PhaseInv /\ HandInv
      /\ \A c \in Clients : ClientHolds(c) => setupPc \notin Before \cup {"register", "publish"}
      /\ pollPc # "off" => setupPc \notin Before \cup {"register", "publish"}
  BY DEF Inv, PhaseInv
<1>1. CASE DaemonNext
  <2>1. UNCHANGED <<fetched, pollPc, hand, clientPc, setupPc, cache>>
    BY <1>1 DEF DaemonNext, DaemonUpdate, DaemonSend, DaemonSendFails
  <2>2. \A s \in SetNames : version'[s] # 0
    <3>1. ASSUME NEW q \in SetNames, version' = [version EXCEPT ![q] = @ + 1]
          PROVE  \A s \in SetNames : version'[s] # 0
      BY <1>0, <3>1 DEF RefreshInv, TypeOK, Versions
    <3>2. ASSUME version' = version PROVE \A s \in SetNames : version'[s] # 0
      BY <3>2 DEF RefreshInv
    <3> QED
      BY <1>1, <3>1, <3>2 DEF DaemonNext, DaemonUpdate, DaemonSend, DaemonSendFails
  <2> QED
    BY <2>1, <2>2 DEF RefreshInv, Cached
<1>2. CASE SetupNext
  <2>1. UNCHANGED <<version, clientPc, hand>> /\ (pollPc' = "deliver" => pollPc = "deliver")
    BY <1>2 DEF SetupNext, SetupGetsProxy, SetupGetsNoProxy, SetupSubscribe, SetupFetchBegin,
       SetupFetchOne, SetupFetchEnd, SetupWrite, SetupRegister, SetupPublish, SetupAnnounce
  <2>2. CASE \E s \in SetNames : SetupFetchOne(s)
    <3>1. PICK q \in SetNames : SetupFetchOne(q)
      BY <2>2
    <3>2. fetched' = fetched \/ fetched' = [fetched EXCEPT ![q] = version[q]]
      BY <3>1 DEF SetupFetchOne
    <3>3. \A s \in SetNames : fetched'[s] # 0
      BY <1>0, <3>2 DEF RefreshInv, TypeOK, MapType
    <3>4. UNCHANGED <<cache, setupPc>>
      BY <3>1 DEF SetupFetchOne
    <3> QED
      BY <2>1, <3>3, <3>4 DEF RefreshInv, Cached
  <2>3. CASE SetupWrite
    <3>1. /\ setupPc = "write" /\ setupPc' = "register" /\ fetched' = AbsentMap
          /\ cache' = cache \/ cache' = fetched
      BY <2>3 DEF SetupWrite, Saved, SetupGo, Refetched
    <3>2. \A s \in SetNames : fetched'[s] # 0
      BY <3>1 DEF AbsentMap
    <3>3. AllRefreshed' \/ NoneRefreshed'
      BY <3>1 DEF RefreshInv, Cached
    <3> QED
      BY <2>1, <3>1, <3>2, <3>3 DEF RefreshInv
  <2>4. CASE ~(\E s \in SetNames : SetupFetchOne(s)) /\ ~SetupWrite
    <3>1. /\ UNCHANGED <<cache, fetched>>
          /\ setupPc' \in Before => setupPc \in Before
          /\ setupPc' \in {"register", "publish"} => setupPc \in {"register", "publish"}
      BY <1>2, <2>4 DEF SetupNext, SetupGo, SetupGetsProxy, SetupGetsNoProxy, SetupSubscribe,
         SetupFetchBegin, SetupFetchEnd, SetupRegister, SetupPublish, SetupAnnounce
    <3> QED
      BY <2>1, <3>1 DEF RefreshInv, Cached
  <2> QED
    BY <2>2, <2>3, <2>4
<1>3. CASE PollThreadNext
  <2>1. /\ UNCHANGED <<version, fetched, clientPc, setupPc>>
        /\ \A c \in Clients : hand'[c] = hand[c]
    <3>1. ASSUME NEW q \in SetNames, HandlerFetch(q) \/ DispatchNext(q)
          PROVE  \A c \in Clients : hand'[c] = hand[c]
      BY <1>0, <3>1, ThreadNames DEF HandlerFetch, DispatchNext, TypeOK, Threads
    <3>2. ASSUME NEW q \in SetNames, HandlerIgnores(q) \/ HandlerFetchFails(q) \/ HandlerDelivers(q)
          PROVE  \A c \in Clients : hand'[c] = hand[c]
      BY <1>0, <3>2, ThreadNames
         DEF HandlerIgnores, HandlerFetchFails, HandlerDelivers, TypeOK, Threads
    <3>3. CASE Poll \/ PollFails \/ PollWakes \/ PollEnds \/ DispatchEnds
      BY <3>3 DEF Poll, PollFails, PollWakes, PollEnds, DispatchEnds
    <3>4. \A c \in Clients : hand'[c] = hand[c]
      BY <1>3, <3>1, <3>2, <3>3 DEF PollThreadNext
    <3>5. UNCHANGED <<version, fetched, clientPc, setupPc>>
      BY <1>3 DEF PollThreadNext, Poll, PollFails, PollWakes, PollEnds, DispatchEnds,
         DispatchNext, HandlerIgnores, HandlerFetch, HandlerFetchFails, HandlerDelivers
    <3> QED
      BY <3>4, <3>5
  <2>2. setupPc \notin Before \cup {"register", "publish"}
    BY <1>0, <1>3 DEF PollThreadNext, Poll, PollFails, PollWakes, PollEnds, DispatchEnds,
       DispatchNext, HandlerIgnores, HandlerFetch, HandlerFetchFails, HandlerDelivers
  <2>3. pollPc' = "deliver" => hand'["poll"].value # 0
    <3>1. ASSUME NEW q \in SetNames, HandlerFetch(q) PROVE hand'["poll"].value # 0
      BY <1>0, <3>1 DEF HandlerFetch, RefreshInv, TypeOK, Threads
    <3>2. ASSUME NEW q \in SetNames, HandlerDelivers(q) PROVE pollPc' # "deliver"
      BY <3>2 DEF HandlerDelivers
    <3> QED
      BY <1>3, <3>1, <3>2 DEF PollThreadNext, Poll, PollFails, PollWakes, PollEnds,
         DispatchEnds, DispatchNext, HandlerIgnores, HandlerFetchFails
  <2> QED
    BY <2>1, <2>2, <2>3 DEF RefreshInv
<1>4. ASSUME NEW c \in Clients, ClientNext(c) PROVE RefreshInv'
  <2>1. UNCHANGED <<version, fetched, setupPc, pollPc>>
    BY <1>4 DEF ClientNext, GetCached, GetFetches, GetStores, ListBegins, ListCached, ListSkips,
       ListFetches, ListStores, ListSyncs, OnChanged, CheckUpdates
  <2>2. /\ \A d \in Clients \ {c} : clientPc'[d] = clientPc[d] /\ hand'[d] = hand[d]
        /\ hand'["poll"] = hand["poll"]
    <3>1. \E to : clientPc' = [clientPc EXCEPT ![c] = to]
      BY <1>4 DEF ClientNext, ClientGo, GetCached, GetFetches, GetStores, ListBegins, ListCached,
         ListSkips, ListFetches, ListStores, ListSyncs, OnChanged, CheckUpdates
    <3>2. hand' = hand \/ \E held : hand' = [hand EXCEPT ![c] = held]
      BY <1>4 DEF ClientNext, Fetch, StoreFetched, GetCached, GetFetches, GetStores, ListBegins,
         ListCached, ListSkips, ListFetches, ListStores, ListSyncs, OnChanged, CheckUpdates
    <3>3. "poll" # c /\ "poll" \in Threads /\ Clients \subseteq Threads
      BY ThreadNames DEF Threads
    <3>4. clientPc \in [Clients -> {"idle", "get", "list", "listStore"}]
          /\ hand \in [Threads -> HandType]
      BY <1>0 DEF TypeOK
    <3>5. \A d \in Clients \ {c} : clientPc'[d] = clientPc[d]
      BY <3>1, <3>4
    <3>6. \A t \in Threads \ {c} : hand'[t] = hand[t]
      BY <3>2, <3>4
    <3> QED
      BY <3>3, <3>5, <3>6
  <2>3. ClientHolds(c)' => hand'[c].value # 0 /\ cache' = cache
    <3>1. ASSUME NEW q \in SetNames, GetFetches(c, q) \/ ListFetches(c, q)
          PROVE  hand'[c].value # 0 /\ cache' = cache
      BY <1>0, <3>1 DEF GetFetches, ListFetches, Fetch, RefreshInv, TypeOK, Threads
    <3>2. CASE ~(\E q \in SetNames : GetFetches(c, q) \/ ListFetches(c, q))
      BY <1>0, <1>4, <3>2
         DEF ClientNext, ClientGo, GetCached, GetStores, ListBegins, ListCached, ListSkips,
             ListStores, ListSyncs, OnChanged, CheckUpdates, TypeOK
    <3> QED
      BY <3>1, <3>2
  <2>4. cache' = cache \/ setupPc \notin Before \cup {"register", "publish"}
    <3>1. cache' = cache \/ ClientHolds(c)
      BY <1>4
         DEF ClientNext, ClientGo, GetCached, GetFetches, GetStores, ListBegins, ListCached,
             ListSkips, ListFetches, ListStores, ListSyncs, OnChanged, CheckUpdates
    <3> QED
      BY <1>0, <3>1
  <2>5. \A d \in Clients : ClientHolds(d)' => hand'[d].value # 0
    BY <2>2, <2>3 DEF RefreshInv
  <2> QED
    BY <2>1, <2>2, <2>4, <2>5 DEF RefreshInv, Cached
<1>5. CASE DestroyNext \/ Gone \/ UNCHANGED vars
  <2>1. UNCHANGED <<version, fetched, setupPc, pollPc, clientPc, hand, cache>>
    BY <1>5 DEF DestroyNext, DestroyBegins, DestroyJoinsSetup, DestroyJoinsPoll, Gone, vars
  <2> QED
    BY <2>1 DEF RefreshInv, Cached
<1> QED
  BY <1>1, <1>2, <1>3, <1>4, <1>5 DEF Next

(* Either every cached set has a value of this run when the handlers are    *)
(* registered, or none: the initial fetch never leaves the two mixed, and a *)
(* set whose fetch failed while another's succeeded is no longer cached.    *)
THEOREM RefreshedTogether ==
    Spec => [](setupPc \in {"register", "publish"} => AllRefreshed \/ NoneRefreshed)
<1>1. Spec => []RefreshInv
  BY InitRefreshInv, NextRefreshInv, Invariance, PTL DEF Spec
<1>2. RefreshInv =>
         (setupPc \in {"register", "publish"} => AllRefreshed \/ NoneRefreshed)
  BY DEF RefreshInv
<1> QED
  BY <1>1, <1>2, PTL

(* Without failed fetches the initial fetch covers what is cached.          *)
LEMMA NextFetchedInv ==
    ASSUME "fetch" \notin Faults, Inv, RefreshInv, FetchedInv, [Next]_vars
    PROVE  FetchedInv'
<1> USE AbsentIsNoNumber DEF Behind, AllRefreshed, pollVars, setupVars, clientVars, storageVars
<1>0. /\ TypeOK /\ HandInv
      /\ setupPc \notin {"fetching", "write"} => fetched = AbsentMap
      /\ (\E c \in Clients : ClientHolds(c)) \/ pollPc # "off" => setupPc \in {"announce", "done"}
  BY DEF Inv, FetchInv, PhaseInv
<1>1. CASE DaemonNext \/ DestroyNext \/ Gone \/ UNCHANGED vars
  <2>1. UNCHANGED <<setupPc, cache, fetched, todo>>
    BY <1>1 DEF DaemonNext, DaemonUpdate, DaemonSend, DaemonSendFails, DestroyNext,
       DestroyBegins, DestroyJoinsSetup, DestroyJoinsPoll, Gone, vars
  <2> QED
    BY <2>1 DEF FetchedInv, Cached, Fetched
<1>2. CASE SetupNext
  <2>1. CASE SetupFetchBegin
    <3>1. setupPc' = "fetching" /\ todo' = Cached /\ cache' = cache
      BY <2>1 DEF SetupFetchBegin, SetupGo
    <3> QED
      BY <3>1 DEF FetchedInv, Cached
  <2>2. CASE \E s \in SetNames : SetupFetchOne(s)
    <3>1. PICK q \in SetNames : SetupFetchOne(q)
      BY <2>2
    <3>2. /\ setupPc = "fetching" /\ UNCHANGED <<setupPc, cache>> /\ todo' = todo \ {q}
          /\ fetched' = [fetched EXCEPT ![q] = version[q]]
      BY <3>1 DEF SetupFetchOne
    <3>3. version[q] # Absent
      BY <1>0, VersionsArePresent DEF TypeOK
    <3>4. Fetched' = Fetched \cup {q}
      BY <1>0, <3>2, <3>3 DEF Fetched, TypeOK, MapType
    <3> QED
      BY <3>2, <3>4 DEF FetchedInv, Cached
  <2>3. CASE SetupFetchEnd
    BY <2>3 DEF SetupFetchEnd, SetupGo, FetchedInv, Cached, Fetched
  <2>4. CASE SetupWrite
    <3>1. setupPc = "write" /\ setupPc' = "register" /\ cache' = Refetched
      BY <2>4 DEF SetupWrite, Saved, SetupGo
    <3>2. CASE Fetched = {}
      <4>1. cache' = cache /\ Cached = {}
        BY <3>1, <3>2 DEF Refetched, FetchedInv
      <4> QED
        BY <3>1, <4>1 DEF FetchedInv, Cached
    <3>3. CASE Fetched # {}
      <4>1. cache' = fetched
        BY <3>1, <3>3 DEF Refetched
      <4> QED
        BY <3>1, <4>1 DEF FetchedInv, RefreshInv, Cached
    <3> QED
      BY <3>2, <3>3
  <2>5. CASE ~SetupFetchBegin /\ ~(\E s \in SetNames : SetupFetchOne(s))
             /\ ~SetupFetchEnd /\ ~SetupWrite
    <3>1. /\ UNCHANGED <<cache, fetched, todo>>
          /\ setupPc' \notin {"fetching", "write"}
          /\ setupPc' \in Behind => setupPc \in Behind
      BY <1>2, <2>5 DEF SetupNext, SetupGo, SetupGetsProxy, SetupGetsNoProxy, SetupSubscribe,
         SetupRegister, SetupPublish, SetupAnnounce
    <3> QED
      BY <3>1 DEF FetchedInv, Cached
  <2> QED
    BY <2>1, <2>2, <2>3, <2>4, <2>5
<1>3. CASE PollThreadNext
  <2>1. UNCHANGED <<setupPc, fetched, todo>> /\ setupPc \in {"announce", "done"}
    BY <1>0, <1>3 DEF PollThreadNext, Poll, PollFails, PollWakes, PollEnds, DispatchEnds,
       DispatchNext, HandlerIgnores, HandlerFetch, HandlerFetchFails, HandlerDelivers
  <2>2. CASE \E s \in SetNames : HandlerDelivers(s)
    <3>1. PICK q \in SetNames : HandlerDelivers(q)
      BY <2>2
    <3>2. cache' = [cache EXCEPT ![q] = hand["poll"].value] /\ pollPc = "deliver"
      BY <3>1 DEF HandlerDelivers
    <3>3. \A s \in Cached' : cache'[s] # 0
      BY <1>0, <2>1, <3>2 DEF FetchedInv, RefreshInv, Cached, TypeOK, MapType
    <3> QED
      BY <2>1, <3>3 DEF FetchedInv
  <2>3. CASE ~(\E s \in SetNames : HandlerDelivers(s))
    <3>1. cache' = cache
      BY <1>3, <2>3 DEF PollThreadNext, Poll, PollFails, PollWakes, PollEnds, DispatchEnds,
         DispatchNext, HandlerIgnores, HandlerFetch, HandlerFetchFails
    <3> QED
      BY <2>1, <3>1 DEF FetchedInv, Cached
  <2> QED
    BY <2>2, <2>3
<1>4. ASSUME NEW c \in Clients, ClientNext(c) PROVE FetchedInv'
  <2>1. UNCHANGED <<setupPc, fetched, todo>>
    BY <1>4 DEF ClientNext, GetCached, GetFetches, GetStores, ListBegins, ListCached, ListSkips,
       ListFetches, ListStores, ListSyncs, OnChanged, CheckUpdates
  <2>2. CASE \E s \in SetNames : GetStores(c, s) \/ ListStores(c, s)
    <3>1. PICK q \in SetNames : GetStores(c, q) \/ ListStores(c, q)
      BY <2>2
    <3>2. /\ ClientHolds(c)
          /\ cache' = cache \/ cache' = [cache EXCEPT ![q] = hand[c].value]
      BY <3>1 DEF GetStores, ListStores, ClientGo, ClientHolds, StoreFetched
    <3>3. hand[c].value # 0 /\ setupPc \in {"announce", "done"}
      BY <1>0, <3>2 DEF RefreshInv
    <3>4. \A s \in Cached' : cache'[s] # 0
      BY <1>0, <3>2, <3>3 DEF FetchedInv, Cached, TypeOK, MapType
    <3> QED
      BY <2>1, <3>3, <3>4 DEF FetchedInv
  <2>3. CASE ~(\E s \in SetNames : GetStores(c, s) \/ ListStores(c, s))
    <3>1. cache' = cache
      BY <1>4, <2>3 DEF ClientNext, GetCached, GetFetches, ListBegins, ListCached, ListSkips,
         ListFetches, ListSyncs, OnChanged, CheckUpdates
    <3> QED
      BY <2>1, <3>1 DEF FetchedInv, Cached, Fetched
  <2> QED
    BY <2>2, <2>3
<1> QED
  BY <1>1, <1>2, <1>3, <1>4 DEF Next

(* As long as fetches succeed, nothing of an earlier run is cached when the *)
(* application is told that the provider is available, or later: only a     *)
(* failed initial fetch breaks what the README says of the callback.        *)
THEOREM AvailableAfterRefresh ==
    ASSUME "fetch" \notin Faults
    PROVE  Spec => [](setupPc \in {"announce", "done"} => AllRefreshed)
<1>1. Spec => []RefreshInv
  BY InitRefreshInv, NextRefreshInv, Invariance, PTL DEF Spec
<1>2. Inv /\ RefreshInv /\ FetchedInv /\ [Next]_vars => FetchedInv'
  BY NextFetchedInv
<1>3. FetchedInv => (setupPc \in {"announce", "done"} => AllRefreshed)
  BY DEF FetchedInv, Behind
<1> QED
  BY <1>1, <1>2, <1>3, InitRefreshInv, Invariance, PTL DEF Spec

-----------------------------------------------------------------------------
(* A change is only sent while the event has a free slot.                   *)
SendHasRoom == \A s \in SetNames : DaemonSend(s) => Len(ring) < EventSlots
SendsHaveRoom == [][SendHasRoom]_vars

(* Then and without failed calls no step misses an update.                  *)
LEMMA NothingIsMissed ==
    ASSUME {"send", "fetch", "subscribe"} \cap Faults = {}, Inv, missed = {}, [Next]_vars,
           [SendHasRoom]_vars
    PROVE  missed' = {}
<1>1. CASE UNCHANGED vars
  BY <1>1 DEF vars
<1>2. CASE DaemonNext
  <2>1. ASSUME NEW s \in SetNames, DaemonSend(s) PROVE missed' = {}
    <3>1. Len(ring) < EventSlots
      <4>1. CASE vars' = vars
        <5>1. announce' = announce /\ s \in announce /\ announce' = announce \ {s}
          BY <2>1, <4>1 DEF DaemonSend, vars
        <5> QED
          BY <5>1
      <4> QED
        BY <2>1, <4>1 DEF SendHasRoom
    <3>2. Len(ring) \in Nat
      BY DEF Inv, TypeOK
    <3>3. Listens => subscribed
      BY DEF Inv, PhaseInv
    <3>4. Dropped(s) = {}
      BY <3>1, <3>2, <3>3, ConstantsAssumption DEF Dropped
    <3> QED
      BY <2>1, <3>4 DEF DaemonSend
  <2> QED
    BY <1>2, <2>1 DEF DaemonNext, DaemonUpdate, DaemonSendFails
<1>3. CASE SetupNext
  BY <1>3 DEF SetupNext, SetupGetsProxy, SetupGetsNoProxy, SetupSubscribe, SetupFetchBegin,
     SetupFetchOne, SetupFetchEnd, SetupWrite, SetupRegister, SetupPublish, SetupAnnounce
<1>4. CASE PollThreadNext
  BY <1>4 DEF PollThreadNext, Poll, PollFails, PollWakes, PollEnds, DispatchEnds, DispatchNext,
     HandlerIgnores, HandlerFetch, HandlerFetchFails, HandlerDelivers, CaughtUp
<1>5. ASSUME NEW c \in Clients, ClientNext(c) PROVE missed' = {}
  BY <1>5 DEF ClientNext, StoreFetched, CaughtUp, GetCached, GetFetches, GetStores, ListBegins,
     ListCached, ListSkips, ListFetches, ListStores, ListSyncs, OnChanged, CheckUpdates
<1>6. CASE DestroyNext \/ Gone
  BY <1>6 DEF DestroyNext, DestroyBegins, DestroyJoinsSetup, DestroyJoinsPoll, Gone, vars
<1> QED
  BY <1>1, <1>2, <1>3, <1>4, <1>5, <1>6 DEF Next

(* The promise "keep this newly cached parameter set up-to-date" has no     *)
(* other exception than a full event and failed calls: where neither        *)
(* Subscribe nor a send nor a fetch fails and every send finds a free slot, *)
(* no update is lost, in any interleaving.                                  *)
THEOREM RoomKeepsUpToDate ==
    ASSUME {"send", "fetch", "subscribe"} \cap Faults = {}
    PROVE  Spec /\ SendsHaveRoom => []EveryUpdateArrives
<1>1. Inv /\ missed = {} /\ [Next]_vars /\ [SendHasRoom]_vars => (missed = {})'
  BY NothingIsMissed
<1>2. Init => missed = {}
  BY DEF Init
<1>3. missed = {} /\ NoLostUpdate => EveryUpdateArrives
  BY DEF NoLostUpdate, EveryUpdateArrives
<1> QED
  BY <1>1, <1>2, <1>3, Invariance, UpdatesArrive, PTL DEF Spec, SendsHaveRoom

-----------------------------------------------------------------------------
(* What the application was given has been handed to the persistency, and   *)
(* the storage lags behind only in a GetParameterSetsByNameList.            *)
Listing(c) == clientPc[c] \in {"list", "listStore"}
Seen(s) == observed[s] # Absent => staged[s] # Absent /\ staged[s] >= observed[s]
SeenInv ==
    /\ \A s \in SetNames : Seen(s)
    /\ stored = staged \/ \E c \in Clients : Listing(c)

(* A value given to the application is at least what is staged then.        *)
LEMMA SeenWhenStored ==
    ASSUME TypeOK, SeenInv, NEW q \in SetNames, NEW v \in Versions,
           staged' = [staged EXCEPT ![q] = v],
           observed' = observed \/ observed' = [observed EXCEPT ![q] = v],
           observed[q] # Absent => observed[q] <= v
    PROVE  \A s \in SetNames : Seen(s)'
<1> USE VersionsArePresent, MapsHoldNumbers DEF TypeOK, MapType
<1>1. ASSUME NEW s \in SetNames, s # q PROVE Seen(s)'
  BY <1>1 DEF SeenInv, Seen
<1>2. Seen(q)'
  <2>1. staged'[q] = v /\ v # Absent /\ v \in Nat
    OBVIOUS
  <2>2. observed'[q] # Absent => v >= observed'[q]
    <3>1. CASE observed' = observed
      BY <3>1
    <3>2. CASE observed' = [observed EXCEPT ![q] = v]
      BY <2>1, <3>2
    <3> QED
      BY <3>1, <3>2
  <2> QED
    BY <2>1, <2>2 DEF Seen
<1> QED
  BY <1>1, <1>2

LEMMA NextSeenInv ==
    ASSUME Inv, SeenInv, [Next]_vars
    PROVE  SeenInv'
<1> USE DEF clientVars, storageVars, pollVars, setupVars, daemonVars, event
<1>0. /\ TypeOK /\ PhaseInv /\ HandInv /\ FetchInv /\ StorageInv /\ OrderInv
      /\ staged \in MapType /\ observed \in MapType /\ cache \in MapType
      /\ clientPc \in [Clients -> {"idle", "get", "list", "listStore"}]
  BY DEF Inv, TypeOK
<1>1. CASE DaemonNext \/ DestroyNext \/ Gone \/ UNCHANGED vars
  <2>1. UNCHANGED <<staged, stored, observed, clientPc>>
    BY <1>1 DEF DaemonNext, DaemonUpdate, DaemonSend, DaemonSendFails, DestroyNext,
       DestroyBegins, DestroyJoinsSetup, DestroyJoinsPoll, Gone, vars
  <2> QED
    BY <2>1 DEF SeenInv, Seen, Listing
<1>2. CASE SetupNext
  <2>1. UNCHANGED <<observed, clientPc>>
    BY <1>2 DEF SetupNext, SetupGetsProxy, SetupGetsNoProxy, SetupSubscribe, SetupFetchBegin,
       SetupFetchOne, SetupFetchEnd, SetupWrite, SetupRegister, SetupPublish, SetupAnnounce
  <2>2. CASE SetupWrite
    <3>1. /\ setupPc = "write" /\ stored' = staged'
          /\ staged' = [s \in SetNames |-> IF s \in Fetched THEN fetched[s] ELSE staged[s]]
      BY <2>2 DEF SetupWrite, Saved, SetupGo
    <3>2. ASSUME NEW s \in SetNames PROVE Seen(s)'
      <4>1. CASE s \in Fetched
        <5>1. s \in Cached /\ staged'[s] = fetched[s] /\ fetched[s] # Absent
          BY <1>0, <3>1, <4>1 DEF FetchInv, Fetched
        <5>2. observed[s] # Absent => observed[s] <= cache[s] /\ cache[s] <= fetched[s]
          BY <1>0, <4>1, <5>1 DEF OrderInv
        <5>3. fetched[s] \in Nat /\ cache[s] \in Nat /\ (observed[s] # Absent => observed[s] \in Nat)
          BY <1>0, <5>1, VersionsArePresent DEF TypeOK, MapType, Cached
        <5>4. observed[s] # Absent => fetched[s] >= observed[s]
          BY <5>2, <5>3
        <5> QED
          BY <2>1, <5>1, <5>4 DEF Seen
      <4>2. CASE s \notin Fetched
        BY <2>1, <3>1, <4>2 DEF SeenInv, Seen
      <4> QED
        BY <4>1, <4>2
    <3> QED
      BY <3>1, <3>2 DEF SeenInv
  <2>3. CASE ~SetupWrite
    <3>1. UNCHANGED <<staged, stored>>
      BY <1>2, <2>3 DEF SetupNext, SetupGetsProxy, SetupGetsNoProxy, SetupSubscribe,
         SetupFetchBegin, SetupFetchOne, SetupFetchEnd, SetupRegister, SetupPublish,
         SetupAnnounce
    <3> QED
      BY <2>1, <3>1 DEF SeenInv, Seen, Listing
  <2> QED
    BY <2>2, <2>3
<1>3. CASE PollThreadNext
  <2>1. CASE \E s \in SetNames : HandlerDelivers(s)
    <3>1. PICK q \in SetNames : HandlerDelivers(q)
      BY <2>1
    <3> DEFINE v == hand["poll"].value
    <3>2. /\ pollPc = "deliver" /\ hand["poll"].set = q
          /\ staged' = [staged EXCEPT ![q] = v] /\ stored' = staged'
          /\ observed' = observed \/ observed' = [observed EXCEPT ![q] = v]
          /\ UNCHANGED clientPc
      BY <3>1 DEF HandlerDelivers, Persist
    <3>3. v \in Versions
      BY <1>0, <3>2 DEF HandInv
    <3>4. observed[q] # Absent => observed[q] <= v
      BY <1>0, <3>2, ThreadNames DEF OrderInv, Holds
    <3> HIDE DEF v
    <3>5. \A s \in SetNames : Seen(s)'
      BY <1>0, <3>2, <3>3, <3>4, SeenWhenStored
    <3> QED
      BY <3>2, <3>5 DEF SeenInv
  <2>2. CASE ~(\E s \in SetNames : HandlerDelivers(s))
    <3>1. UNCHANGED <<staged, stored, observed, clientPc>>
      BY <1>3, <2>2 DEF PollThreadNext, Poll, PollFails, PollWakes, PollEnds, DispatchEnds,
         DispatchNext, HandlerIgnores, HandlerFetch, HandlerFetchFails
    <3> QED
      BY <3>1 DEF SeenInv, Seen, Listing
  <2> QED
    BY <2>1, <2>2
<1>4. ASSUME NEW c \in Clients, ClientNext(c) PROVE SeenInv'
  <2>1. \A d \in Clients \ {c} : clientPc'[d] = clientPc[d]
    <3>1. \E to : clientPc' = [clientPc EXCEPT ![c] = to]
      BY <1>4 DEF ClientNext, ClientGo, GetCached, GetFetches, GetStores, ListBegins, ListCached,
         ListSkips, ListFetches, ListStores, ListSyncs, OnChanged, CheckUpdates
    <3> QED
      BY <1>0, <3>1
  <2>2. CASE \E s \in SetNames : GetStores(c, s) \/ ListStores(c, s)
    <3>1. PICK q \in SetNames : GetStores(c, q) \/ ListStores(c, q)
      BY <2>2
    <3> DEFINE v == hand[c].value
    <3>2. /\ ClientHolds(c) /\ hand[c].set = q
          /\ staged' = [staged EXCEPT ![q] = v]
          /\ observed' = [observed EXCEPT ![q] = v]
          /\ stored' = staged' \/ clientPc'[c] = "list"
      BY <1>0, <3>1 DEF GetStores, ListStores, ClientGo, ClientHolds, StoreFetched, Persist
    <3>3. v \in Versions
      BY <1>0, <3>2 DEF HandInv
    <3>4. observed[q] # Absent => observed[q] <= v
      BY <1>0, <3>2, ThreadNames DEF OrderInv, Holds, ClientHolds
    <3> HIDE DEF v
    <3>5. \A s \in SetNames : Seen(s)'
      BY <1>0, <3>2, <3>3, <3>4, SeenWhenStored
    <3> QED
      BY <3>2, <3>5 DEF SeenInv, Listing
  <2>3. CASE \E s \in SetNames : GetCached(c, s) \/ ListCached(c, s)
    <3>1. PICK q \in SetNames : GetCached(c, q) \/ ListCached(c, q)
      BY <2>3
    <3>2. /\ q \in Cached /\ observed' = [observed EXCEPT ![q] = cache[q]]
          /\ UNCHANGED <<staged, stored>> /\ (Listing(c) => Listing(c)')
      BY <1>0, <3>1 DEF GetCached, ListCached, ClientGo, Listing
    <3>3. staged[q] = cache[q] /\ cache[q] # Absent /\ cache[q] \in Nat
      BY <1>0, <3>2, VersionsArePresent DEF StorageInv, Cached, MapType
    <3>4. \A s \in SetNames : Seen(s)'
      BY <1>0, <3>2, <3>3 DEF SeenInv, Seen, MapType
    <3>5. \A d \in Clients : Listing(d) => Listing(d)'
      BY <2>1, <3>2 DEF Listing
    <3> QED
      BY <3>2, <3>4, <3>5 DEF SeenInv
  <2>4. CASE ListSyncs(c)
    BY <2>4 DEF ListSyncs, SeenInv, Seen
  <2>5. CASE /\ ~(\E s \in SetNames : GetStores(c, s) \/ ListStores(c, s))
             /\ ~(\E s \in SetNames : GetCached(c, s) \/ ListCached(c, s))
             /\ ~ListSyncs(c)
    <3>1. UNCHANGED <<staged, stored, observed>> /\ (Listing(c) => Listing(c)')
      BY <1>0, <1>4, <2>5 DEF ClientNext, ClientGo, GetFetches, ListBegins, ListSkips,
         ListFetches, OnChanged, CheckUpdates, Listing
    <3>2. \A d \in Clients : Listing(d) => Listing(d)'
      BY <2>1, <3>1 DEF Listing
    <3> QED
      BY <3>1, <3>2 DEF SeenInv, Seen
  <2> QED
    BY <2>2, <2>3, <2>4, <2>5
<1> QED
  BY <1>1, <1>2, <1>3, <1>4 DEF Next

(* A restart never takes the application back behind what it has seen.      *)
THEOREM NothingSeenIsForgotten == Spec => []SeenIsStored
<1>1. Init => SeenInv
  BY DEF Init, SeenInv, Seen, AbsentMap
<1>2. TypeOK /\ SeenInv => SeenIsStored
  BY DEF SeenInv, Seen, SeenIsStored, Listing
<1>3. Inv => TypeOK
  BY DEF Inv
<1> QED
  BY <1>1, <1>2, <1>3, NextSeenInv, Invariance, PTL DEF Spec
=============================================================================
