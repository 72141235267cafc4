--------------------------- MODULE ParameterCache ---------------------------
(***************************************************************************)
(* What the ConfigProvider promises its application, without threads,      *)
(* events, mutexes or storage.  A cache starts with the sets of an earlier *)
(* run.  While it is loading it may refresh them once from the daemon and  *)
(* give up those it could not refresh, though never all of them.  Once it  *)
(* is connected a cached set stays cached, moves only forward and never    *)
(* runs ahead of the daemon; once closed nothing moves.                    *)
(***************************************************************************)
EXTENDS Naturals

CONSTANTS SetNames, MaxVersion, Absent

VARIABLES version,  \* the daemon's version of each set
          cache,    \* the version cached, or Absent
          phase     \* loading, connected or closed

Init ==
    /\ version = [s \in SetNames |-> 1]
    /\ cache \in [SetNames -> {Absent, 0}]
    /\ phase = "loading"

(* The daemon changes a set.                                                *)
Change(s) ==
    /\ version[s] < MaxVersion
    /\ version' = [version EXCEPT ![s] = @ + 1]
    /\ UNCHANGED <<cache, phase>>

IsEmpty(m) == \A s \in SetNames : m[s] = Absent

(* A cached set moves forward, at most to the daemon's version.             *)
Forward(old, new, s) == /\ new \in 0..version[s]
                        /\ old # Absent => old <= new

Reload ==
    /\ phase = "loading"
    /\ cache' \in [SetNames -> (0..MaxVersion) \cup {Absent}]
    /\ \A s \in SetNames : cache'[s] # Absent =>
         cache[s] # Absent /\ Forward(cache[s], cache'[s], s)
    /\ IsEmpty(cache') => IsEmpty(cache)
    /\ UNCHANGED <<version, phase>>

Refresh(s) ==
    /\ phase = "connected"
    /\ Forward(cache[s], cache'[s], s)
    /\ cache' = [cache EXCEPT ![s] = cache'[s]]
    /\ UNCHANGED <<version, phase>>

Connect == phase = "loading" /\ phase' = "connected" /\ UNCHANGED <<version, cache>>
Close   == phase' = "closed" /\ UNCHANGED <<version, cache>>

Next == \/ \E s \in SetNames : Change(s) \/ Refresh(s)
        \/ Reload \/ Connect \/ Close

Spec == Init /\ [][Next]_<<version, cache, phase>>
=============================================================================
