----------------------------- MODULE NameChannel -----------------------------
(***************************************************************************)
(* What stands between a plugin that announces a changed parameter set and *)
(* the ConfigProvider's handler, without samples, threads and mutexes: a   *)
(* channel of names.  It keeps a bounded number of names and drops the     *)
(* oldest of them first.  The consumer takes them in their order, but      *)
(* never has more waiting than its limit, and treats what it took in       *)
(* rounds: all that waits becomes the round, and a new one begins when     *)
(* each of its names was treated once.  Only a stop leaves names untreated.*)
(***************************************************************************)
EXTENDS Naturals, Sequences, FiniteSets

CONSTANTS Names,
          Slots     \* the names kept

VARIABLES
    limit,    \* the most names the consumer lets wait
    open,     \* the consumer has subscribed
    kept,     \* the names not taken yet, oldest first
    waiting,  \* names taken for the next round
    round,    \* names of this round that are not treated yet
    treated,  \* the name, if any, that is being treated
    stopped   \* the consumer starts nothing new

vars == <<limit, open, kept, waiting, round, treated, stopped>>

ChannelInit ==
    /\ limit \in Nat
    /\ open = FALSE
    /\ kept = <<>>
    /\ waiting = {} /\ round = {} /\ treated = {}
    /\ stopped = FALSE

Subscribe ==
    /\ open' = TRUE
    /\ UNCHANGED <<limit, kept, waiting, round, treated, stopped>>

(* A full channel makes room; one that is not open keeps nothing.           *)
MakeRoom == IF Len(kept) < Slots THEN kept ELSE Tail(kept)

SendName(n) ==
    /\ kept' = IF open THEN Append(MakeRoom, n) ELSE kept
    /\ UNCHANGED <<limit, open, waiting, round, treated, stopped>>

First(k) == {kept[i] : i \in 1..k}
Remove(k) == kept' = SubSeq(kept, k + 1, Len(kept))

(* Some names are taken from the front, if there is room for them.          *)
Take ==
    /\ \E k \in 0..Len(kept) : Remove(k) /\ waiting' = waiting \cup First(k)
    /\ Cardinality(waiting') <= limit
    /\ UNCHANGED <<limit, open, round, treated, stopped>>

BeginRound ==
    /\ ~stopped
    /\ round = {} /\ treated = {}
    /\ \E k \in 0..Len(kept) : Remove(k) /\ round' = waiting \cup First(k)
    /\ Cardinality(round') <= limit
    /\ waiting' = {}
    /\ UNCHANGED <<limit, open, treated, stopped>>

Treat(n) ==
    /\ ~stopped
    /\ treated = {} /\ n \in round
    /\ treated' = {n}
    /\ round' = round \ {n}
    /\ UNCHANGED <<limit, open, kept, waiting, stopped>>

Treated ==
    /\ treated' = {}
    /\ UNCHANGED <<limit, open, kept, waiting, round, stopped>>

Stop ==
    /\ stopped' = TRUE
    /\ UNCHANGED <<limit, open, kept, waiting, round, treated>>

Abandon ==
    /\ stopped
    /\ round' = {}
    /\ UNCHANGED <<limit, open, kept, waiting, treated, stopped>>

Close ==
    /\ stopped
    /\ open' = FALSE
    /\ kept' = <<>>
    /\ UNCHANGED <<limit, waiting, round, treated, stopped>>

ChannelNext ==
    \/ \E n \in Names : SendName(n) \/ Treat(n)
    \/ Subscribe \/ Take \/ BeginRound \/ Treated
    \/ Stop \/ Abandon \/ Close

ChannelSpec == ChannelInit /\ [][ChannelNext]_vars
=============================================================================
