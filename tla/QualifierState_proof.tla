------------------------ MODULE QualifierState_proof ------------------------
(***************************************************************************)
(* Proofs about QualifierState, for any number of application threads and  *)
(* of states sent.                                                         *)
(***************************************************************************)
EXTENDS QualifierState, TLAPS

(* Where the threads can be, and that a reader of the provider's member is  *)
(* either the proxy thread before the provider is published or the          *)
(* application thread that owns the mutex.                                  *)
PhaseInv ==
    /\ pc["setup"] \in {"connect", "failed", "take", "convert", "cache",
                        "publish", "done"}
    /\ provider => pc["setup"] = "done"
    /\ \A c \in Clients :
          /\ pc[c] \in {"idle", "checked", "convert", "cache"}
          /\ Reads(c) => mutex = c /\ provider

(* The member holds a sample of the field or what it held at first.         *)
LatchInv ==
    IF latched.at = 0 THEN latched.state \in FirstValues ELSE WasSent(latched)

(* What a reader carries is the conversion of the member as it still is.    *)
HandInv ==
    \A t \in Threads : pc[t] = "cache" =>
        hand[t] = [state |-> Convert(latched.state), at |-> latched.at]

(* The cache is not newer than the member, and is filled before a final     *)
(* state is answered; a thread past the look at the cache has not been      *)
(* answered a final state.                                                  *)
CacheInv ==
    /\ cached.at <= latched.at
    /\ cached.state \in Final \cup {"undefined"}
    /\ \A c \in Clients : answer[c].state \in Final =>
          cached.state \in Final /\ pc[c] = "idle"

QInv == TypeOK /\ PhaseInv /\ LatchInv /\ HandInv /\ CacheInv

(* Every enumerator converts to itself, and the result is an enumerator.    *)
LEMMA ConvertTyped ==
    ASSUME NEW raw PROVE Convert(raw) \in States /\ (raw \in States => Convert(raw) = raw)
  BY DEF Convert, States

LEMMA ThreadsDiffer ==
    ASSUME NEW c \in Clients
    PROVE c # "setup" /\ c # "free" /\ c \in Threads /\ "setup" \in Threads
  BY QualifierAssumption DEF Threads

LEMMA QInit == Init => QInv
<1> SUFFICES ASSUME Init PROVE QInv
  OBVIOUS
<1> USE QualifierAssumption, ThreadsDiffer
<1>1. TypeOK
  <2>1. sent \in Seq(States) /\ Len(sent) = 1
    BY DEF Init, ServiceConvert, States
  <2>2. latched \in Reading(RawStates)
    BY DEF Init, Reading, Places
  <2>3. NoReading \in Reading(States)
    BY DEF NoReading, Reading, States, Places
  <2>4. Len(sent) \in 1..MaxSends /\ delivered \in 0..Len(sent)
    BY <2>1 DEF Init
  <2>5. pc \in [Threads -> {"connect", "failed", "take", "publish", "done",
                           "idle", "checked", "convert", "cache"}]
    BY DEF Init
  <2>6. /\ cached \in Reading(States) /\ hand \in [Threads -> Reading(States)]
        /\ answer \in [Clients -> Reading(States)]
    BY <2>3 DEF Init
  <2> QED BY <2>1, <2>2, <2>4, <2>5, <2>6 DEF Init, TypeOK
<1>2. PhaseInv
  BY DEF Init, PhaseInv, Reads, Threads
<1>3. LatchInv
  BY DEF Init, LatchInv
<1>4. HandInv
  BY DEF Init, HandInv, Threads
<1>5. CacheInv
  BY DEF Init, CacheInv, NoReading, Final, Reading
<1> QED BY <1>1, <1>2, <1>3, <1>4, <1>5 DEF QInv

(* What taking a sample does to the member, whoever takes it.               *)
LEMMA TakenMember ==
    ASSUME QInv, latched' \in Taken, UNCHANGED sent
    PROVE /\ latched' \in Reading(RawStates)
          /\ LatchInv'
          /\ latched.at <= latched'.at
<1> USE QualifierAssumption
<1>1. CASE latched' = latched
  BY <1>1 DEF QInv, TypeOK, LatchInv, WasSent, Reading, Places
<1>2. CASE \E p \in {delivered} \ 0..latched.at : latched' = [state |-> sent[p], at |-> p]
  <2>1. PICK p \in {delivered} \ 0..latched.at : latched' = [state |-> sent[p], at |-> p]
    BY <1>2
  <2>2. /\ p \in 1..Len(sent) /\ Len(sent) \in 1..MaxSends /\ latched.at < p
        /\ sent \in Seq(States)
    BY <2>1 DEF QInv, TypeOK, Reading, Places
  <2>3. sent[p] \in States /\ p \in DOMAIN sent /\ p \in Places
    BY <2>2 DEF Places
  <2>4. latched'.at = p /\ latched'.state = sent'[p] /\ DOMAIN sent' = DOMAIN sent
    BY <2>1
  <2>5. latched' \in Reading(RawStates)
    BY <2>1, <2>3 DEF Reading, RawStates
  <2>6. LatchInv'
    BY <2>2, <2>3, <2>4 DEF LatchInv, WasSent
  <2>7. latched.at <= latched'.at
    BY <2>2, <2>4 DEF QInv, TypeOK, Reading, Places
  <2> QED BY <2>5, <2>6, <2>7
<1> QED BY <1>1, <1>2 DEF Taken

-----------------------------------------------------------------------------
(* The steps of the daemon and the middleware.                              *)
LEMMA SendStep ==
    ASSUME QInv, NEW state \in States, SetInitialQualifierState(state) PROVE QInv'
<1> USE QualifierAssumption DEF SetInitialQualifierState
<1>0. ServiceConvert(state) \in States
  BY DEF ServiceConvert
<1>1. /\ sent' \in Seq(States) /\ Len(sent') = Len(sent) + 1
      /\ DOMAIN sent \subseteq DOMAIN sent'
      /\ \A p \in DOMAIN sent : sent'[p] = sent[p]
  BY <1>0 DEF QInv, TypeOK
<1>2. TypeOK'
  BY <1>1 DEF QInv, TypeOK
<1>3. LatchInv'
  BY <1>1 DEF QInv, LatchInv, WasSent
<1>4. PhaseInv' /\ HandInv' /\ CacheInv'
  BY DEF QInv, PhaseInv, Reads, HandInv, CacheInv
<1> QED BY <1>2, <1>3, <1>4 DEF QInv

LEMMA DeliverStep ==
    ASSUME QInv, Deliver PROVE QInv'
<1> USE QualifierAssumption DEF Deliver
<1>1. TypeOK'
  BY DEF QInv, TypeOK
<1>2. PhaseInv' /\ LatchInv' /\ HandInv' /\ CacheInv'
  BY DEF QInv, PhaseInv, Reads, LatchInv, WasSent, HandInv, CacheInv
<1> QED BY <1>1, <1>2 DEF QInv

-----------------------------------------------------------------------------
(* Taking a sample while nobody reads, and converting the member.           *)
LEMMA TakeStep ==
    ASSUME QInv, NEW t \in Threads, NEW from, Take(t, from),
           \A u \in Threads : ~Reads(u),
           mutex' \in Clients \cup {"free"},
           PhaseInv',
           t \in Clients => answer[t].state \notin Final
    PROVE QInv'
<1> USE QualifierAssumption DEF Take
<1>1. latched' \in Reading(RawStates) /\ LatchInv' /\ latched.at <= latched'.at
  BY TakenMember
<1>2. TypeOK'
  BY <1>1 DEF QInv, TypeOK
<1>3. HandInv'
  BY DEF QInv, TypeOK, HandInv, Reads
<1>4. CacheInv'
  BY <1>1, ThreadsDiffer DEF QInv, TypeOK, CacheInv, Reading, Places
<1> QED BY <1>1, <1>2, <1>3, <1>4 DEF QInv

LEMMA ConvertStep ==
    ASSUME QInv, NEW t \in Threads, ConvertMember(t) PROVE QInv'
<1> USE QualifierAssumption, ThreadsDiffer DEF ConvertMember
<1>1. [latched EXCEPT !.state = Convert(@)] = [state |-> Convert(latched.state), at |-> latched.at]
  BY DEF QInv, TypeOK, Reading
<1>2. [state |-> Convert(latched.state), at |-> latched.at] \in Reading(States)
  BY ConvertTyped DEF QInv, TypeOK, Reading
<1>3. TypeOK'
  BY <1>1, <1>2 DEF QInv, TypeOK
<1>4. PhaseInv'
  BY DEF QInv, TypeOK, PhaseInv, Reads, Threads
<1>5. HandInv'
  BY <1>1 DEF QInv, TypeOK, HandInv
<1>6. LatchInv' /\ CacheInv'
  BY DEF QInv, TypeOK, LatchInv, WasSent, CacheInv
<1> QED BY <1>3, <1>4, <1>5, <1>6 DEF QInv

-----------------------------------------------------------------------------
(* The proxy thread.                                                        *)
LEMMA SetupStep ==
    ASSUME QInv, CacheInitialState PROVE QInv'
<1> USE QualifierAssumption, ThreadsDiffer
<1>0. "setup" \in Threads
  BY DEF Threads
<1>1. CASE SetupConnects
  <2> USE <1>1 DEF SetupConnects
  <2>1. PICK to \in {"take", "failed"} : pc' = [pc EXCEPT !["setup"] = to]
    BY <1>1
  <2>2. TypeOK'
    BY <2>1 DEF QInv, TypeOK
  <2>3. PhaseInv' /\ HandInv' /\ CacheInv' /\ LatchInv'
    BY <1>0, <2>1 DEF QInv, TypeOK, PhaseInv, Reads, HandInv, CacheInv, LatchInv, WasSent
  <2> QED BY <2>2, <2>3 DEF QInv
<1>2. CASE SetupTakes
  <2> USE <1>2 DEF SetupTakes
  <2>1. \A u \in Threads : ~Reads(u)
    BY <1>0 DEF QInv, PhaseInv, Reads, Take, Threads
  <2>2. PhaseInv'
    BY <1>0 DEF QInv, TypeOK, PhaseInv, Reads, Take
  <2>3. mutex' \in Clients \cup {"free"} /\ "setup" \notin Clients
    BY DEF QInv, TypeOK
  <2> QED BY <1>0, <2>1, <2>2, <2>3, TakeStep
<1>3. CASE ConvertMember("setup")
  BY <1>0, <1>3, ConvertStep
<1>4. CASE SetupCaches
  <2> USE <1>4 DEF SetupCaches
  <2>1. hand["setup"] = [state |-> Convert(latched.state), at |-> latched.at]
    BY <1>0 DEF QInv, HandInv
  <2>2. hand["setup"] \in Reading(States) /\ NoReading \in Reading(States)
    BY <1>0 DEF QInv, TypeOK, NoReading, Reading, States, Places
  <2>3. TypeOK'
    BY <2>2 DEF QInv, TypeOK, CacheInitialQualifierState
  <2>4. PhaseInv' /\ LatchInv'
    BY <1>0 DEF QInv, TypeOK, PhaseInv, Reads, LatchInv, WasSent
  <2>5. HandInv'
    BY <1>0 DEF QInv, TypeOK, HandInv
  <2>6. CacheInv'
    BY <1>0, <2>1, <2>2 DEF QInv, TypeOK, CacheInv, CacheInitialQualifierState, Reading, Places
  <2> QED BY <2>3, <2>4, <2>5, <2>6 DEF QInv
<1>5. CASE SetupPublishes
  BY <1>0, <1>5 DEF SetupPublishes, QInv, TypeOK, PhaseInv, Reads, HandInv, CacheInv,
     LatchInv, WasSent
<1> QED BY <1>1, <1>2, <1>3, <1>4, <1>5 DEF CacheInitialState

-----------------------------------------------------------------------------
(* An application thread.                                                   *)
LEMMA GetStep ==
    ASSUME QInv, NEW c \in Clients, GetInitialQualifierState(c) PROVE QInv'
<1> USE QualifierAssumption, ThreadsDiffer
<1>1. CASE GetCached(c)
  <2> USE <1>1 DEF GetCached
  <2>1. TypeOK'
    BY DEF QInv, TypeOK
  <2>2. PhaseInv' /\ HandInv' /\ LatchInv'
    BY DEF QInv, PhaseInv, Reads, HandInv, LatchInv, WasSent
  <2>3. CacheInv'
    BY DEF QInv, TypeOK, CacheInv
  <2> QED BY <2>1, <2>2, <2>3 DEF QInv
<1>2. CASE GetMisses(c)
  <2> USE <1>2 DEF GetMisses
  <2>1. TypeOK'
    BY DEF QInv, TypeOK
  <2>2. PhaseInv' /\ HandInv' /\ LatchInv'
    BY DEF QInv, TypeOK, PhaseInv, Reads, HandInv, LatchInv, WasSent
  <2>3. CacheInv'
    BY DEF QInv, TypeOK, CacheInv, Final
  <2> QED BY <2>1, <2>2, <2>3 DEF QInv
<1>3. CASE GetNotReady(c)
  <2> USE <1>3 DEF GetNotReady
  <2>1. TypeOK'
    BY DEF QInv, TypeOK
  <2>2. PhaseInv' /\ HandInv' /\ LatchInv'
    BY DEF QInv, TypeOK, PhaseInv, Reads, HandInv, LatchInv, WasSent
  <2>3. CacheInv'
    BY DEF QInv, TypeOK, CacheInv, Final
  <2> QED BY <2>1, <2>2, <2>3 DEF QInv
<1>4. CASE GetTakes(c)
  <2> USE <1>4 DEF GetTakes, Lock
  <2>1. \A u \in Threads : ~Reads(u)
    BY DEF QInv, PhaseInv, Reads, Take, Threads
  <2>2. PhaseInv'
    BY DEF QInv, TypeOK, PhaseInv, Reads, Take
  <2>3. answer[c].state \notin Final
    BY DEF QInv, CacheInv, Take
  <2> QED BY <2>1, <2>2, <2>3, TakeStep
<1>5. CASE ConvertMember(c)
  BY <1>5, ConvertStep
<1>6. CASE GetCaches(c)
  <2> USE <1>6 DEF GetCaches
  <2>1. hand[c] = [state |-> Convert(latched.state), at |-> latched.at]
    BY DEF QInv, HandInv
  <2>2. hand[c] \in Reading(States) /\ NoReading \in Reading(States)
    BY DEF QInv, TypeOK, NoReading, Reading, States, Places
  <2>3. TypeOK'
    BY <2>2 DEF QInv, TypeOK, CacheInitialQualifierState
  <2>4. PhaseInv' /\ LatchInv'
    BY DEF QInv, TypeOK, PhaseInv, Reads, LatchInv, WasSent
  <2>5. HandInv'
    BY DEF QInv, TypeOK, HandInv
  <2>6. CacheInv'
    BY <2>1, <2>2 DEF QInv, TypeOK, CacheInv, CacheInitialQualifierState, Reading, Places
  <2> QED BY <2>3, <2>4, <2>5, <2>6 DEF QInv
<1> QED BY <1>1, <1>2, <1>3, <1>4, <1>5, <1>6 DEF GetInitialQualifierState

LEMMA QStep == QInv /\ [Next]_vars => QInv'
<1> SUFFICES ASSUME QInv, [Next]_vars PROVE QInv'
  OBVIOUS
<1>1. CASE \E state \in States : SetInitialQualifierState(state)
  BY <1>1, SendStep
<1>2. CASE Deliver
  BY <1>2, DeliverStep
<1>3. CASE CacheInitialState
  BY <1>3, SetupStep
<1>4. CASE \E c \in Clients : GetInitialQualifierState(c)
  BY <1>4, GetStep
<1>5. CASE UNCHANGED vars
  BY <1>5 DEF vars, QInv, TypeOK, PhaseInv, Reads, LatchInv, WasSent, HandInv, CacheInv
<1> QED BY <1>1, <1>2, <1>3, <1>4, <1>5 DEF Next

(* The inductive invariant holds in every reachable state.                  *)
THEOREM QInvariance == Spec => []QInv
  BY QInit, QStep, PTL DEF Spec

-----------------------------------------------------------------------------
(* Type correctness of the field, the member, the cache and the answers.    *)
THEOREM QTypeCorrect == Spec => []TypeOK
  BY QInvariance, PTL DEF QInv

(* InternalConfigProvider's member is never written by one thread while     *)
(* another has yet to convert it outside that provider's mutex.             *)
THEOREM OneReaderAtATime == Spec => []OneReader
<1>1. QInv => OneReader
  BY ThreadsDiffer DEF QInv, PhaseInv, OneReader, Reads, Threads
<1> QED BY <1>1, QInvariance, PTL

(* What is about to be cached is as new as the member, and the member is    *)
(* not older than the cache.                                                *)
LEMMA CacheGrows ==
    ASSUME QInv, Next PROVE cached' = cached \/ cached'.at >= cached.at
<1> USE QualifierAssumption, ThreadsDiffer
<1>1. ASSUME NEW t \in Threads, pc[t] = "cache",
             cached' = CacheInitialQualifierState(hand[t])
      PROVE cached' = cached \/ cached'.at >= cached.at
  BY <1>1 DEF QInv, TypeOK, HandInv, CacheInv, CacheInitialQualifierState, Reading, Places
<1>2. CASE CacheInitialState
  BY <1>1, <1>2 DEF CacheInitialState, SetupConnects, SetupTakes, Take, ConvertMember,
     SetupCaches, SetupPublishes, Threads
<1>3. ASSUME NEW c \in Clients, GetInitialQualifierState(c)
      PROVE cached' = cached \/ cached'.at >= cached.at
  BY <1>1, <1>3 DEF GetInitialQualifierState, GetCached, GetMisses, GetNotReady,
     GetTakes, Take, ConvertMember, GetCaches
<1> QED BY <1>2, <1>3 DEF Next, SetInitialQualifierState, Deliver

(* A cached state is only ever replaced by one the daemon sent later.       *)
THEOREM CacheIsMonotone == Spec => CacheNeverOlder
<1>1. QInv /\ [Next]_vars => [cached'.at >= cached.at]_cached
  BY CacheGrows DEF vars
<1> QED BY <1>1, QInvariance, PTL DEF Spec, CacheNeverOlder

(* A call under way was not preceded by a final answer to its thread, and   *)
(* the cache answers final states only.                                     *)
LEMMA FinalStays ==
    ASSUME QInv, Next, NEW c \in Clients, answer[c].state \in Final
    PROVE answer'[c].state \in Final
<1> USE ThreadsDiffer
<1>1. cached.state \in Final /\ pc[c] = "idle"
  BY DEF QInv, CacheInv
<1>2. ASSUME NEW d \in Clients, GetInitialQualifierState(d)
      PROVE answer'[c].state \in Final
  <2>1. CASE d # c
    BY <1>2, <2>1 DEF QInv, TypeOK, GetInitialQualifierState, GetCached, GetMisses,
       GetNotReady, GetTakes, Take, ConvertMember, GetCaches
  <2>2. CASE d = c
    BY <1>1, <1>2, <2>2 DEF QInv, TypeOK, GetInitialQualifierState, GetCached, GetMisses,
       GetNotReady, GetTakes, Take, ConvertMember, GetCaches
  <2> QED BY <2>1, <2>2
<1> QED BY <1>2 DEF Next, SetInitialQualifierState, Deliver, CacheInitialState,
       SetupConnects, SetupTakes, Take, ConvertMember, SetupCaches, SetupPublishes

(* An application thread that has seen a final state keeps seeing one.      *)
THEOREM FinalAnswersAreKept == Spec => FinalAnswersStay
<1> DEFINE A == \A c \in Clients : answer[c].state \in Final => answer'[c].state \in Final
<1>1. QInv /\ [Next]_vars => [A]_answer
  BY FinalStays DEF vars
<1> QED BY <1>1, QInvariance, PTL DEF Spec, FinalAnswersStay

-----------------------------------------------------------------------------
(***************************************************************************)
(* What the member holds before its first sample decides whether a state   *)
(* can be trusted: if that is no final state, every final state that is    *)
(* cached or answered was sent.                                            *)
(***************************************************************************)
NoStrayFinal == FirstValues \cap Final = {}

SentInv ==
    /\ CacheHoldsSentFinal
    /\ \A c \in Clients : answer[c].state \in Final => WasSent(answer[c])

LEMMA MemberWasSent ==
    ASSUME QInv, NoStrayFinal, NEW r,
           r = [state |-> Convert(latched.state), at |-> latched.at],
           r.state \in Final
    PROVE WasSent(r)
<1>1. Convert(latched.state) \in Final
  OBVIOUS
<1>2. latched.state \in Final
  BY <1>1 DEF Convert, Final
<1>3. latched.at # 0
  BY <1>2 DEF QInv, LatchInv, NoStrayFinal
<1>4. WasSent(latched) /\ Convert(latched.state) = latched.state
  BY <1>2, <1>3 DEF QInv, LatchInv, Convert, Final, States
<1> QED BY <1>4 DEF WasSent

LEMMA SentStep ==
    ASSUME QInv, NoStrayFinal, SentInv, [Next]_vars PROVE SentInv'
<1> USE ThreadsDiffer
<1>1. ASSUME NEW t \in Threads, pc[t] = "cache", hand[t].state \in Final
      PROVE WasSent(hand[t])
  BY <1>1, MemberWasSent DEF QInv, HandInv
<1>2. ASSUME UNCHANGED <<sent, cached>>
      PROVE CacheHoldsSentFinal'
  BY <1>2 DEF SentInv, CacheHoldsSentFinal, WasSent
<1>3. ASSUME NEW t \in Threads, UNCHANGED sent, pc[t] = "cache",
             cached' = CacheInitialQualifierState(hand[t])
      PROVE CacheHoldsSentFinal'
  <2>1. CASE hand[t].state \in Final
    <3>1. cached' = hand[t] /\ WasSent(hand[t])
      BY <1>1, <1>3, <2>1 DEF CacheInitialQualifierState
    <3> QED BY <1>3, <2>1, <3>1 DEF CacheHoldsSentFinal, WasSent
  <2>2. CASE hand[t].state \notin Final
    BY <1>2, <1>3, <2>2 DEF CacheInitialQualifierState
  <2> QED BY <2>1, <2>2
<1>4. CASE \E state \in States : SetInitialQualifierState(state)
  <2>1. DOMAIN sent \subseteq DOMAIN sent' /\ \A p \in DOMAIN sent : sent'[p] = sent[p]
    BY <1>4 DEF SetInitialQualifierState, QInv, TypeOK
  <2> QED BY <1>4, <2>1 DEF SetInitialQualifierState, SentInv, CacheHoldsSentFinal, WasSent
<1>5. CASE Deliver
  BY <1>5 DEF Deliver, SentInv, CacheHoldsSentFinal, WasSent
<1>6. CASE CacheInitialState
  <2>1. UNCHANGED <<sent, answer>>
    BY <1>6 DEF CacheInitialState, SetupConnects, SetupTakes, Take, ConvertMember,
       SetupCaches, SetupPublishes
  <2>2. CacheHoldsSentFinal'
    BY <1>2, <1>6, <1>3, <2>1 DEF CacheInitialState, SetupConnects, SetupTakes, Take,
       ConvertMember, SetupCaches, SetupPublishes, Threads
  <2> QED BY <2>1, <2>2 DEF SentInv, WasSent
<1>7. ASSUME NEW c \in Clients, GetInitialQualifierState(c) PROVE SentInv'
  <2>1. UNCHANGED sent
    BY <1>7 DEF GetInitialQualifierState, GetCached, GetMisses, GetNotReady, GetTakes,
       Take, ConvertMember, GetCaches
  <2>3. CacheHoldsSentFinal'
    BY <1>2, <1>7, <1>3, <2>1 DEF GetInitialQualifierState, GetCached, GetMisses,
       GetNotReady, GetTakes, Take, ConvertMember, GetCaches
  <2>4. \/ answer' = answer
        \/ answer' = [answer EXCEPT ![c] = cached]
        \/ pc[c] = "cache" /\ answer' = [answer EXCEPT ![c] = hand[c]]
    BY <1>7 DEF GetInitialQualifierState, GetCached, GetMisses, GetNotReady, GetTakes,
       Take, ConvertMember, GetCaches
  <2>5. cached.state \in Final => WasSent(cached)
    BY DEF SentInv, CacheHoldsSentFinal, Final
  <2>6. ASSUME NEW d \in Clients, answer'[d].state \in Final PROVE WasSent(answer'[d])
    BY <1>1, <2>4, <2>5, <2>6 DEF QInv, TypeOK, SentInv
  <2> QED BY <2>1, <2>3, <2>6 DEF SentInv, WasSent
<1>8. CASE UNCHANGED vars
  BY <1>8 DEF vars, SentInv, CacheHoldsSentFinal, WasSent
<1> QED BY <1>4, <1>5, <1>6, <1>7, <1>8 DEF Next

(* With a member that cannot hold a final state by chance, every final      *)
(* state in the cache and in an answer was sent by the daemon.              *)
THEOREM SentInvariance ==
    ASSUME NoStrayFinal PROVE Spec => []SentInv
<1>1. Init => SentInv
  BY DEF Init, SentInv, CacheHoldsSentFinal, NoReading, Final
<1>2. QInv /\ SentInv /\ [Next]_vars => SentInv'
  BY SentStep
<1> QED BY <1>1, <1>2, QInvariance, PTL DEF Spec

(* ... in particular the cached state ...                                   *)
THEOREM CachedWasSent ==
    ASSUME NoStrayFinal PROVE Spec => []CacheHoldsSentFinal
<1>1. SentInv => CacheHoldsSentFinal
  BY DEF SentInv
<1> QED BY <1>1, SentInvariance, PTL

(* ... and no application is told kQualified before the daemon said so.     *)
THEOREM QualifiedIsGenuine ==
    ASSUME NoStrayFinal PROVE Spec => []QualifiedWasSent
<1>1. SentInv => QualifiedWasSent
  BY DEF SentInv, QualifiedWasSent, WasSent, Final
<1> QED BY <1>1, SentInvariance, PTL

-----------------------------------------------------------------------------
(***************************************************************************)
(* The register.  A sample taken is a state that arrives; the step that    *)
(* caches a reading is the moment a call reads the register, because what  *)
(* it carries is still the newest: nobody else has taken a sample since.   *)
(***************************************************************************)
Observed == <<sent, Newest, cached, provider, answer>>

LEMMA RegisterInit == Init => Register!RInit
<1> SUFFICES ASSUME Init PROVE Register!RInit
  OBVIOUS
<1>1. sent \in {<<s>> : s \in States}
  <2>1. sent = <<"undefined">> /\ "undefined" \in States
    BY DEF Init, ServiceConvert, States
  <2> QED BY <2>1
<1>2. Newest \in [state : {Convert(raw) : raw \in FirstValues}, at : {0}]
  <2>1. latched.state \in FirstValues /\ latched.at = 0
    BY DEF Init
  <2> QED BY <2>1 DEF Newest
<1> QED BY <1>1, <1>2 DEF Init, Register!RInit

(* A thread that takes a sample makes a newer state arrive, or none.        *)
LEMMA TakeArrives ==
    ASSUME QInv, latched' \in Taken, UNCHANGED <<sent, cached, provider, answer>>
    PROVE  Register!Arrive \/ UNCHANGED Observed
<1>1. CASE latched' = latched
  BY <1>1 DEF Observed, Newest
<1>2. ASSUME NEW p \in {delivered} \ 0..latched.at,
             latched' = [state |-> sent[p], at |-> p]
      PROVE  Register!Arrive
  <2>1. p \in 1..Len(sent) /\ p > latched.at /\ sent \in Seq(States)
    BY <1>2 DEF QInv, TypeOK, Reading, Places
  <2>2. p \in DOMAIN sent /\ sent[p] \in States
    BY <2>1
  <2>3. Newest' = [state |-> sent[p], at |-> p] /\ Newest.at = latched.at
    BY <1>2, <2>2, ConvertTyped DEF Newest
  <2> QED BY <2>1, <2>2, <2>3 DEF Register!Arrive
<1> QED BY <1>1, <1>2 DEF Taken

(* What a thread is about to cache is the newest reading.                   *)
LEMMA HandIsNewest ==
    ASSUME QInv, NEW t \in Threads, pc[t] = "cache" PROVE hand[t] = Newest
BY DEF QInv, HandInv, Newest

LEMMA RegisterStep ==
    ASSUME QInv, [Next]_vars PROVE [Register!RNext]_Observed
<1> USE ThreadsDiffer
<1>1. ASSUME NEW state \in States, SetInitialQualifierState(state)
      PROVE  Register!SendState(state)
  BY <1>1 DEF SetInitialQualifierState, ServiceConvert, Newest, Register!SendState
<1>2. CASE Deliver
  BY <1>2 DEF Deliver, Observed, Newest
<1>3. CASE CacheInitialState
  <2>1. "setup" \in Threads
    BY DEF Threads
  <2>2. CASE SetupConnects \/ ConvertMember("setup")
    BY <2>2 DEF SetupConnects, ConvertMember, Observed, Newest
  <2>3. CASE SetupTakes
    BY <2>3, TakeArrives DEF SetupTakes, Take, Register!RNext
  <2>4. CASE SetupCaches
    <3>1. ~provider /\ UNCHANGED <<sent, latched, provider, answer>>
      BY <2>4 DEF SetupCaches, QInv, PhaseInv
    <3>2. cached' = CacheInitialQualifierState(Newest)
      BY <2>1, <2>4, HandIsNewest DEF SetupCaches
    <3>3. Register!SettleEarly
      BY <3>1, <3>2
         DEF CacheInitialQualifierState, Newest, Register!SettleEarly, Register!Settle
    <3> QED BY <3>3 DEF Register!RNext
  <2>5. CASE SetupPublishes
    BY <2>5 DEF SetupPublishes, Newest, Register!Publish, Register!RNext
  <2> QED BY <1>3, <2>2, <2>3, <2>4, <2>5 DEF CacheInitialState
<1>4. ASSUME NEW c \in Clients, GetInitialQualifierState(c)
      PROVE  [Register!RNext]_Observed
  <2>1. CASE GetCached(c)
    <3>1. cached.state \in Final
      BY <2>1 DEF GetCached, QInv, CacheInv
    <3>2. Register!ReadSettled(c)
      BY <2>1, <3>1 DEF GetCached, Newest, Register!ReadSettled, Register!Tell
    <3> QED BY <3>2 DEF Register!RNext
  <2>2. CASE GetMisses(c) \/ ConvertMember(c)
    BY <2>2 DEF GetMisses, ConvertMember, Observed, Newest
  <2>3. CASE GetNotReady(c)
    <3>1. Register!ReadSettled(c)
      BY <2>3 DEF GetNotReady, Newest, Register!ReadSettled, Register!Tell
    <3> QED BY <3>1 DEF Register!RNext
  <2>4. CASE GetTakes(c)
    BY <2>4, TakeArrives DEF GetTakes, Take, Register!RNext
  <2>5. CASE GetCaches(c)
    <3>1. provider /\ answer[c].state \notin Final
      BY <2>5 DEF GetCaches, QInv, PhaseInv, CacheInv, Reads
    <3>2. /\ cached' = CacheInitialQualifierState(Newest)
          /\ answer' = [answer EXCEPT ![c] = Newest]
          /\ UNCHANGED <<sent, latched, provider>>
      BY <2>5, HandIsNewest DEF GetCaches
    <3>3. Register!ReadNewest(c)
      BY <3>1, <3>2 DEF CacheInitialQualifierState, Newest, Register!ReadNewest,
                        Register!Settle, Register!Tell
    <3> QED BY <3>3 DEF Register!RNext
  <2> QED BY <1>4, <2>1, <2>2, <2>3, <2>4, <2>5 DEF GetInitialQualifierState
<1>5. CASE UNCHANGED vars
  BY <1>5 DEF vars, Observed, Newest
<1> QED BY <1>1, <1>2, <1>3, <1>4, <1>5 DEF Next, Register!RNext

(* The provider implements the register: whatever the plugins send and in   *)
(* whatever order the threads run, each call of GetInitialQualifierState    *)
(* reads at one moment the settled or the newest state.                     *)
THEOREM IsRegister == Spec => RegisterSpec
<1>1. QInv /\ [Next]_vars => [Register!RNext]_Observed
  BY RegisterStep
<1>2. Observed = Register!vars
  BY DEF Observed, Register!vars
<1> QED
  BY <1>1, <1>2, RegisterInit, QInvariance, PTL
     DEF Spec, RegisterSpec, Register!RSpec, Observed, Register!vars
=============================================================================
