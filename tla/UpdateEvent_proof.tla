--------------------------- MODULE UpdateEvent_proof ---------------------------
(***************************************************************************)
(* Proofs about UpdateEvent, for any number of threads, names, slots and   *)
(* any size of the samples, and names that are no longer than a sample.    *)
(***************************************************************************)
EXTENDS UpdateEvent, FiniteSetTheorems, TLAPS

(* What a name occupies comes back out of the sample, whatever was in it.   *)
LEMMA RoundTrip ==
    ASSUME NEW n \in Names, NEW memory \in Samples
    PROVE  /\ Copied(n, Cleared(memory)) \in Samples
           /\ NameIn(Copied(n, Cleared(memory))) = n
<1> DEFINE s == Copied(n, Cleared(memory))
<1>1. n \in Seq(Chars) /\ Len(n) \in 0 .. SampleSize /\ SampleSize \in Nat
  BY EventAssumption
<1>2. \A i \in 1 .. Len(n) : n[i] \in Chars
  BY <1>1
<1>3. s = [i \in 1 .. SampleSize |-> IF i <= Len(n) THEN n[i] ELSE 0]
  BY <1>1 DEF Copied, Cleared
<1>4. s \in Samples
  BY <1>1, <1>2, <1>3 DEF Samples
<1>5. \A i \in 1 .. Len(n) : s[i] = n[i] /\ s[i] # 0
  BY <1>1, <1>2, <1>3, EventAssumption
<1>6. Len(n) < SampleSize => s[Len(n) + 1] = 0
  BY <1>1, <1>3
<1>7. IsEnd(s, Len(n))
  BY <1>1, <1>5, <1>6 DEF IsEnd
<1>8. ASSUME NEW e \in 0 .. SampleSize, IsEnd(s, e)
      PROVE  e = Len(n)
  <2>1. ~(e < Len(n))
    <3> SUFFICES ASSUME e < Len(n) PROVE FALSE
      OBVIOUS
    <3>1. e # SampleSize /\ e + 1 \in 1 .. Len(n)
      BY <1>1
    <3>2. s[e + 1] = 0
      BY <3>1, <1>8 DEF IsEnd
    <3> QED
      BY <3>1, <3>2, <1>5
  <2>2. ~(Len(n) < e)
    <3> SUFFICES ASSUME Len(n) < e PROVE FALSE
      OBVIOUS
    <3>1. Len(n) < SampleSize /\ Len(n) + 1 \in 1 .. e
      BY <1>1
    <3> QED
      BY <3>1, <1>6, <1>8 DEF IsEnd
  <2> QED
    BY <2>1, <2>2, <1>1
<1>9. (CHOOSE e \in 0 .. SampleSize : IsEnd(s, e)) = Len(n)
  <2> HIDE DEF s
  <2> QED
    BY <1>1, <1>7, <1>8
<1>10. NameIn(s) = SubSeq(s, 1, Len(n))
  <2> HIDE DEF s
  <2> QED
    BY <1>9 DEF NameIn
<1>11. SubSeq(s, 1, Len(n)) = n
  <2>1. s \in Seq(Chars \cup {0}) /\ Len(s) = SampleSize
    BY <1>1, <1>4 DEF Samples
  <2> HIDE DEF s
  <2>2. SubSeq(s, 1, Len(n)) \in Seq(Chars \cup {0}) /\ Len(SubSeq(s, 1, Len(n))) = Len(n)
    BY <2>1, <1>1
  <2>3. \A i \in 1 .. Len(n) : SubSeq(s, 1, Len(n))[i] = n[i]
    BY <2>1, <1>1, <1>5
  <2> QED
    BY <2>2, <2>3, <1>1
<1> QED
  BY <1>4, <1>10, <1>11

(* The samples of a queue that carry a name.                                *)
Carrying(q, n) == {i \in 1 .. Len(q) : NameIn(q[i]) = n}
Count(q, n) == Cardinality(Carrying(q, n))

(* Of a queue a finite number of samples carries a name.                    *)
LEMMA CountType ==
    ASSUME NEW q, Len(q) \in Nat, NEW n
    PROVE  IsFiniteSet(Carrying(q, n)) /\ Count(q, n) \in Nat
<1>1. IsFiniteSet(1 .. Len(q))
  BY FS_Interval
<1>2. Carrying(q, n) \in SUBSET (1 .. Len(q))
  BY DEF Carrying
<1> QED
  BY <1>1, <1>2, FS_Subset, FS_CardinalityType DEF Count

(* One more sample is at most one more of a name, none of another name.     *)
LEMMA CountOfAppend ==
    ASSUME NEW S, NEW q \in Seq(S), NEW x \in S, NEW n
    PROVE  /\ Count(Append(q, x), n) <= Count(q, n) + 1
           /\ NameIn(x) # n => Count(Append(q, x), n) = Count(q, n)
<1>1. Carrying(Append(q, x), n) =
          IF NameIn(x) = n THEN Carrying(q, n) \cup {Len(q) + 1} ELSE Carrying(q, n)
  BY DEF Carrying
<1>2. IsFiniteSet(Carrying(q, n)) /\ Count(q, n) \in Nat
  BY CountType
<1>3. Count(q, n) <= Count(q, n) + 1
  BY <1>2
<1>4. CASE NameIn(x) = n
  <2>1. Cardinality(Carrying(q, n) \cup {Len(q) + 1}) \in {Count(q, n), Count(q, n) + 1}
    BY <1>2, FS_AddElement DEF Count
  <2> QED
    BY <1>1, <1>2, <1>4, <2>1 DEF Count
<1>5. CASE NameIn(x) # n
  BY <1>1, <1>3, <1>5 DEF Count
<1> QED
  BY <1>4, <1>5

(* What is taken from the front of a queue is not in the rest: of the names *)
(* taken the rest has one sample less at least.                             *)
LEMMA CountOfRest ==
    ASSUME NEW S, NEW q \in Seq(S), NEW k \in 0 .. Len(q), NEW n
    PROVE  /\ Count(SubSeq(q, k + 1, Len(q)), n) <= Count(q, n)
           /\ n \in {NameIn(q[i]) : i \in 1 .. k} =>
                 Count(SubSeq(q, k + 1, Len(q)), n) + 1 <= Count(q, n)
<1> DEFINE r == SubSeq(q, k + 1, Len(q))
           A == Carrying(r, n)
           B == Carrying(q, n)
           f == [i \in A |-> i + k]
<1>1. r \in Seq(S) /\ Len(r) = Len(q) - k /\ \A i \in 1 .. Len(r) : r[i] = q[i + k]
  OBVIOUS
<1>2. \A i \in A : i \in Nat /\ i + k \in B /\ i + k > k
  BY <1>1 DEF Carrying
<1>3. IsFiniteSet(B) /\ Cardinality(B) \in Nat /\ IsFiniteSet(A) /\ Cardinality(A) \in Nat
  <2>1. Len(q) \in Nat /\ Len(r) \in Nat
    BY <1>1
  <2> HIDE DEF r
  <2> QED
    BY <2>1, CountType DEF Count
<1>4. ASSUME NEW T, T \subseteq B, \A i \in A : i + k \in T
      PROVE  Cardinality(A) <= Cardinality(T) /\ IsFiniteSet(T)
  <2>1. f \in [A -> T]
    BY <1>4
  <2>2. \A i, j \in A : f[i] = f[j] => i = j
    BY <1>2
  <2>3. f \in Injection(A, T)
    BY <2>1, <2>2, Zenon DEF Injection, IsInjective
  <2>4. IsFiniteSet(T)
    BY <1>3, <1>4, FS_Subset
  <2> HIDE DEF f, A
  <2> QED
    BY <2>3, <2>4, FS_Injection
<1>5. Cardinality(A) <= Cardinality(B)
  BY <1>2, <1>4
<1>6. ASSUME n \in {NameIn(q[i]) : i \in 1 .. k}
      PROVE  Cardinality(A) + 1 <= Cardinality(B)
  <2>1. PICK j \in 1 .. k : n = NameIn(q[j])
    BY <1>6
  <2>2. j \in B
    BY <2>1 DEF Carrying
  <2>3. \A i \in A : i + k \in B \ {j}
    BY <1>2
  <2>4. Cardinality(A) <= Cardinality(B \ {j})
    BY <2>3, <1>4
  <2>5. Cardinality(B \ {j}) = Cardinality(B) - 1
    BY <2>2, <1>3, FS_RemoveElement
  <2> HIDE DEF A, B
  <2> QED
    BY <2>4, <2>5, <1>3
<1> QED
  BY <1>5, <1>6 DEF Count

(* Everything in the event is a name.                                       *)
NameInv == \A i \in 1 .. Len(queue) : NameIn(queue[i]) \in Names

(* Who holds the mutexes.                                                   *)
LockInv ==
    /\ lock = "poll" <=> pc \in {"poll", "wait"}
    /\ outerLock = "poll" <=> pc = "handling"
    /\ \A a \in Apps : outerLock = a <=> app[a] = "check"

(* The polling thread runs, and threads use the provider, while it lives.   *)
LifeInv ==
    /\ main \in {"made", "subscribed", "aborted"} => pc = "none" /\ pending = {}
    /\ main # "alive" => \A a \in Apps : app[a] = "idle"
    /\ main = "gone" => pc = "done"

BatchInv == pc \notin {"dispatch", "handle", "handling"} => batch = {}

LimitInv == IsFiniteSet(pending) /\ WithinLimit

(* Where a name still is that was sent and not yet handled.                 *)
Holds(set, n) == IF n \in set THEN 1 ELSE 0
CreditInv ==
    \A n \in Names : Count(queue, n) + Holds(pending, n) + Holds(batch, n) <= credit[n]

IInv == TypeOK /\ NameInv /\ LockInv /\ LifeInv /\ BatchInv /\ LimitInv /\ CreditInv

dataVars == <<limit, queue, pending, batch, credit>>

(* What concerns the names is kept by a step that does not touch them.      *)
LEMMA DataKept == IInv /\ UNCHANGED dataVars => NameInv' /\ LimitInv' /\ CreditInv'
BY DEF IInv, dataVars, NameInv, LimitInv, WithinLimit, CreditInv, Count, Carrying, Holds

(* How much is taken, and what: at most the slots that the limit leaves.    *)
LEMMA TakenFacts ==
    ASSUME IInv
    PROVE  /\ Taken \in 0 .. Len(queue) /\ TakenNames \subseteq Names
           /\ IsFiniteSet(TakenNames)
           /\ Cardinality(pending) + Cardinality(TakenNames) <= limit
<1>1. Len(queue) \in Nat /\ limit \in Nat
  BY EventAssumption DEF IInv, TypeOK
<1>2. Cardinality(pending) \in Nat /\ Cardinality(pending) <= limit
  BY FS_CardinalityType DEF IInv, LimitInv, WithinLimit
<1>3. Taken \in 0 .. Len(queue) /\ Cardinality(pending) + Taken <= limit
  BY <1>1, <1>2 DEF Taken, FreeSlots
<1>4. TakenNames \subseteq Names
  BY <1>1, <1>3 DEF IInv, NameInv, TakenNames
<1>5. IsFiniteSet(TakenNames) /\ Cardinality(TakenNames) <= Taken
  <2> DEFINE f == [i \in 1 .. Taken |-> NameIn(queue[i])]
  <2>1. f \in [1 .. Taken -> TakenNames] /\ \A n \in TakenNames : \E i \in 1 .. Taken : f[i] = n
    BY DEF TakenNames
  <2>2. f \in Surjection(1 .. Taken, TakenNames)
    BY <2>1, Zenon DEF Surjection
  <2>3. IsFiniteSet(1 .. Taken) /\ Cardinality(1 .. Taken) = Taken
    BY <1>1, <1>3, FS_Interval
  <2> HIDE DEF f
  <2> QED
    BY <2>2, <2>3, FS_Surjection
<1>6. Cardinality(TakenNames) \in Nat
  BY <1>5, FS_CardinalityType
<1> QED
  BY <1>1, <1>2, <1>3, <1>4, <1>5, <1>6

(* What is left of the event after the names were taken from it.            *)
LEMMA RestFacts ==
    ASSUME IInv, queue' = SubSeq(queue, Taken + 1, Len(queue))
    PROVE  /\ queue' \in Seq(Samples) /\ Len(queue') <= Slots /\ NameInv'
           /\ \A n \in Names : Count(queue', n) + Holds(TakenNames, n) <= Count(queue, n)
<1>1. queue \in Seq(Samples) /\ Len(queue) <= Slots /\ Slots \in Nat
  BY EventAssumption DEF IInv, TypeOK
<1>2. Taken \in 0 .. Len(queue)
  BY TakenFacts
<1>3. queue' \in Seq(Samples) /\ Len(queue') = Len(queue) - Taken
  BY <1>1, <1>2
<1>4. \A i \in 1 .. Len(queue') : queue'[i] = queue[i + Taken] /\ i + Taken \in 1 .. Len(queue)
  <2>1. Len(queue) \in Nat /\ Taken \in Nat
    BY <1>1, <1>2
  <2>2. ASSUME NEW i \in 1 .. Len(queue')
        PROVE  queue'[i] = queue[i + Taken]
    BY <1>1, <1>2, <1>3, <2>1, <2>2
  <2>3. ASSUME NEW i \in 1 .. Len(queue')
        PROVE  i + Taken \in 1 .. Len(queue)
    BY <1>2, <1>3, <2>1, <2>3
  <2> QED
    BY <2>2, <2>3
<1>5. NameInv'
  BY <1>4 DEF IInv, NameInv
<1>6. ASSUME NEW n \in Names
      PROVE  Count(queue', n) + Holds(TakenNames, n) <= Count(queue, n)
  <2>1. Count(queue', n) \in Nat /\ Count(queue, n) \in Nat
    <3>1. Len(queue') \in Nat /\ Len(queue) \in Nat
      BY <1>1, <1>3
    <3> QED
      BY <3>1, CountType
  <2>2. /\ Count(queue', n) <= Count(queue, n)
        /\ n \in TakenNames => Count(queue', n) + 1 <= Count(queue, n)
    BY <1>1, <1>2, CountOfRest DEF TakenNames
  <2> QED
    BY <2>1, <2>2 DEF Holds
<1> QED
  BY <1>1, <1>2, <1>3, <1>5, <1>6

(* The invariant holds when the provider is made.                           *)
LEMMA InitInv == Init => IInv
<1> SUFFICES ASSUME Init PROVE IInv
  OBVIOUS
<1>1. IsFiniteSet({}) /\ Cardinality({}) = 0
  BY FS_EmptySet
<1>2. \A n \in Names : Count(queue, n) = 0
  BY <1>1 DEF Init, Count, Carrying
<1>3. TypeOK
  <2>1. <<>> \in Seq(Samples) /\ Len(<<>>) = 0 /\ Slots \in Nat
    BY EventAssumption
  <2>2. credit \in [Names -> Int] /\ app \in [Apps -> {"idle", "check"}]
    BY DEF Init
  <2>3. sends \in 0 .. MaxSends /\ failures \in 0 .. MaxFailures
    BY EventAssumption DEF Init
  <2>4. queue \in Seq(Samples) /\ Len(queue) <= Slots
    BY <2>1, EventAssumption DEF Init
  <2> QED
    BY <2>2, <2>3, <2>4 DEF Init, TypeOK, Free
<1>4. NameInv /\ LockInv /\ LifeInv /\ BatchInv
  BY EventAssumption DEF Init, NameInv, LockInv, LifeInv, BatchInv, Free
<1>5. LimitInv
  BY <1>1, EventAssumption DEF Init, LimitInv, WithinLimit
<1>6. CreditInv
  BY <1>2 DEF Init, CreditInv, Holds
<1> QED
  BY <1>3, <1>4, <1>5, <1>6 DEF IInv

(* The invariant is kept by a send, ...                                     *)
LEMMA SendKeepsInv ==
    ASSUME IInv, NEW n \in Names, NEW memory \in Samples,
           SendLastUpdatedParameterSet(n, memory)
    PROVE  IInv'
<1> DEFINE sample == Copied(n, Cleared(memory))
<1>1. sample \in Samples /\ NameIn(sample) = n
  BY RoundTrip
<1>2. queue \in Seq(Samples) /\ Len(queue) <= Slots /\ Slots \in Nat \ {0}
  BY EventAssumption DEF IInv, TypeOK
<1>3. queue' = Delivered(sample) /\ credit' = [credit EXCEPT ![n] = @ + 1]
  BY DEF SendLastUpdatedParameterSet
<1>4. PICK q : /\ q \in Seq(Samples) /\ Len(q) < Slots
               /\ \A i \in 1 .. Len(q) : NameIn(q[i]) \in Names
               /\ \A m \in Names : Count(q, m) <= Count(queue, m)
               /\ queue' \in {queue, Append(q, sample)}
  <2> HIDE DEF sample
  <2>1. CASE Len(queue) < Slots
    <3>1. \A m \in Names : Count(queue, m) <= Count(queue, m)
      BY <1>2, CountType
    <3> QED
      BY <1>2, <1>3, <2>1, <3>1 DEF Delivered, IInv, NameInv
  <2>2. CASE ~(Len(queue) < Slots)
    <3> DEFINE t == SubSeq(queue, 1 + 1, Len(queue))
    <3>1. Len(queue) = Slots /\ 1 \in 0 .. Len(queue) /\ queue # <<>>
      BY <1>2, <2>2
    <3>2. t = Tail(queue) /\ t \in Seq(Samples) /\ Len(t) = Len(queue) - 1
      BY <1>2, <3>1
    <3>3. \A i \in 1 .. Len(t) : t[i] = queue[i + 1] /\ i + 1 \in 1 .. Len(queue)
      BY <1>2, <3>1, <3>2
    <3>4. \A m \in Names : Count(t, m) <= Count(queue, m)
      BY <1>2, <3>1, CountOfRest
    <3>5. queue' \in {queue, Append(t, sample)}
      BY <1>3, <2>2, <3>2 DEF Delivered
    <3> HIDE DEF t
    <3>6. Len(t) < Slots
      BY <1>2, <3>1, <3>2
    <3>7. \A i \in 1 .. Len(t) : NameIn(t[i]) \in Names
      BY <3>3 DEF IInv, NameInv
    <3> QED
      BY <3>2, <3>4, <3>5, <3>6, <3>7
  <2> QED
    BY <2>1, <2>2
<1> HIDE DEF sample
<1>5. queue' \in Seq(Samples) /\ Len(queue') <= Slots /\ NameInv'
  <2>1. CASE queue' = queue
    BY <1>2, <2>1 DEF IInv, NameInv
  <2>2. CASE queue' = Append(q, sample)
    <3>1. queue' \in Seq(Samples) /\ Len(queue') = Len(q) + 1
      BY <1>1, <1>4, <2>2
    <3>2. \A i \in 1 .. Len(queue') : queue'[i] = IF i <= Len(q) THEN q[i] ELSE sample
      BY <1>1, <1>4, <2>2
    <3>3. NameInv'
      BY <1>1, <1>4, <3>1, <3>2 DEF NameInv
    <3> QED
      BY <1>2, <1>4, <3>1, <3>3
  <2> QED
    BY <1>4, <2>1, <2>2
<1>6. TypeOK'
  BY <1>5, EventAssumption DEF SendLastUpdatedParameterSet, IInv, TypeOK, threadVars
<1>7. LockInv' /\ LifeInv' /\ BatchInv' /\ LimitInv'
  BY DEF SendLastUpdatedParameterSet, IInv, LockInv, LifeInv, BatchInv, LimitInv,
         WithinLimit, threadVars
<1>8. CreditInv'
  <2> SUFFICES ASSUME NEW m \in Names
               PROVE  (Count(queue, m) + Holds(pending, m) + Holds(batch, m) <= credit[m])'
    BY DEF CreditInv
  <2>1. Count(queue, m) + Holds(pending, m) + Holds(batch, m) <= credit[m]
    BY DEF IInv, CreditInv
  <2>2. Count(queue, m) \in Nat /\ Count(queue', m) \in Nat /\ Count(q, m) \in Nat
    BY <1>2, <1>4, <1>5, CountType
  <2>3. Count(queue', m) <= Count(queue, m) + (IF m = n THEN 1 ELSE 0)
    <3>1. Count(q, m) <= Count(queue, m)
      BY <1>4
    <3>2. CASE queue' = queue
      BY <2>2, <3>2
    <3>3. CASE queue' = Append(q, sample)
      <4>1. /\ Count(queue', m) <= Count(q, m) + 1
            /\ m # n => Count(queue', m) = Count(q, m)
        BY <1>1, <1>4, <3>3, CountOfAppend
      <4> QED
        BY <2>2, <3>1, <4>1
    <3> QED
      BY <1>4, <3>2, <3>3
  <2>4. credit'[m] = credit[m] + (IF m = n THEN 1 ELSE 0) /\ credit[m] \in Int
    BY <1>3 DEF IInv, TypeOK
  <2>5. Holds(pending', m) = Holds(pending, m) /\ Holds(batch', m) = Holds(batch, m)
    BY DEF SendLastUpdatedParameterSet, threadVars
  <2>6. Holds(pending, m) \in Nat /\ Holds(batch, m) \in Nat
    BY DEF Holds
  <2> QED
    BY <2>1, <2>2, <2>3, <2>4, <2>5, <2>6
<1> QED
  BY <1>5, <1>6, <1>7, <1>8 DEF IInv

(* ... by the setup and the stop, ...                                       *)
LEMMA LifeKeepsInv ==
    ASSUME IInv,
           TrySubscribe \/ Start \/ RequestStop
    PROVE  IInv'
<1>1. CASE TrySubscribe
  <2>1. TypeOK'
    BY <1>1, EventAssumption
       DEF IInv, TypeOK, TrySubscribe, Free, threadVars, historyVars
  <2>2. LockInv'
    BY <1>1, EventAssumption
       DEF IInv, TypeOK, LockInv, TrySubscribe, Free, threadVars, historyVars
  <2>3. LifeInv'
    BY <1>1, EventAssumption
       DEF IInv, TypeOK, LifeInv, TrySubscribe, Free, threadVars, historyVars
  <2>4. BatchInv'
    BY <1>1, EventAssumption
       DEF IInv, TypeOK, LifeInv, BatchInv, TrySubscribe, Free, threadVars, historyVars
  <2>5. UNCHANGED dataVars
    BY <1>1 DEF TrySubscribe, dataVars, threadVars, historyVars, IInv, BatchInv
  <2> QED
    BY <2>1, <2>2, <2>3, <2>4, <2>5, DataKept DEF IInv
<1>2. CASE Start
  <2>1. TypeOK'
    BY <1>2, EventAssumption
       DEF IInv, TypeOK, Start, Free, threadVars, historyVars
  <2>2. LockInv'
    BY <1>2, EventAssumption
       DEF IInv, TypeOK, LockInv, Start, Free, threadVars, historyVars
  <2>3. LifeInv'
    BY <1>2, EventAssumption
       DEF IInv, TypeOK, LifeInv, Start, Free, threadVars, historyVars
  <2>4. BatchInv'
    BY <1>2, EventAssumption
       DEF IInv, TypeOK, LifeInv, BatchInv, Start, Free, threadVars, historyVars
  <2>5. UNCHANGED dataVars
    BY <1>2 DEF Start, dataVars, threadVars, historyVars, IInv, BatchInv
  <2> QED
    BY <2>1, <2>2, <2>3, <2>4, <2>5, DataKept DEF IInv
<1>3. CASE RequestStop
  <2>1. TypeOK'
    BY <1>3, EventAssumption
       DEF IInv, TypeOK, RequestStop, Woken, Free, threadVars, historyVars
  <2>2. LockInv'
    BY <1>3, EventAssumption
       DEF IInv, TypeOK, LockInv, RequestStop, Woken, Free, threadVars, historyVars
  <2>3. LifeInv'
    BY <1>3, EventAssumption
       DEF IInv, TypeOK, LifeInv, RequestStop, Woken, Free, threadVars, historyVars
  <2>4. BatchInv'
    BY <1>3, EventAssumption
       DEF IInv, TypeOK, LifeInv, BatchInv, RequestStop, Woken, Free, threadVars, historyVars
  <2>5. UNCHANGED dataVars
    BY <1>3 DEF RequestStop, Woken, dataVars, threadVars, historyVars, IInv, BatchInv
  <2> QED
    BY <2>1, <2>2, <2>3, <2>4, <2>5, DataKept DEF IInv
<1> QED
  BY <1>1, <1>2, <1>3

(* ... by the end of the provider, ...                                      *)
LEMMA DestroyKeepsInv == IInv /\ Destroy => IInv'
<1> SUFFICES ASSUME IInv, Destroy PROVE IInv'
  OBVIOUS
<1>1. queue' = <<>> /\ \A n \in Names : Count(queue', n) = 0 /\ Count(queue, n) \in Nat
  <2>1. Carrying(<<>>, 0) = {} /\ \A n : Carrying(<<>>, n) = {}
    BY DEF Carrying
  <2>2. Len(queue) \in Nat
    BY DEF IInv, TypeOK
  <2> QED
    BY <2>1, <2>2, FS_EmptySet, CountType DEF Destroy, Count
<1>2. TypeOK' /\ NameInv'
  <2>1. <<>> \in Seq(Samples) /\ Len(<<>>) = 0 /\ Slots \in Nat
    BY EventAssumption
  <2>2. TypeOK'
    <3>1. queue' \in Seq(Samples) /\ Len(queue') <= Slots
      BY <1>1, <2>1, EventAssumption
    <3> QED
      BY <3>1 DEF IInv, TypeOK, Destroy, threadVars, historyVars
  <2> QED
    BY <1>1, <2>1, <2>2 DEF NameInv
<1>3. LockInv' /\ LifeInv' /\ BatchInv' /\ LimitInv'
  BY DEF IInv, LockInv, LifeInv, BatchInv, LimitInv, WithinLimit, Destroy, Joined,
         threadVars, historyVars
<1>4. CreditInv'
  <2> SUFFICES ASSUME NEW n \in Names
               PROVE  (Count(queue, n) + Holds(pending, n) + Holds(batch, n) <= credit[n])'
    BY DEF CreditInv
  <2>1. Count(queue, n) + Holds(pending, n) + Holds(batch, n) <= credit[n]
    BY DEF IInv, CreditInv
  <2>2. credit[n] \in Int /\ UNCHANGED <<pending, batch, credit>>
    BY DEF IInv, TypeOK, Destroy, threadVars, historyVars
  <2>3. Holds(pending, n) \in Nat /\ Holds(batch, n) \in Nat
    BY DEF Holds
  <2> QED
    BY <1>1, <2>1, <2>2, <2>3
<1> QED
  BY <1>2, <1>3, <1>4 DEF IInv

(* ... by CheckParameterSetUpdates, which locks ...                         *)
LEMMA CheckLocksKeepsInv ==
    ASSUME IInv, NEW a \in Apps,
           CheckLocks(a)
    PROVE  IInv'
<1>1. CASE CheckLocks(a)
  <2>1. TypeOK'
    BY <1>1, EventAssumption
       DEF IInv, TypeOK, CheckLocks, Free, threadVars, historyVars
  <2>2. LockInv'
    BY <1>1, EventAssumption
       DEF IInv, TypeOK, LockInv, CheckLocks, Free, threadVars, historyVars
  <2>3. LifeInv'
    BY <1>1, EventAssumption
       DEF IInv, TypeOK, LifeInv, CheckLocks, Free, threadVars, historyVars
  <2>4. BatchInv'
    BY <1>1, EventAssumption
       DEF IInv, TypeOK, LifeInv, BatchInv, CheckLocks, Free, threadVars, historyVars
  <2>5. UNCHANGED dataVars
    BY <1>1 DEF CheckLocks, dataVars, threadVars, historyVars, IInv, BatchInv
  <2> QED
    BY <2>1, <2>2, <2>3, <2>4, <2>5, DataKept DEF IInv
<1> QED
  BY <1>1

(* ... and takes samples, ...                                               *)
LEMMA CheckTakesKeepsInv == ASSUME IInv, NEW a \in Apps, CheckTakes(a) PROVE IInv'
<1>1. /\ limit' = limit /\ batch' = batch /\ credit' = credit /\ pc' \in {pc, NotifyOne}
      /\ main' = main /\ lock' = lock /\ outerLock' = Free /\ handling' = handling
      /\ stop' = stop /\ sends' = sends /\ app' = [app EXCEPT ![a] = "idle"]
      /\ app[a] = "check" /\ lock = Free /\ subscribed' = subscribed
  BY DEF CheckTakes
<1>2. LockInv'
  <2>1. outerLock = a /\ pc \notin {"poll", "wait"}
    BY <1>1, EventAssumption DEF IInv, LockInv, Free
  <2>2. outerLock # "poll" /\ pc' \notin {"poll", "wait", "handling"}
    BY <1>1, <2>1, EventAssumption DEF IInv, LockInv, NotifyOne, Woken
  <2> QED
    BY <1>1, <2>1, <2>2, EventAssumption DEF IInv, TypeOK, LockInv, Free
<1>3. BatchInv'
  BY <1>1 DEF IInv, TypeOK, BatchInv, NotifyOne, Woken
<1>4. CASE TakesSamples
  <2>1. pending' = pending \cup TakenNames /\ queue' = SubSeq(queue, Taken + 1, Len(queue))
    BY <1>4 DEF TakesSamples
  <2>2. /\ queue' \in Seq(Samples) /\ Len(queue') <= Slots /\ NameInv'
        /\ \A n \in Names : Count(queue', n) + Holds(TakenNames, n) <= Count(queue, n)
    BY <2>1, RestFacts
  <2>3. TypeOK'
    BY <1>1, <1>4, <2>1, <2>2, TakenFacts, EventAssumption
       DEF IInv, TypeOK, TakesSamples, NotifyOne, Woken, Free
  <2>4. LifeInv'
    BY <1>1 DEF IInv, TypeOK, LifeInv
  <2>5. LimitInv'
    <3>1. /\ IsFiniteSet(pending) /\ IsFiniteSet(TakenNames)
          /\ Cardinality(pending) + Cardinality(TakenNames) <= limit
      BY TakenFacts DEF IInv, LimitInv
    <3>2. /\ IsFiniteSet(pending') /\ IsFiniteSet(pending \cap TakenNames)
          /\ Cardinality(pending') = Cardinality(pending) + Cardinality(TakenNames)
                                     - Cardinality(pending \cap TakenNames)
      BY <2>1, <3>1, FS_Union, FS_Intersection
    <3>3. /\ Cardinality(pending) \in Nat /\ Cardinality(TakenNames) \in Nat
          /\ Cardinality(pending \cap TakenNames) \in Nat /\ limit \in Nat
      BY <3>1, <3>2, FS_CardinalityType, EventAssumption DEF IInv, TypeOK
    <3>4. Cardinality(pending') <= limit
      BY <3>1, <3>2, <3>3
    <3> QED
      BY <1>1, <3>2, <3>4 DEF LimitInv, WithinLimit
  <2>6. CreditInv'
    <3> SUFFICES ASSUME NEW n \in Names
                 PROVE  Count(queue', n) + Holds(pending', n) + Holds(batch', n) <= credit'[n]
      BY DEF CreditInv
    <3>1. Count(queue, n) + Holds(pending, n) + Holds(batch, n) <= credit[n]
      BY DEF IInv, CreditInv
    <3>2. Count(queue', n) \in Nat /\ Count(queue, n) \in Nat /\ credit[n] \in Int
      BY <2>2, CountType DEF IInv, TypeOK
    <3>3. Holds(pending', n) <= Holds(pending, n) + Holds(TakenNames, n)
      BY <2>1 DEF Holds
    <3>4. /\ Holds(pending, n) \in Nat /\ Holds(pending', n) \in Nat
          /\ Holds(batch, n) \in Nat /\ Holds(TakenNames, n) \in Nat
      BY DEF Holds
    <3>5. Count(queue', n) + Holds(TakenNames, n) <= Count(queue, n)
      BY <2>2
    <3>6. Holds(batch', n) = Holds(batch, n) /\ credit'[n] = credit[n]
      BY <1>1
    <3> QED
      BY <3>1, <3>2, <3>3, <3>4, <3>5, <3>6
  <2> QED
    BY <1>2, <1>3, <2>2, <2>3, <2>4, <2>5, <2>6 DEF IInv
<1>5. CASE TakingFails /\ UNCHANGED pc
  <2>1. UNCHANGED dataVars
    BY <1>1, <1>5 DEF TakingFails, dataVars
  <2>2. TypeOK' /\ LifeInv'
    BY <1>1, <1>5, EventAssumption
       DEF IInv, TypeOK, LifeInv, TakingFails, Free
  <2> QED
    BY <1>2, <1>3, <2>1, <2>2, DataKept DEF IInv
<1> QED
  BY <1>4, <1>5 DEF CheckTakes

(* ... and by the polling thread, which locks, fails to take, waits, ends, ...*)
LEMMA ThreadKeepsInv ==
    ASSUME IInv,
           Locks("lock", "poll") \/ Locks("relock", "wait") \/ Leaves \/ PollFails \/ WaitEnds \/ FallsAsleep \/ WakesUp \/ HandlerLocks \/ HandlerReturns
    PROVE  IInv'
<1>1. CASE Locks("lock", "poll")
  <2>1. TypeOK'
    BY <1>1, EventAssumption
       DEF IInv, TypeOK, Locks, Goes, Free, threadVars, historyVars
  <2>2. LockInv'
    BY <1>1, EventAssumption
       DEF IInv, TypeOK, LockInv, Locks, Goes, Free, threadVars, historyVars
  <2>3. LifeInv'
    BY <1>1, EventAssumption
       DEF IInv, TypeOK, LifeInv, Locks, Goes, Free, threadVars, historyVars
  <2>4. BatchInv'
    BY <1>1, EventAssumption
       DEF IInv, TypeOK, LifeInv, BatchInv, Locks, Goes, Free, threadVars, historyVars
  <2>5. UNCHANGED dataVars
    BY <1>1 DEF Locks, Goes, dataVars, threadVars, historyVars, IInv, BatchInv
  <2> QED
    BY <2>1, <2>2, <2>3, <2>4, <2>5, DataKept DEF IInv
<1>2. CASE Locks("relock", "wait")
  <2>1. TypeOK'
    BY <1>2, EventAssumption
       DEF IInv, TypeOK, Locks, Goes, Free, threadVars, historyVars
  <2>2. LockInv'
    BY <1>2, EventAssumption
       DEF IInv, TypeOK, LockInv, Locks, Goes, Free, threadVars, historyVars
  <2>3. LifeInv'
    BY <1>2, EventAssumption
       DEF IInv, TypeOK, LifeInv, Locks, Goes, Free, threadVars, historyVars
  <2>4. BatchInv'
    BY <1>2, EventAssumption
       DEF IInv, TypeOK, LifeInv, BatchInv, Locks, Goes, Free, threadVars, historyVars
  <2>5. UNCHANGED dataVars
    BY <1>2 DEF Locks, Goes, dataVars, threadVars, historyVars, IInv, BatchInv
  <2> QED
    BY <2>1, <2>2, <2>3, <2>4, <2>5, DataKept DEF IInv
<1>3. CASE Leaves
  <2>1. TypeOK'
    BY <1>3, EventAssumption
       DEF IInv, TypeOK, Leaves, Goes, Free, threadVars, historyVars
  <2>2. LockInv'
    BY <1>3, EventAssumption
       DEF IInv, TypeOK, LockInv, Leaves, Goes, Free, threadVars, historyVars
  <2>3. LifeInv'
    BY <1>3, EventAssumption
       DEF IInv, TypeOK, LifeInv, Leaves, Goes, Free, threadVars, historyVars
  <2>4. BatchInv'
    BY <1>3, EventAssumption
       DEF IInv, TypeOK, LifeInv, BatchInv, Leaves, Goes, Free, threadVars, historyVars
  <2>5. UNCHANGED dataVars
    BY <1>3 DEF Leaves, Goes, dataVars, threadVars, historyVars, IInv, BatchInv
  <2> QED
    BY <2>1, <2>2, <2>3, <2>4, <2>5, DataKept DEF IInv
<1>4. CASE PollFails
  <2>1. TypeOK'
    BY <1>4, EventAssumption
       DEF IInv, TypeOK, PollFails, TakingFails, Goes, Free, threadVars, historyVars
  <2>2. LockInv'
    BY <1>4, EventAssumption
       DEF IInv, TypeOK, LockInv, PollFails, TakingFails, Goes, Free, threadVars, historyVars
  <2>3. LifeInv'
    BY <1>4, EventAssumption
       DEF IInv, TypeOK, LifeInv, PollFails, TakingFails, Goes, Free, threadVars, historyVars
  <2>4. BatchInv'
    BY <1>4, EventAssumption
       DEF IInv, TypeOK, LifeInv, BatchInv, PollFails, TakingFails, Goes, Free, threadVars, historyVars
  <2>5. UNCHANGED dataVars
    BY <1>4 DEF PollFails, TakingFails, Goes, dataVars, threadVars, historyVars, IInv, BatchInv
  <2> QED
    BY <2>1, <2>2, <2>3, <2>4, <2>5, DataKept DEF IInv
<1>5. CASE WaitEnds
  <2>1. TypeOK'
    BY <1>5, EventAssumption
       DEF IInv, TypeOK, WaitEnds, Goes, Free, threadVars, historyVars
  <2>2. LockInv'
    BY <1>5, EventAssumption
       DEF IInv, TypeOK, LockInv, WaitEnds, Goes, Free, threadVars, historyVars
  <2>3. LifeInv'
    BY <1>5, EventAssumption
       DEF IInv, TypeOK, LifeInv, WaitEnds, Goes, Free, threadVars, historyVars
  <2>4. BatchInv'
    BY <1>5, EventAssumption
       DEF IInv, TypeOK, LifeInv, BatchInv, WaitEnds, Goes, Free, threadVars, historyVars
  <2>5. UNCHANGED dataVars
    BY <1>5 DEF WaitEnds, Goes, dataVars, threadVars, historyVars, IInv, BatchInv
  <2> QED
    BY <2>1, <2>2, <2>3, <2>4, <2>5, DataKept DEF IInv
<1>6. CASE FallsAsleep
  <2>1. TypeOK'
    BY <1>6, EventAssumption
       DEF IInv, TypeOK, FallsAsleep, Goes, Free, threadVars, historyVars
  <2>2. LockInv'
    BY <1>6, EventAssumption
       DEF IInv, TypeOK, LockInv, FallsAsleep, Goes, Free, threadVars, historyVars
  <2>3. LifeInv'
    BY <1>6, EventAssumption
       DEF IInv, TypeOK, LifeInv, FallsAsleep, Goes, Free, threadVars, historyVars
  <2>4. BatchInv'
    BY <1>6, EventAssumption
       DEF IInv, TypeOK, LifeInv, BatchInv, FallsAsleep, Goes, Free, threadVars, historyVars
  <2>5. UNCHANGED dataVars
    BY <1>6 DEF FallsAsleep, Goes, dataVars, threadVars, historyVars, IInv, BatchInv
  <2> QED
    BY <2>1, <2>2, <2>3, <2>4, <2>5, DataKept DEF IInv
<1>7. CASE WakesUp
  <2>1. TypeOK'
    BY <1>7, EventAssumption
       DEF IInv, TypeOK, WakesUp, Free, threadVars, historyVars
  <2>2. LockInv'
    BY <1>7, EventAssumption
       DEF IInv, TypeOK, LockInv, WakesUp, Free, threadVars, historyVars
  <2>3. LifeInv'
    BY <1>7, EventAssumption
       DEF IInv, TypeOK, LifeInv, WakesUp, Free, threadVars, historyVars
  <2>4. BatchInv'
    BY <1>7, EventAssumption
       DEF IInv, TypeOK, LifeInv, BatchInv, WakesUp, Free, threadVars, historyVars
  <2>5. UNCHANGED dataVars
    BY <1>7 DEF WakesUp, dataVars, threadVars, historyVars, IInv, BatchInv
  <2> QED
    BY <2>1, <2>2, <2>3, <2>4, <2>5, DataKept DEF IInv
<1>8. CASE HandlerLocks
  <2>1. TypeOK'
    BY <1>8, EventAssumption
       DEF IInv, TypeOK, HandlerLocks, Goes, Free, threadVars, historyVars
  <2>2. LockInv'
    BY <1>8, EventAssumption
       DEF IInv, TypeOK, LockInv, HandlerLocks, Goes, Free, threadVars, historyVars
  <2>3. LifeInv'
    BY <1>8, EventAssumption
       DEF IInv, TypeOK, LifeInv, HandlerLocks, Goes, Free, threadVars, historyVars
  <2>4. BatchInv'
    BY <1>8, EventAssumption
       DEF IInv, TypeOK, LifeInv, BatchInv, HandlerLocks, Goes, Free, threadVars, historyVars
  <2>5. UNCHANGED dataVars
    BY <1>8 DEF HandlerLocks, Goes, dataVars, threadVars, historyVars, IInv, BatchInv
  <2> QED
    BY <2>1, <2>2, <2>3, <2>4, <2>5, DataKept DEF IInv
<1>9. CASE HandlerReturns
  <2>1. TypeOK'
    BY <1>9, EventAssumption
       DEF IInv, TypeOK, HandlerReturns, Goes, Free, threadVars, historyVars
  <2>2. LockInv'
    BY <1>9, EventAssumption
       DEF IInv, TypeOK, LockInv, HandlerReturns, Goes, Free, threadVars, historyVars
  <2>3. LifeInv'
    BY <1>9, EventAssumption
       DEF IInv, TypeOK, LifeInv, HandlerReturns, Goes, Free, threadVars, historyVars
  <2>4. BatchInv'
    BY <1>9, EventAssumption
       DEF IInv, TypeOK, LifeInv, BatchInv, HandlerReturns, Goes, Free, threadVars, historyVars
  <2>5. UNCHANGED dataVars
    BY <1>9 DEF HandlerReturns, Goes, dataVars, threadVars, historyVars, IInv, BatchInv
  <2> QED
    BY <2>1, <2>2, <2>3, <2>4, <2>5, DataKept DEF IInv
<1> QED
  BY <1>1, <1>2, <1>3, <1>4, <1>5, <1>6, <1>7, <1>8, <1>9

(* ... takes names to dispatch them, ...                                    *)
LEMMA PollsKeepsInv == IInv /\ Polls => IInv'
<1> SUFFICES ASSUME IInv, Polls PROVE IInv'
  OBVIOUS
<1>1. /\ batch' = pending \cup TakenNames /\ pending' = {} /\ batch = {}
      /\ queue' = SubSeq(queue, Taken + 1, Len(queue)) /\ credit' = credit
  BY DEF Polls, AfterSwap, IInv, BatchInv, historyVars
<1>2. /\ queue' \in Seq(Samples) /\ Len(queue') <= Slots /\ NameInv'
      /\ \A n \in Names : Count(queue', n) + Holds(TakenNames, n) <= Count(queue, n)
  BY <1>1, RestFacts
<1>3. TypeOK'
  BY <1>1, <1>2, TakenFacts, EventAssumption
     DEF IInv, TypeOK, Polls, Goes, Unlocked, historyVars, Free
<1>4. LockInv' /\ LifeInv' /\ BatchInv'
  BY EventAssumption
     DEF IInv, TypeOK, LockInv, LifeInv, BatchInv, Polls, AfterSwap, Goes, Unlocked, Free
<1>5. LimitInv'
  <2>1. limit' = limit /\ limit \in Nat
    BY EventAssumption DEF IInv, TypeOK, Polls
  <2> QED
    BY <1>1, <2>1, FS_EmptySet DEF LimitInv, WithinLimit
<1>6. CreditInv'
  <2> SUFFICES ASSUME NEW n \in Names
               PROVE  Count(queue', n) + Holds(pending', n) + Holds(batch', n) <= credit'[n]
    BY DEF CreditInv
  <2>1. Count(queue, n) + Holds(pending, n) + Holds(batch, n) <= credit[n]
    BY DEF IInv, CreditInv
  <2>2. Count(queue', n) \in Nat /\ Count(queue, n) \in Nat /\ credit[n] \in Int
    BY <1>2, CountType DEF IInv, TypeOK
  <2>3. /\ Holds(batch', n) <= Holds(pending, n) + Holds(TakenNames, n)
        /\ Holds(pending', n) = 0 /\ Holds(batch, n) = 0
    BY <1>1 DEF Holds
  <2>4. /\ Holds(pending, n) \in Nat /\ Holds(batch', n) \in Nat
        /\ Holds(TakenNames, n) \in Nat
    BY DEF Holds
  <2>5. Count(queue', n) + Holds(TakenNames, n) <= Count(queue, n)
    BY <1>2
  <2>6. credit'[n] = credit[n]
    BY <1>1
  <2> QED
    BY <2>1, <2>2, <2>3, <2>4, <2>5, <2>6
<1> QED
  BY <1>2, <1>3, <1>4, <1>5, <1>6 DEF IInv

(* ... calls the handler and leaves the names behind when it has to stop.   *)
LEMMA DispatchKeepsInv ==
    IInv /\ (DispatchEnds \/ \E n \in batch : CallHandler(n)) => IInv'
<1> SUFFICES ASSUME IInv, DispatchEnds \/ \E n \in batch : CallHandler(n) PROVE IInv'
  OBVIOUS
<1>1. TypeOK'
  <2>1. batch \subseteq Names
    BY DEF IInv, TypeOK
  <2>2. CASE DispatchEnds
    BY <2>2 DEF IInv, TypeOK, DispatchEnds, Goes, historyVars
  <2>3. CASE \E n \in batch : CallHandler(n)
    BY <2>1, <2>3 DEF IInv, TypeOK, CallHandler, Goes
  <2> QED
    BY <2>2, <2>3
<1>2. NameInv' /\ LimitInv'
  BY DEF IInv, NameInv, LimitInv, WithinLimit, DispatchEnds, CallHandler, historyVars
<1>3. LockInv' /\ LifeInv' /\ BatchInv'
  BY DEF IInv, TypeOK, LockInv, LifeInv, BatchInv, DispatchEnds, CallHandler, Goes
<1>4. CreditInv'
  <2> SUFFICES ASSUME NEW m \in Names
               PROVE  Count(queue', m) + Holds(pending', m) + Holds(batch', m) <= credit'[m]
    BY DEF CreditInv
  <2>1. Count(queue, m) + Holds(pending, m) + Holds(batch, m) <= credit[m]
    BY DEF IInv, CreditInv
  <2>2. UNCHANGED <<queue, pending>>
    BY DEF DispatchEnds, CallHandler
  <2>3. Count(queue, m) \in Nat /\ credit[m] \in Int
    BY CountType DEF IInv, TypeOK
  <2>4. Holds(batch', m) - Holds(batch, m) <= credit'[m] - credit[m]
    <3>1. CASE DispatchEnds
      BY <2>3, <3>1 DEF DispatchEnds, Holds, historyVars
    <3>2. ASSUME NEW n \in batch, CallHandler(n)
          PROVE  Holds(batch', m) - Holds(batch, m) <= credit'[m] - credit[m]
      <4>1. batch' = batch \ {n} /\ credit'[m] = IF m = n THEN credit[m] - 1 ELSE credit[m]
        BY <3>2 DEF CallHandler, IInv, TypeOK
      <4> QED
        BY <2>3, <4>1 DEF Holds
    <3> QED
      BY <3>1, <3>2
  <2>5. Holds(pending, m) \in Nat /\ Holds(batch, m) \in Nat /\ Holds(batch', m) \in Nat
    BY DEF Holds
  <2>6. credit'[m] \in Int
    BY <1>1 DEF TypeOK
  <2>7. Count(queue', m) = Count(queue, m) /\ Holds(pending', m) = Holds(pending, m)
    BY <2>2
  <2> QED
    BY <2>1, <2>3, <2>4, <2>5, <2>6, <2>7
<1> QED
  BY <1>1, <1>2, <1>3, <1>4 DEF IInv

(* The inductive invariant holds in every reachable state.                  *)
THEOREM EventInvariance == Spec => []IInv
<1>1. IInv /\ [Next]_vars => IInv'
  <2> SUFFICES ASSUME IInv, [Next]_vars PROVE IInv'
    OBVIOUS
  <2>1. CASE UNCHANGED vars
    <3>1. UNCHANGED dataVars
      BY <2>1 DEF vars, dataVars, threadVars, historyVars
    <3>2. TypeOK' /\ LockInv' /\ LifeInv' /\ BatchInv'
      BY <2>1 DEF vars, threadVars, historyVars, IInv, TypeOK, LockInv, LifeInv, BatchInv
    <3> QED
      BY <3>1, <3>2, DataKept DEF IInv
  <2>2. CASE Next
    BY <2>2, SendKeepsInv, LifeKeepsInv, DestroyKeepsInv, CheckLocksKeepsInv,
       CheckTakesKeepsInv, ThreadKeepsInv, PollsKeepsInv, DispatchKeepsInv
       DEF Next, PollingThread
  <2> QED
    BY <2>1, <2>2
<1> QED
  BY InitInv, <1>1, PTL DEF Spec

-----------------------------------------------------------------------------
(* Every variable keeps its type: the name of a set comes through the       *)
(* sample whole, up to the full size of the sample.                         *)
THEOREM EventTypeCorrect == Spec => []TypeOK
<1>1. IInv => TypeOK
  BY DEF IInv
<1> QED
  BY EventInvariance, <1>1, PTL

(* The handler is called for what was sent, and not twice.                  *)
THEOREM NoInventedUpdate == Spec => []DispatchedWasSent
<1>1. IInv => DispatchedWasSent
  <2> SUFFICES ASSUME IInv, NEW n \in Names PROVE credit[n] >= 0
    BY DEF DispatchedWasSent
  <2>1. Count(queue, n) + Holds(pending, n) + Holds(batch, n) <= credit[n]
    BY DEF IInv, CreditInv
  <2>2. Count(queue, n) \in Nat /\ credit[n] \in Int
    BY CountType DEF IInv, TypeOK
  <2>3. Holds(pending, n) \in Nat /\ Holds(batch, n) \in Nat
    BY DEF Holds
  <2> QED
    BY <2>1, <2>2, <2>3
<1> QED
  BY EventInvariance, <1>1, PTL

(* The precondition on the limit holds whenever samples are taken.          *)
THEOREM LimitIsKept == Spec => []WithinLimit
<1>1. IInv => WithinLimit
  BY DEF IInv, LimitInv
<1> QED
  BY EventInvariance, <1>1, PTL

(* Nothing goes on after the destructor.                                    *)
THEOREM EventGoneIsGone == Spec => []NothingAfterGone
<1>1. IInv => NothingAfterGone
  BY DEF IInv, TypeOK, LockInv, LifeInv, NothingAfterGone, Free
<1> QED
  BY EventInvariance, <1>1, PTL

(* Who waits for InternalConfigProvider's mutex with ConfigProviderImpl's   *)
(* in hand waits at most for the polling thread where that needs neither;   *)
(* who waits for ConfigProviderImpl's has InternalConfigProvider's not.     *)
NeverCrosswise ==
    /\ \A a \in Apps : app[a] = "check" => lock = Free \/ pc \in {"poll", "wait"}
    /\ pc = "handle" => lock = Free
    /\ outerLock # Free => pc = "handling" \/ \E a \in Apps : app[a] = "check"

(* The two mutexes are never waited for crosswise.                          *)
THEOREM LocksAreOrdered == Spec => []NeverCrosswise
<1>1. IInv => NeverCrosswise
  BY DEF IInv, TypeOK, LockInv, NeverCrosswise
<1> QED
  BY EventInvariance, <1>1, PTL

-----------------------------------------------------------------------------
(***************************************************************************)
(* The channel of names.  A sample carries its name whole (RoundTrip), so  *)
(* the names in the queue move as its samples do.                          *)
(***************************************************************************)
Observed == <<limit, subscribed, Kept, pending, batch, handling, stop>>

(* The handler is being called only where the thread has called it, a       *)
(* subscription is made once, and the end comes after the stop.             *)
UsageInv ==
    /\ pc \notin {"handle", "handling"} => handling = {}
    /\ main = "made" => subscribed = FALSE
    /\ main \in {"stopping", "gone"} => stop

LEMMA UsageStep == IInv /\ UsageInv /\ [Next]_vars => UsageInv'
<1> SUFFICES ASSUME IInv, UsageInv, [Next]_vars PROVE UsageInv'
  OBVIOUS
<1> USE DEF UsageInv, threadVars, historyVars, Woken, NotifyOne, Goes
<1>1. CASE \E n \in batch : CallHandler(n)
  BY <1>1 DEF CallHandler
<1>2. CASE HandlerReturns
  BY <1>2 DEF HandlerReturns
<1>3. CASE Polls \/ DispatchEnds \/ PollFails \/ Leaves
  BY <1>3 DEF Polls, DispatchEnds, PollFails, Leaves
<1>4. CASE WaitEnds \/ FallsAsleep \/ WakesUp \/ Locks("lock", "poll") \/ Locks("relock", "wait")
  BY <1>4 DEF WaitEnds, FallsAsleep, WakesUp, Locks
<1>5. CASE HandlerLocks
  BY <1>5 DEF HandlerLocks
<1>6. CASE TrySubscribe \/ Start \/ RequestStop \/ Destroy
  BY <1>6 DEF TrySubscribe, Start, RequestStop, Destroy, IInv, LifeInv
<1>7. ASSUME NEW a \in Apps, CheckLocks(a) \/ CheckTakes(a)
      PROVE  UsageInv'
  BY <1>7 DEF CheckLocks, CheckTakes
<1>8. ASSUME NEW n \in Names, NEW memory \in Samples, SendLastUpdatedParameterSet(n, memory)
      PROVE  UsageInv'
  BY <1>8 DEF SendLastUpdatedParameterSet
<1>9. CASE UNCHANGED vars
  BY <1>9 DEF vars
<1> QED
  BY <1>1, <1>2, <1>3, <1>4, <1>5, <1>6, <1>7, <1>8, <1>9 DEF Next, PollingThread

(* The names kept are as many as the samples.                               *)
LEMMA KeptFacts ==
    ASSUME IInv
    PROVE  /\ Kept \in Seq(Names) /\ Len(Kept) = Len(queue) /\ Len(queue) \in Nat
           /\ \A i \in 1 .. Len(queue) : Kept[i] = NameIn(queue[i])
<1>1. Len(queue) \in Nat
  BY DEF IInv, TypeOK
<1>2. \A i \in 1 .. Len(queue) : NameIn(queue[i]) \in Names
  BY DEF IInv, NameInv
<1> QED
  BY <1>1, <1>2 DEF Kept

(* Taking samples takes the first names and leaves the others as they are.  *)
LEMMA NamesTaken ==
    ASSUME IInv, queue' = SubSeq(queue, Taken + 1, Len(queue))
    PROVE  /\ Taken \in 0 .. Len(Kept)
           /\ Channel!Remove(Taken)
           /\ TakenNames = Channel!First(Taken)
<1>1. Taken \in 0 .. Len(queue) /\ Len(Kept) = Len(queue) /\ Len(queue) \in Nat
  BY TakenFacts, KeptFacts
<1>2. queue \in Seq(Samples) /\ Kept \in Seq(Names)
  BY KeptFacts DEF IInv, TypeOK
<1>3. /\ Len(queue') = Len(queue) - Taken
      /\ \A i \in 1 .. Len(queue') : queue'[i] = queue[i + Taken]
  BY <1>1, <1>2
<1>4. Kept' = SubSeq(Kept, Taken + 1, Len(Kept))
  <2>1. Kept' = [i \in 1 .. Len(queue') |-> NameIn(queue'[i])]
    BY DEF Kept
  <2>2. Kept' = [i \in 1 .. (Len(queue) - Taken) |-> Kept[i + Taken]]
    <3>1. ASSUME NEW i \in 1 .. (Len(queue) - Taken)
          PROVE  NameIn(queue'[i]) = Kept[i + Taken]
      <4>1. i \in 1 .. Len(queue') /\ i + Taken \in 1 .. Len(queue)
        BY <1>1, <1>3
      <4>2. queue'[i] = queue[i + Taken]
        BY <1>3, <4>1
      <4>3. Kept[i + Taken] = NameIn(queue[i + Taken])
        BY <4>1, KeptFacts
      <4> QED
        BY <4>2, <4>3
    <3>2. 1 .. Len(queue') = 1 .. (Len(queue) - Taken)
      BY <1>3
    <3> QED
      BY <2>1, <3>1, <3>2
  <2>3. SubSeq(Kept, Taken + 1, Len(Kept)) =
            [i \in 1 .. (Len(queue) - Taken) |-> Kept[i + Taken]]
    BY <1>1, <1>2
  <2> QED
    BY <2>2, <2>3
<1>5. TakenNames = {Kept[i] : i \in 1 .. Taken}
  BY <1>1, KeptFacts DEF TakenNames
<1> QED
  BY <1>1, <1>4, <1>5 DEF Channel!Remove, Channel!First

(* The channel counts as this module does.                                  *)
LEMMA SameCardinality == \A S : Channel!Cardinality(S) = Cardinality(S)
BY DEF Channel!Cardinality, Cardinality

(* What waits after the taking is within the limit.                         *)
LEMMA TakenWithinLimit ==
    ASSUME IInv PROVE Channel!Cardinality(pending \cup TakenNames) <= limit
<1>1. /\ IsFiniteSet(pending) /\ IsFiniteSet(TakenNames)
      /\ Cardinality(pending) + Cardinality(TakenNames) <= limit
  BY TakenFacts DEF IInv, LimitInv
<1>2. /\ IsFiniteSet(pending \cap TakenNames)
      /\ Cardinality(pending \cup TakenNames) = Cardinality(pending) + Cardinality(TakenNames)
                                 - Cardinality(pending \cap TakenNames)
  BY <1>1, FS_Union, FS_Intersection
<1>3. /\ Cardinality(pending) \in Nat /\ Cardinality(TakenNames) \in Nat
      /\ Cardinality(pending \cap TakenNames) \in Nat /\ limit \in Nat
  BY <1>1, <1>2, FS_CardinalityType, EventAssumption DEF IInv, TypeOK
<1>4. Cardinality(pending \cup TakenNames) <= limit
  BY <1>1, <1>2, <1>3
<1> QED
  BY <1>4, SameCardinality

(* A sample that is sent appends the name to the names kept.                *)
LEMMA SendRefines ==
    ASSUME IInv, NEW n \in Names, NEW memory \in Samples,
           SendLastUpdatedParameterSet(n, memory)
    PROVE  Channel!SendName(n)
<1> DEFINE sample == Copied(n, Cleared(memory))
<1>1. sample \in Samples /\ NameIn(sample) = n
  BY RoundTrip
<1>2. queue' = Delivered(sample) /\ UNCHANGED <<limit, subscribed, pending, batch, handling, stop>>
  BY DEF SendLastUpdatedParameterSet, threadVars
<1> HIDE DEF sample
<1>3. queue \in Seq(Samples) /\ Kept \in Seq(Names) /\ Len(Kept) = Len(queue)
  BY KeptFacts DEF IInv, TypeOK
<1>4. ASSUME NEW q \in Seq(Samples), NEW k \in Seq(Names), Len(k) = Len(q),
             \A i \in 1 .. Len(q) : k[i] = NameIn(q[i]),
             queue' = Append(q, sample)
      PROVE  Kept' = Append(k, n)
  <2>1. Kept' = [i \in 1 .. (Len(q) + 1) |-> NameIn(Append(q, sample)[i])]
    BY <1>1, <1>4 DEF Kept
  <2>2. /\ Append(k, n) \in Seq(Names) /\ Len(Append(k, n)) = Len(q) + 1
        /\ \A i \in 1 .. (Len(q) + 1) :
              Append(k, n)[i] = IF i <= Len(q) THEN k[i] ELSE n
    BY <1>4
  <2>3. \A i \in 1 .. (Len(q) + 1) :
            NameIn(Append(q, sample)[i]) = IF i <= Len(q) THEN k[i] ELSE n
    BY <1>1, <1>4
  <2>4. \A i \in 1 .. (Len(q) + 1) : Kept'[i] = Append(k, n)[i] /\ Kept'[i] \in Names
    BY <1>4, <2>1, <2>2, <2>3
  <2>5. Kept' \in Seq(Names) /\ Len(Kept') = Len(q) + 1
    BY <1>4, <2>1, <2>4
  <2> QED
    BY <2>2, <2>4, <2>5
<1>5. Kept' = IF subscribed THEN Append(Channel!MakeRoom, n) ELSE Kept
  <2>1. CASE ~subscribed
    BY <1>2, <2>1 DEF Delivered, Kept
  <2>2. CASE subscribed /\ Len(queue) < Slots
    <3>1. queue' = Append(queue, sample) /\ Channel!MakeRoom = Kept
      BY <1>2, <1>3, <2>2 DEF Delivered, Channel!MakeRoom
    <3> QED
      BY <1>3, <1>4, <2>2, <3>1, KeptFacts
  <2>3. CASE subscribed /\ ~(Len(queue) < Slots)
    <3>1. queue' = Append(Tail(queue), sample) /\ Channel!MakeRoom = Tail(Kept)
      BY <1>2, <1>3, <2>3 DEF Delivered, Channel!MakeRoom
    <3>2. Len(queue) # 0 /\ Len(queue) \in Nat
      BY <2>3, KeptFacts, EventAssumption DEF IInv, TypeOK
    <3>3. queue # <<>> /\ Kept # <<>>
      BY <1>3, <3>2
    <3>4. /\ Tail(queue) \in Seq(Samples) /\ Tail(Kept) \in Seq(Names)
          /\ Len(Tail(queue)) = Len(queue) - 1 /\ Len(Tail(Kept)) = Len(queue) - 1
          /\ \A i \in 1 .. (Len(queue) - 1) : Tail(Kept)[i] = Kept[i + 1] /\ Tail(queue)[i] = queue[i + 1]
      BY <1>3, <3>3
    <3>5. \A i \in 1 .. Len(Tail(queue)) : Tail(Kept)[i] = NameIn(Tail(queue)[i])
      BY <3>2, <3>4, KeptFacts
    <3> QED
      BY <1>4, <2>3, <3>1, <3>4, <3>5
  <2> QED
    BY <2>1, <2>2, <2>3
<1> QED
  BY <1>2, <1>5 DEF Channel!SendName

(* The steps that take names, on the polling thread and in a check.         *)
LEMMA TakeRefines ==
    ASSUME IInv, NEW a \in Apps, CheckTakes(a)
    PROVE  [Channel!ChannelNext]_Observed
<1>1. UNCHANGED <<limit, subscribed, batch, handling, stop>>
  BY DEF CheckTakes
<1>2. CASE TakesSamples
  <2>1. /\ pending' = pending \cup TakenNames
        /\ Taken \in 0 .. Len(Kept) /\ Channel!Remove(Taken)
        /\ TakenNames = Channel!First(Taken)
    BY <1>2, NamesTaken DEF TakesSamples
  <2>2. Channel!Take
    BY <1>1, <2>1, TakenWithinLimit DEF Channel!Take
  <2> QED
    BY <2>2 DEF Channel!ChannelNext
<1>3. CASE TakingFails
  BY <1>1, <1>3 DEF TakingFails, Observed, Kept
<1> QED
  BY <1>2, <1>3 DEF CheckTakes

LEMMA PollRefines ==
    ASSUME IInv, UsageInv, Polls PROVE Channel!BeginRound
<1>1. /\ ~stop /\ batch = {} /\ handling = {}
      /\ batch' = pending \cup TakenNames /\ pending' = {}
      /\ queue' = SubSeq(queue, Taken + 1, Len(queue))
      /\ UNCHANGED <<limit, subscribed, handling, stop>>
  BY DEF Polls, AfterSwap, IInv, BatchInv, UsageInv
<1>2. /\ Taken \in 0 .. Len(Kept) /\ Channel!Remove(Taken)
      /\ TakenNames = Channel!First(Taken)
  BY <1>1, NamesTaken
<1> QED
  BY <1>1, <1>2, TakenWithinLimit DEF Channel!BeginRound

(* Every other step is one of the channel's or changes no name.             *)
LEMMA ChannelStep ==
    ASSUME IInv, UsageInv, [Next]_vars PROVE [Channel!ChannelNext]_Observed
<1> USE DEF threadVars, historyVars
<1>1. ASSUME NEW n \in Names, NEW memory \in Samples, SendLastUpdatedParameterSet(n, memory)
      PROVE  [Channel!ChannelNext]_Observed
  BY <1>1, SendRefines DEF Channel!ChannelNext
<1>2. CASE TrySubscribe
  <2>1. subscribed' = subscribed \/ subscribed' = TRUE
    BY <1>2 DEF TrySubscribe, UsageInv
  <2>2. UNCHANGED <<limit, Kept, pending, batch, handling, stop>>
    BY <1>2 DEF TrySubscribe, Kept
  <2> QED
    BY <2>1, <2>2 DEF Observed, Channel!ChannelNext, Channel!Subscribe
<1>3. CASE Start
  BY <1>3 DEF Start, Observed, Kept
<1>4. CASE RequestStop
  <2>1. Channel!Stop
    BY <1>4 DEF RequestStop, Kept, Channel!Stop
  <2> QED
    BY <2>1 DEF Channel!ChannelNext
<1>5. CASE Destroy
  <2>1. stop /\ queue' = <<>>
    BY <1>5 DEF Destroy, UsageInv
  <2>2. Kept' = <<>>
    BY <2>1 DEF Kept
  <2>3. Channel!Close
    BY <1>5, <2>1, <2>2 DEF Destroy, Channel!Close
  <2> QED
    BY <2>3 DEF Channel!ChannelNext
<1>6. ASSUME NEW a \in Apps, CheckLocks(a)
      PROVE  [Channel!ChannelNext]_Observed
  BY <1>6 DEF CheckLocks, Observed, Kept
<1>7. ASSUME NEW a \in Apps, CheckTakes(a)
      PROVE  [Channel!ChannelNext]_Observed
  BY <1>7, TakeRefines
<1>8. CASE Polls
  BY <1>8, PollRefines DEF Channel!ChannelNext
<1>9. CASE DispatchEnds
  <2>1. CASE batch = {}
    BY <1>9, <2>1 DEF DispatchEnds, Observed, Kept
  <2>2. CASE stop
    <3>1. Channel!Abandon
      BY <1>9, <2>2 DEF DispatchEnds, Kept, Channel!Abandon
    <3> QED
      BY <3>1 DEF Channel!ChannelNext
  <2> QED
    BY <1>9, <2>1, <2>2 DEF DispatchEnds
<1>10. ASSUME NEW n \in batch, CallHandler(n)
       PROVE  [Channel!ChannelNext]_Observed
  <2>1. handling = {} /\ n \in Names
    BY <1>10 DEF CallHandler, UsageInv, IInv, TypeOK
  <2>2. Channel!Treat(n)
    BY <1>10, <2>1 DEF CallHandler, Kept, Channel!Treat
  <2> QED
    BY <2>1, <2>2 DEF Channel!ChannelNext
<1>11. CASE HandlerReturns
  <2>1. Channel!Treated
    BY <1>11 DEF HandlerReturns, Kept, Channel!Treated
  <2> QED
    BY <2>1 DEF Channel!ChannelNext
<1>12. CASE Locks("lock", "poll") \/ Locks("relock", "wait") \/ Leaves \/ WaitEnds
  BY <1>12 DEF Locks, Leaves, WaitEnds, Observed, Kept
<1>13. CASE FallsAsleep \/ PollFails \/ HandlerLocks \/ WakesUp
  BY <1>13 DEF FallsAsleep, PollFails, TakingFails, HandlerLocks, WakesUp, Observed, Kept
<1>14. CASE UNCHANGED vars
  BY <1>14 DEF vars, Observed, Kept
<1> QED
  BY <1>1, <1>2, <1>3, <1>4, <1>5, <1>6, <1>7, <1>8, <1>9, <1>10, <1>11, <1>12,
     <1>13, <1>14 DEF Next, PollingThread

(* For names no longer than a sample (the sender's copy checks nothing) the *)
(* event implements the channel: no name is changed, invented, treated      *)
(* twice or left, except where the channel says so.                         *)
THEOREM EventIsChannel == Spec => ChannelSpec
<1>1. Init => Channel!ChannelInit
  <2> SUFFICES ASSUME Init PROVE Channel!ChannelInit
    OBVIOUS
  <2>1. Kept = <<>>
    BY DEF Init, Kept
  <2>2. limit \in Nat
    BY EventAssumption DEF Init
  <2> QED
    BY <2>1, <2>2 DEF Init, Channel!ChannelInit
<1>2. Init => UsageInv
  BY DEF Init, UsageInv
<1>3. IInv /\ UsageInv /\ [Next]_vars => [Channel!ChannelNext]_Observed
  BY ChannelStep
<1> QED
  BY <1>1, <1>2, <1>3, UsageStep, EventInvariance, PTL
     DEF Spec, ChannelSpec, Channel!ChannelSpec, Observed, Channel!vars
=============================================================================
