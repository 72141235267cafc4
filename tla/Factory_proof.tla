----------------------------- MODULE Factory_proof -----------------------------
(***************************************************************************)
(* Proofs about Factory: with the factory around it the provider still     *)
(* takes the steps of Connection, and so keeps what is proved of that.     *)
(***************************************************************************)
EXTENDS Factory, Connection_proof

(* Create only lets the provider take steps of its own: under the factory a *)
(* provider is connected, waited for and destroyed as Connection has it.    *)
THEOREM FactoryUsesConnection == FSpec => Spec
<1>1. FInit => Init
  BY DEF FInit
<1>2. [FNext]_fvars => [Next]_vars
  <2> SUFFICES ASSUME [FNext]_fvars PROVE [Next]_vars
    OBVIOUS
  <2>1. CASE Constructs
    BY <2>1 DEF Constructs, Next
  <2>2. CASE CreateWaits
    BY <2>2, CreatorAssumption DEF CreateWaits, Next
  <2>3. CASE CreateGoesOn
    BY <2>3, CreatorAssumption DEF CreateGoesOn, Next, WaitUntilConnected
  <2>4. CASE CreateEnds
    BY <2>4, CreatorAssumption DEF CreateEnds, Next, WaitUntilConnected
  <2>5. CASE Uses
    BY <2>5 DEF Uses, Users, Next
  <2>6. CASE RunsOn
    BY <2>6 DEF RunsOn, Next
  <2>7. CASE UNCHANGED fvars
    BY <2>7 DEF fvars
  <2> QED
    BY <2>1, <2>2, <2>3, <2>4, <2>5, <2>6, <2>7 DEF FNext
<1> QED
  BY <1>1, <1>2, PTL DEF FSpec, Spec

(* No wakeup of the provider is lost that Create or a user waits for, and   *)
(* the stop callback finds its thread, also when the stop comes in Create;  *)
(* nothing outlives the destructor.                                         *)
THEOREM FactoryWakes ==
    FSpec => [](NoLostWakeup /\ StopCallbackHasThread /\ NothingAfterGone)
BY FactoryUsesConnection, WakeupsArrive, CallbackIsSafe, GoneIsGone, PTL

(* Whoever waits, in Create or after it, agrees on the connection.          *)
THEOREM FactoryAnswersAgree == FSpec => AnswersAgree
BY FactoryUsesConnection, AnswersDoAgree, PTL
=============================================================================
