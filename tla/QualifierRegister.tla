-------------------------- MODULE QualifierRegister --------------------------
(***************************************************************************)
(* What the ConfigProvider promises of the InitialQualifierState, without  *)
(* its two mutexes and the steps between them: the newest state that has   *)
(* arrived is a register that every call reads at once.  The first read    *)
(* that finds a final state settles what later calls are told; a call that *)
(* looked before may still read the register, but no application thread    *)
(* does so once it was told a final state.                                 *)
(***************************************************************************)
EXTENDS Naturals, Sequences

CONSTANTS
    Clients,
    States,      \* the states of the field
    Final,       \* those that settle the register
    Unset,       \* the reading before anything is known
    FirstStates  \* what may be read before a state has arrived

VARIABLES
    sent,       \* the states of the field, oldest first
    newest,     \* the newest reading: a state and its place in sent
    settled,    \* the reading later calls are told, or Unset
    published,  \* the application can ask the provider
    answer      \* what each application thread was told last

vars == <<sent, newest, settled, published, answer>>

RInit ==
    /\ sent \in {<<s>> : s \in States}
    /\ newest \in [state : FirstStates, at : {0}]
    /\ settled = Unset
    /\ published = FALSE
    /\ answer = [c \in Clients |-> Unset]

SendState(state) ==
    /\ sent' = Append(sent, state)
    /\ UNCHANGED <<newest, settled, published, answer>>

(* A newer state arrives; some before it may never be seen.                 *)
Arrive ==
    /\ \E p \in DOMAIN sent :
          p > newest.at /\ newest' = [state |-> sent[p], at |-> p]
    /\ UNCHANGED <<sent, settled, published, answer>>

Settle == settled' = IF newest.state \in Final THEN newest ELSE settled

(* The proxy thread settles the register, if it can, before anyone asks.    *)
SettleEarly == ~published /\ Settle /\ UNCHANGED <<sent, newest, published, answer>>

Publish ==
    /\ published' = TRUE
    /\ UNCHANGED <<sent, newest, settled, answer>>

Tell(c, reading) == answer' = [answer EXCEPT ![c] = reading]

ReadSettled(c) ==
    /\ settled.state \in Final \/ ~published
    /\ Tell(c, settled)
    /\ UNCHANGED <<sent, newest, settled, published>>

ReadNewest(c) ==
    /\ published
    /\ answer[c].state \notin Final
    /\ Settle
    /\ Tell(c, newest)
    /\ UNCHANGED <<sent, newest, published>>

RNext ==
    \/ \E state \in States : SendState(state)
    \/ Arrive \/ SettleEarly \/ Publish
    \/ \E c \in Clients : ReadSettled(c) \/ ReadNewest(c)

RSpec == RInit /\ [][RNext]_vars
=============================================================================
