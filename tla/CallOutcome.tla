----------------------------- MODULE CallOutcome -----------------------------
(***************************************************************************)
(* What an action call promises (aioros.abc.ActionCall): each call settles  *)
(* at most once, on its own result or as lost, and whoever waits for its    *)
(* result gets what it settled on.                                          *)
(***************************************************************************)
CONSTANTS
  Calls,
  Open,  \* the outcome of a call that has none yet
  Lost   \* the outcome of a call the server does not know any more

VARIABLES
  outcome,  \* call |-> Open, Lost, or the call whose result it got
  answered  \* call |-> what wait_for_result has returned, or Open

outcomeVars == <<outcome, answered>>

OutcomeInit ==
  /\ outcome = [c \in Calls |-> Open]
  /\ answered = [c \in Calls |-> Open]

Settle(c) ==
  /\ outcome[c] = Open
  /\ \E o \in {c, Lost} : outcome' = [outcome EXCEPT ![c] = o]
  /\ UNCHANGED answered

Answer(c) ==
  /\ outcome[c] # Open
  /\ answered' = [answered EXCEPT ![c] = outcome[c]]
  /\ UNCHANGED outcome

OutcomeNext == \E c \in Calls : Settle(c) \/ Answer(c)

OutcomeSpec == OutcomeInit /\ [][OutcomeNext]_outcomeVars
=============================================================================
