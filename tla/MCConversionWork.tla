-------------------------- MODULE MCConversionWork --------------------------
(***************************************************************************)
(* What a conversion waits for, a place in the queue and space for its     *)
(* temp file: the scheduler and the ledger.  They share no variable, so a  *)
(* behaviour is about one of them while the other rests.                   *)
(***************************************************************************)
EXTENDS ConversionScheduler, TempQuota

VARIABLE part

workVars == <<part, vars, quotaVars>>

WorkInit == part \in {"scheduler", "ledger"} /\ Init /\ QuotaInit

InScheduler(A) == part = "scheduler" /\ A /\ UNCHANGED <<part, quotaVars>>
InLedger(A)    == part = "ledger" /\ A /\ UNCHANGED <<part, vars>>

WorkNext == InScheduler(Next) \/ InLedger(QuotaNext)

\* The fairness of the two specifications.
WorkSpec ==
  /\ WorkInit /\ [][WorkNext]_workVars
  /\ \A c \in Callers : WF_vars(InScheduler(CallerStep(c)))
  /\ \A w \in Workers : WF_vars(InScheduler(WorkerStep(w)))
  /\ WF_vars(InScheduler(ShutdownStep))
  /\ \A w \in Writers : WF_quotaVars(InLedger(Step(w)))
=============================================================================
