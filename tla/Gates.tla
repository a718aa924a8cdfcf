------------------------------- MODULE Gates --------------------------------
(***************************************************************************)
(* All the gates the repository runs before a deployment                    *)
(* (scripts/test-*.ts, *-live.ts): a script's name, what it does to a good  *)
(* case, and whether the code accepts the outcome.                          *)
(***************************************************************************)
EXTENDS Scenarios, Gadgets, Rehearsal, PublicSignals

SignalCases == {"shield", "transfer", "unshield"} \X {"signals in order"}

GateCases == ScenarioCases \cup GadgetCases \cup RehearsalCases \cup SignalCases

\* The cases that are good as they stand.
GoodCases ==
  {case \in GateCases :
     case[2] \in {"none", "exact", "tail", "at limit", "transition", "signals in order"}}

Verdict(script, flaw) ==
  CASE <<script, flaw>> \in ScenarioCases  -> ScenarioVerdict(script, flaw)
    [] <<script, flaw>> \in GadgetCases    -> GadgetVerdict(script, flaw)
    [] <<script, flaw>> \in RehearsalCases -> RehearsalVerdict(script)
    [] <<script, flaw>> \in SignalCases    -> SignalsInOrder(script)
=============================================================================
