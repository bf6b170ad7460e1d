-------------------------- MODULE MCAutomationRuns --------------------------
(* Plans and symmetry for model-checking AutomationRuns. *)
EXTENDS AutomationRuns, TLC

PaidPlan     == <<"send_card", "confirm_shipment">>
ReminderPlan == <<"send_text">>

WorkerSymmetry == Permutations(Workers)
=============================================================================
