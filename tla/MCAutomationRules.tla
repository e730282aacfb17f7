-------------------------- MODULE MCAutomationRules --------------------------
(***************************************************************************)
(* AutomationRules on a small instance: a lookup rule for new indicators,  *)
(* a webhook rule for case updates whose condition does not depend on the  *)
(* kind of object, and the same rule disabled.                             *)
(***************************************************************************)
EXTENDS AutomationRules, TLC

Lookup  == [trigger |-> "OnIndicatorAdded", holds |-> {"Indicator"},
            module |-> "VirusTotal", enabled |-> TRUE]
Notify  == [trigger |-> "OnCaseUpdated", holds |-> Kinds,
            module |-> "Webhook", enabled |-> TRUE]
MCRules == {Lookup, Notify, [Notify EXCEPT !.enabled = FALSE]}

MCSymmetry == Permutations(RuleIds) \cup Permutations(Admins)
=============================================================================
