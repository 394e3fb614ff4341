----------------------------- MODULE MCWorkflows -----------------------------
(* Workflows that share no variable, in one instance: a behaviour is one of the
   copilot's actions, of the status updates, of the nudges, of the benefit
   lines, of the benefit ledger or of the scripts that fill and empty a tenant. *)
EXTENDS CopilotActions, StatusUpdates, Nudges, BenefitLines, BenefitLedger,
        TenantScripts
CONSTANTS u1, u2, i1, i2, a1, p1, p2, l1, l2, m1, jan, feb, low, high

VARIABLE part
mcVars == <<part, copilotVars, updateVars, nudgeVars, lineVars, ledgerVars,
            scriptVars>>

MCInit == /\ part \in {"copilot", "updates", "nudges", "lines", "ledger", "tenant"}
          /\ CopilotInit
          /\ part # "copilot" => /\ role = [u \in Users |-> "pmo_lead"]
                                /\ owner = [i \in Initiatives |-> u1]
          /\ UpdatesInit /\ NudgesInit /\ LinesInit /\ LedgerInit
          /\ ScriptsInit /\ (part # "tenant" => fixture = "shell")

MCNext == /\ UNCHANGED part
          /\ IF part = "copilot" THEN CopilotNext ELSE UNCHANGED copilotVars
          /\ IF part = "updates" THEN UpdatesNext ELSE UNCHANGED updateVars
          /\ IF part = "nudges" THEN NudgesNext ELSE UNCHANGED nudgeVars
          /\ IF part = "lines" THEN LinesNext ELSE UNCHANGED lineVars
          /\ IF part = "ledger" THEN LedgerNext ELSE UNCHANGED ledgerVars
          /\ IF part = "tenant" THEN ScriptsNext ELSE UNCHANGED scriptVars

MCSpec == MCInit /\ [][MCNext]_mcVars

\* The rows of every workflow have their types.
WorkflowTypesOK == /\ CopilotTypeOK /\ UpdatesTypeOK /\ NudgesTypeOK
                   /\ LinesTypeOK /\ LedgerTypeOK /\ ScriptsTypeOK
===============================================================================
