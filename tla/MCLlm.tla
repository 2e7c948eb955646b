------------------------------- MODULE MCLlm -------------------------------
(* The gateway's parts in one run: how a call finds a model, what its        *)
(* customer is charged, and the books kept beside it share no state, so each *)
(* behaviour moves one of them: the part.                                    *)
EXTENDS LlmRouting, LlmBudget, LlmLedger, Infusion

CONSTANTS t1, t2, u1

VARIABLE part

MCCosts == {1, 2}
MCCaps == {[daily |-> 0, monthly |-> 3]}
MCDefaultCap == [daily |-> 2, monthly |-> 4]

MCUsages == {[model |-> Haiku, input |-> 1, output |-> 1], [model |-> Opus, input |-> 1, output |-> 2]}
MCOverrides == {<<>>, Opus :> [input |-> 2], Haiku :> [input |-> -9, output |-> 1]}
MCQuestions == [length : {0, 1500, 1501, 7999, 8000, 9000}, risk : {"none", "high"}, task : {"none", "triage"}]
MCRouterSettings ==
    [on : BOOLEAN, pin : {"", Haiku}, tasks : {<<>>, "triage" :> Haiku}, small : {-1, 0, 8500}, large : {0, 1501}]

MCInit ==
    /\ Init /\ BudgetInit /\ SideInit /\ InfusionInit
    /\ part \in {"routing", "budget", "ledger", "router", "batch", "infusion"}
    /\ part # "routing" => env = [key |-> Platform, force |-> FALSE, infusion |-> FALSE]
    /\ part # "ledger" => pricing = <<>>
    /\ part # "infusion" => keyed = {} /\ cli /\ infused

MCNext ==
    /\ UNCHANGED part
    /\ \/ part = "routing" /\ Next /\ UNCHANGED <<budgetVars, sideVars, infusionVars>>
       \/ part = "budget" /\ BudgetNext /\ UNCHANGED <<vars, sideVars, infusionVars>>
       \/ /\ \/ part = "ledger" /\ LedgerNext /\ UNCHANGED <<routed, batchVars>>
             \/ part = "router" /\ AskRouter /\ UNCHANGED <<ledgerVars, batchVars>>
             \/ part = "batch" /\ BatchNext /\ UNCHANGED <<ledgerVars, routed>>
          /\ UNCHANGED <<vars, budgetVars, infusionVars>>
       \/ part = "infusion" /\ InfusionNext /\ UNCHANGED <<vars, budgetVars, sideVars>>

MCVars == <<part, vars, budgetVars, sideVars, infusionVars>>

MCSpec ==
    /\ MCInit /\ [][MCNext]_MCVars
    /\ \A c \in Calls :
         WF_MCVars(part = "routing" /\ Step(c) /\ UNCHANGED <<part, budgetVars, sideVars, infusionVars>>)
=============================================================================
