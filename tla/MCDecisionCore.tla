--------------------------- MODULE MCDecisionCore ---------------------------
(* An instance of DecisionCore for TLC: one agent with a grant of up to 600 *)
(* for refunds and deploys, and a completed task on record.                 *)
EXTENDS DecisionCore

CONSTANTS grant, task

Asked(action, amount) == [actor |-> "agent", action |-> action, amount |-> amount]

SmallAndLarge ==
    {Asked("issue_refund", 120),
     Asked("deploy_production", 400), Asked("deploy_production", 1200),
     Asked("deploy_production", 2400)}

Signed ==
    [c \in {grant, task} |->
        IF c = grant
        THEN [subject |-> "agent", type |-> "authority_grant",
              actions |-> {"issue_refund", "deploy_production"}, max |-> 600]
        ELSE [subject |-> "agent", type |-> "task_completion", actions |-> {}, max |-> None]]

PartOrAll == {[required |-> 2, optional |-> 0], [required |-> 3, optional |-> 2]}

==============================================================================
