-------------------------------- MODULE Leash --------------------------------
(***************************************************************************)
(* What the control plane promises about an agent, without the approval    *)
(* queue that implements it: an agent is free, held or dead; only a free   *)
(* agent can park an action; a parked action keeps it held until somebody  *)
(* rules on it; death is for good.  InterventionGate implements this.      *)
(***************************************************************************)
CONSTANT Agents

VARIABLES
    leash,      \* agent -> "free", "held" or "dead"
    parked      \* the agents with an action that waits for a verdict

leashVars == <<leash, parked>>

Init == leash = [a \in Agents |-> "free"] /\ parked = {}

\* An agent parks a risky action, and is held for it.
Park(a) ==
    /\ leash[a] = "free"
    /\ leash' = [leash EXCEPT ![a] = "held"]
    /\ parked' = parked \cup {a}

\* A free agent is stopped, by a human or by containment.
Hold(a) ==
    /\ leash[a] = "free"
    /\ leash' = [leash EXCEPT ![a] = "held"]
    /\ UNCHANGED parked

\* A human lets a held agent go: not while its action waits for a verdict.
Release(a) ==
    /\ leash[a] = "held"
    /\ a \notin parked
    /\ leash' = [leash EXCEPT ![a] = "free"]
    /\ UNCHANGED parked

\* A human rules on the parked action, and the agent is free.
Rule(a) ==
    /\ leash[a] = "held"
    /\ a \in parked
    /\ leash' = [leash EXCEPT ![a] = "free"]
    /\ parked' = parked \ {a}

\* A kill takes the parked action with it.
Sever(a) ==
    /\ leash[a] # "dead"
    /\ leash' = [leash EXCEPT ![a] = "dead"]
    /\ parked' = parked \ {a}

\* A fresh fleet.
Renew ==
    /\ leash' = [a \in Agents |-> "free"]
    /\ parked' = {}

Next ==
    \/ \E a \in Agents : Park(a) \/ Hold(a) \/ Release(a) \/ Rule(a) \/ Sever(a)
    \/ Renew

Spec == Init /\ [][Next]_leashVars

=============================================================================
