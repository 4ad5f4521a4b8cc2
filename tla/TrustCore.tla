------------------------------ MODULE TrustCore ------------------------------
(***************************************************************************)
(* TrustService (core/trustcore/application/services.py): signed           *)
(* credentials about an agent are issued, revoked and expire; a decision   *)
(* on an action verifies them and leaves a receipt in an append-only log.  *)
(* Signatures are abstract: the store never takes a copy whose signature   *)
(* is wrong, and a revocation that was not re-signed fails just as one     *)
(* that was.                                                               *)
(***************************************************************************)
EXTENDS Integers, Sequences

CONSTANTS
    Actors,         \* registered agents
    Creds,          \* bound: credential ids
    Contents,       \* credential id -> what was signed: subject, type and scope
    Requests,       \* what agents ask: [actor, action, amount]
    MaxReceipts     \* bound: receipts in the log

None == -1   \* no amount, or a scope without max_amount

ASSUME TrustAssumption ==
    /\ Requests \subseteq [actor : Actors, action : STRING, amount : Nat \cup {None}]
    /\ Contents \in [Creds -> [subject : Actors,
                               type : {"authority_grant", "task_completion"},
                               actions : SUBSET STRING, max : Int]]

VARIABLES
    copy,       \* credential id -> which copy of it the store holds
    expired,    \* the credentials whose expires_at has passed
    receipts    \* the receipt log

trustVars == <<copy, expired, receipts>>

\* As it was signed, or with a revocation.
Copy == {"absent", "signed", "revoked"}

Receipt(agent, action, decision) == [agent |-> agent, action |-> action, decision |-> decision]

\* Mutant: a credential is never too old.
VerifiesAtAnyAge(c) == copy[c] = "signed"

\* verify_credential() finds no failure.
Verifies(c) == copy[c] = "signed" /\ c \notin expired

HeldBy(a) == {c \in Creds : copy[c] # "absent" /\ Contents[c].subject = a}
Failing(a) == {c \in HeldBy(a) : ~Verifies(c)}
Valid(a, type) == {c \in HeldBy(a) \ Failing(a) : Contents[c].type = type}

\* _covers(): the scope names the action, and the amount is within it.
Covers(c, action, amount) ==
    /\ action \in Contents[c].actions
    /\ \/ amount = None
       \/ Contents[c].max = None
       \/ amount <= Contents[c].max

\* evaluate() on the verified credentials of r.actor
Verdict(r) ==
    IF \A c \in Valid(r.actor, "authority_grant") : ~Covers(c, r.action, r.amount) THEN "refuse"
    ELSE IF Valid(r.actor, "task_completion") # {} THEN "allow"
    ELSE "escalate"

-----------------------------------------------------------------------------

\* issue_credential() makes a new one; register_signed_credential() saves a copy
\* with a good signature, also over the copy that the store has.
SaveSigned(c) ==
    /\ copy' = [copy EXCEPT ![c] = "signed"]
    /\ UNCHANGED <<expired, receipts>>

\* revoke_credential(), with the issuer's new signature or without.
Revoke(c) ==
    /\ copy[c] # "absent"
    /\ copy' = [copy EXCEPT ![c] = "revoked"]
    /\ UNCHANGED <<expired, receipts>>

\* The clock passes expires_at.
Expire(c) ==
    /\ copy[c] # "absent"
    /\ expired' = expired \cup {c}
    /\ UNCHANGED <<copy, receipts>>

\* A receipt is appended: decide() and record_event().
Record(receipt) ==
    /\ Len(receipts) < MaxReceipts
    /\ receipts' = Append(receipts, receipt)
    /\ UNCHANGED <<copy, expired>>

\* decide()
TrustDecide(r) == Record(Receipt(r.actor, r.action, Verdict(r)))

TrustInit ==
    /\ copy = [c \in Creds |-> "absent"]
    /\ expired = {}
    /\ receipts = <<>>

=============================================================================
