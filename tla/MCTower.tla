------------------------------- MODULE MCTower -------------------------------
(* Instances of Tower for TLC.                                             *)
EXTENDS Tower

Fact(authority, total, favorable) ==
    [authority |-> authority, total |-> total, favorable |-> favorable]

\* A grant that may be missing or revoked, a spotless or a bad track record.
AnyFacts ==
    {Fact("valid", 0, 0), Fact("valid", 1, 1), Fact("uncertain", 0, 0), Fact("invalid", 1, 0)}

\* The same grant, or the grant revoked.
GrantedOrRevoked == {Fact("valid", 0, 0), Fact("invalid", 0, 0)}

==============================================================================
