---------------------------- MODULE MCCompanyCore ----------------------------
(* CompanyCore for TLC: the opening books of demo.py, the first days of the     *)
(* seeded weeks (scenarios.py), and standings around the seeded scopes.         *)
EXTENDS CompanyCore

Arrives(lead, units) == Event("lead_arrived", lead, 0, units, 0)

FirstDays ==
    <<<<Arrives(<<"L00">>, 10), Arrives(<<"L01">>, 40)>>, <<Arrives(<<"L10">>, 40)>>>>
ThirdDay == <<Arrives(<<"L20">>, 40), Arrives(<<"L21">>, 40)>>
CrunchDay ==
    ThirdDay \o <<Arrives(<<"L29">>, 60), Plain("deal_lost", <<"L29">>), Event("bill_received", <<"BX2">>, 12000, 0, 2),
                  Event("bill_paid", <<"CHURN-L29">>, 30000, 0, 0)>>

SeededWeeks ==
    [s \in Scenarios |-> FirstDays \o <<IF s = "normal" THEN ThirdDay ELSE CrunchDay>>]

OpeningBooks ==
    <<Event("invoice_collected", <<"SEED">>, 50000, 0, 0), Event("po_received", <<"SEED-B">>, 0, 200, 0),
      Event("invoice_issued", <<"AR1">>, 4200, 10, 1), Event("invoice_issued", <<"AR2">>, 2600, 6, 2),
      Event("bill_received", <<"AP1">>, 3000, 0, 1)>>

Standing(limit, proven) == [limit |-> limit, proven |-> proven]
SeededStandings ==
    [r \in RoleNames |-> Standing(CASE r = "salesbot" -> 5000 [] r = "opsbot" -> 8000 [] OTHER -> 20000, TRUE)]
AllStandings ==
    [r \in RoleNames |-> CASE r = "salesbot" -> {Standing(5000, TRUE), Standing(12000, TRUE), Standing(12000, FALSE)}
                           [] r = "opsbot" -> {Standing(8000, TRUE), Standing(12000, TRUE), NoGrant}
                           [] OTHER -> {Standing(20000, TRUE), Standing(20000, FALSE), NoGrant}]

==============================================================================
