SPECIFICATION CompanySpec
CONSTANTS
    Weeks <- SeededWeeks
    Opening <- OpeningBooks
    Standings <- AllStandings
    Seeded <- SeededStandings
    MaxDay = 3
    MaxGrants = 1
    MaxRulings = 1
INVARIANTS
    CompanyTypeOK
    SettledOnce
    FrozenMeansFrozen
    ReplayShowsTheDay
    LogNeverOutrunsInbox
