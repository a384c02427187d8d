SPECIFICATION Spec
CONSTANTS
    anon = anon
    report = report
    plain = plain
    rebuilt = rebuilt
    idA = idA
    idR = idR
    main = main
    dashboard = dashboard
    None = None
    Decl = {anon, report, plain}
    Spare = {rebuilt}
    Id = {idA, idR}
    NameOf <- Names
    StableOf <- Stable
    Persistent = {anon, report}
    Registered = {idR}
    Programs <- Versions
    Caller = {main, dashboard}
    MaxReplays = 2
    MaxBoots = 1
    Env = {"fail", "unschedule"}
SYMMETRY WhoReplays
INVARIANTS TypeOK OneObjectPerId DeclaredKept SchedulesStored BackfilledOnce RegisteredRebuilt
CHECK_DEADLOCK FALSE
