CONSTANTS
    r1 = r1  r2 = r2  u1 = u1  gnoland = gnoland  test = test
    Runs = {r1, r2}
    Chains = {gnoland, test}
    Users = {u1}
    Versions <- MCVersions
    MaxLosses = 2
SPECIFICATION SetupSpec
SYMMETRY Symmetry
CHECK_DEADLOCK FALSE
INVARIANTS BuiltByOneRun ScriptIsSound CreatedIsComplete ReportedIsGranted
