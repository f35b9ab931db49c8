SPECIFICATION FairSpec
CONSTANTS
  Session = {s1}
  MaxBusy = 1
  MaxFaults = 1
  MaxAttempts = 2
INVARIANTS TypeOK MarkIsOfThisEnd
PROPERTIES NotRevived LiveRowKept KeepsPromise RowsClose RetriesEnd ServiceCutOff
