SPECIFICATION FairSpec
CONSTANTS
    t1 = t1
    t2 = t2
    v1 = v1
    Threads = {t1, t2}
    Versions = {v1}
    LastPage = 2
INVARIANTS TypeOK NoHoles TruncatedOnlyByAccident
PROPERTIES FetchedOnce CredentialsServed
