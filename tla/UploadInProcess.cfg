SPECIFICATION FairSpec
CONSTANTS
    u1 = u1
    u2 = u2
    u3 = u3
    d1 = d1
    Docs = {d1}
    Uploads = {u1, u2}
    DocumentOf <- SamePdf
    Durable = FALSE
    MaxRetries = 0
    MaxCrashes <- TwoApiCrashes
    Runner = Runner
    Deleter = Deleter
    Boot = Boot
    None = None
CHECK_DEADLOCK FALSE
INVARIANTS
    TypeOK
    LibraryIsSound
    CleanupIsCurrent
PROPERTY UploadSettles
