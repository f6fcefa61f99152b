SPECIFICATION FairSpec
CONSTANTS
    u1 = u1
    u2 = u2
    u3 = u3
    d1 = d1
    Docs = {d1}
    Uploads = {u1}
    DocumentOf <- SamePdf
    Durable = TRUE
    MaxRetries = 2
    MaxCrashes <- OneCrashEach
    Runner = Runner
    Deleter = Deleter
    Boot = Boot
    None = None
CHECK_DEADLOCK FALSE
INVARIANTS
    AcceptedJobsHaveMessages
PROPERTIES
    FinishedStaysFinished
    UploadSettles
