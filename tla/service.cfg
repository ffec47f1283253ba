SPECIFICATION FairSpec
CONSTANTS
    Slots = {"first", "second"}
    Serves <- SlotServes
    Clients = {"m1", "m2"}
    MaxVersions = 2
    KeyTTL = 2
    Subjects <- AllSubjects
    KeySubjects <- WithKeys
    StopSubjects <- WithSignals
INVARIANTS
    TypeOK
    AuthorizedAccess
    OneWriterPerVersion
    RefusalHasNoEffect
    SuccessIsApplied
    ServerErrorIsAFailure
    KeysAreFresh
PROPERTIES
    ChangesNameTheirVersion
    
