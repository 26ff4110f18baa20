SPECIFICATION FairSpec
CONSTANTS
    Size = 5
    Pages = 3
    PageNo <- MCPageNo
    Weak = {1, 4}
    MaxPrograms = 4
INVARIANTS
    TypeOK
    AckedInFlash
    NeverMixed
PROPERTIES
    DownloadEnds
