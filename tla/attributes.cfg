\* Every quota result and backend answer of the chosen ranges, and every setstat flag combination.
CONSTANTS
    Word = 1048576
    SizeHeadroom = 262144
    FilesHeadroom = 1000
    QuotaSizes = {0, 1, 64, 100, 4096, 20000}
    QuotaFiles = {0, 5}
    UsedSizes = {0, 100, 8000}
    UsedFiles = {0, 5, 20}
    DiskStats <- MC_DiskStats
    SetstatSizes = {0, 5, 524287, 524288}

SPECIFICATION Spec
INVARIANT BlockSizeMatchesReference
INVARIANT SetstatMatchesReference
