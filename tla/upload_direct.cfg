\* Atomic uploads off, denied paths and missing permissions, create failures,
\* read-write opens on a local and on an object-store path.
CONSTANTS
    s1 = s1
    s2 = s2
    p1 = p1
    p2 = p2
    p3 = p3
    f1 = f1
    f2 = f2
    NoFolder = NoFolder
    Sessions = {s1, s2}
    Paths = {p1, p2, p3}
    Folders <- MC_Folders
    FolderOf <- MC_FolderOf
    FolderQuota <- MC_FolderQuota
    UserQuota <- MC_UserFilesQuota
    FsOf <- MC_FsOf
    ObjectResumeMax = 1
    AtomicUploadEnabled = FALSE
    Allowed = {p1, p3}
    PermUpload = {p2, p3}
    PermOverwrite = {p1, p3}
    PermDownload = {p1}
    ReadOpens = {FALSE, TRUE}
    BackendFaults = {"stat", "create"}
    SessionPaths <- MC_DisjointScopes
    LinkPaths = {}
    MaxSize = 2

SPECIFICATION Spec
INVARIANT TypeOK
INVARIANT QuotaMatchesDisk
PROPERTY QuotaGrowthWithinLimit
INVARIANT ReadNeedsDownloadPermission
