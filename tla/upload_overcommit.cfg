\* Two sessions upload concurrently into the same user quota.
CONSTANTS
    s1 = s1
    s2 = s2
    p1 = p1
    p2 = p2
    p3 = p3
    f1 = f1
    f2 = f2
    NoFolder = NoFolder
    Sessions = {s1, s2}
    Paths = {p1, p2, p3}
    Folders <- MC_Folders
    FolderOf <- MC_FolderOf
    FolderQuota <- MC_FolderQuota
    UserQuota <- MC_UserSizeQuota
    FsOf <- MC_FsOf
    ObjectResumeMax = 1
    AtomicUploadEnabled = TRUE
    Allowed = {p1, p2, p3}
    PermUpload = {p1, p2, p3}
    PermOverwrite = {p1, p2, p3}
    PermDownload = {p2, p3}
    ReadOpens = {FALSE}
    BackendFaults = {}
    SessionPaths <- MC_SharedScope
    LinkPaths = {}
    MaxSize = 2

SPECIFICATION Spec
PROPERTY QuotaGrowthWithinLimit
