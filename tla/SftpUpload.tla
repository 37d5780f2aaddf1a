----------------------------- MODULE SftpUpload -----------------------------
(***************************************************************************)
(* The write path of the SFTP request dispatcher (Connection.handleFilewrite *)
(* and the two upload state machines of internal/sftpd/handler.go) with    *)
(* the quota bookkeeping it drives.                                        *)
(*                                                                         *)
(* Several sessions run write-opens concurrently against one shared        *)
(* storage namespace.  Every backend call, quota-store call and hook is a  *)
(* blocking call made with no lock held, so a session's handler is split  *)
(* into one action per such call and other sessions interleave between    *)
(* them.  The transfer that the handler returns is finalised by an         *)
(* external collaborator (common.BaseTransfer.Close): that step is taken   *)
(* from the spec (section 3, Transfer) and marked so in the map.           *)
(***************************************************************************)
EXTENDS Integers, FiniteSets
LOCAL INSTANCE FiniteSetsExt

CONSTANTS
    Sessions,           \* concurrent SFTP sessions of one user
    Paths,              \* request paths a client may write to
    Folders,            \* virtual folders
    NoFolder,           \* GetVirtualFolderForPath failed: path in the user home
    FolderOf,           \* [Paths -> Folders \cup {NoFolder}]
    FolderQuota,        \* [Folders -> [size: Int, files: Int]]; 0 unlimited, -1 included
    UserQuota,          \* [size: Nat, files: Nat]; 0 unlimited
    FsOf,               \* [Paths -> {"local", "object"}] backend behind each path
    ObjectResumeMax,    \* conditional resume limit of object backends
    AtomicUploadEnabled,\* common.Config.IsAtomicUploadEnabled()
    Allowed,            \* paths accepted by User.IsFileAllowed
    PermUpload,         \* paths whose parent grants PermUpload
    PermOverwrite,      \* paths whose parent grants PermOverwrite
    PermDownload,       \* paths whose parent grants PermDownload
    ReadOpens,          \* values of the client's Read open flag in use
    BackendFaults,      \* subset of {"stat", "rename", "create"} that may fail
    SessionPaths,       \* [Sessions -> SUBSET Paths] paths a session's client uses
    LinkPaths,          \* paths that may hold a symlink to a target outside Paths
    MaxSize             \* bound on file sizes

ASSUME /\ FolderOf \in [Paths -> Folders \cup {NoFolder}]
       /\ NoFolder \notin Folders
       /\ FsOf \in [Paths -> {"local", "object"}]
       /\ AtomicUploadEnabled \in BOOLEAN
       /\ FALSE \in ReadOpens /\ ReadOpens \subseteq BOOLEAN
       /\ BackendFaults \subseteq {"stat", "rename", "create"}
       /\ SessionPaths \in [Sessions -> SUBSET Paths]
       /\ LinkPaths \subseteq Paths
       /\ MaxSize \in Nat

VARIABLES
    disk,        \* [Paths -> Entry]: what Lstat sees at each final path
    usedUser,    \* user's used quota in the data provider
    usedFolder,  \* each virtual folder's used quota in the data provider
    sess         \* per-session handler and transfer state

vars == <<disk, usedUser, usedFolder, sess>>

Sizes == 0..MaxSize
NoEntry == [kind |-> "none", size |-> 0]
DirEntry == [kind |-> "dir", size |-> 0]
LinkEntry == [kind |-> "link", size |-> 0]
FileOf(n) == [kind |-> "file", size |-> n]
Entry == {NoEntry, DirEntry, LinkEntry} \cup {FileOf(n) : n \in Sizes}
Usage == [size: Int, files: Int]
Flags == [trunc: BOOLEAN, append: BOOLEAN, read: ReadOpens]
Results == {"none", "ok", "permission", "quota", "unsupported", "fserror"}
Errors == Results \ {"none", "ok"}
ReadErrors == {"none", "unsupported", "permission"}
Phases == {"idle", "quotaNew", "quotaExisting", "hook", "rename", "createNew",
           "createExisting", "truncateQuota", "transfer"}

Larger(a, b) == IF a >= b THEN a ELSE b
Smaller(a, b) == IF a <= b THEN a ELSE b

(***************************************************************************)
(* Backend capabilities (vfs.Fs capability probes, spec section 6): the    *)
(* local OsFs supports resume, truncate-on-open and atomic uploads; object *)
(* stores support none of them, resume only conditionally on the size, and *)
(* make the new object visible only when the transfer is closed.          *)
(***************************************************************************)
IsUploadResumeSupported(p) == FsOf[p] = "local"
HasTruncateSupport(p) == FsOf[p] = "local"
IsAtomicUploadSupported(p) == FsOf[p] = "local"
HasOpenRWSupport(p) == FsOf[p] = "local"
CondUploadResumeSupported(p, size) ==
    IsUploadResumeSupported(p) \/ size <= ObjectResumeMax

\* filePath = fs.GetAtomicUploadPath(p) when both switches are on
UsesAtomicUpload(p) == AtomicUploadEnabled /\ IsAtomicUploadSupported(p)

(***************************************************************************)
(* VirtualFolder.IsIncludedInUserQuota and HasNoQuotaRestrictions.         *)
(***************************************************************************)
IsIncludedInUserQuota(f) == FolderQuota[f].files = -1 /\ FolderQuota[f].size = -1
HasNoQuotaRestrictions(f, checkFiles) ==
    FolderQuota[f].size = 0 /\ (~checkFiles \/ FolderQuota[f].files = 0)

\* the quota counters a path's bytes are charged to
ChargesFolder(p) == FolderOf[p] # NoFolder
ChargesUser(p) == FolderOf[p] = NoFolder \/ IsIncludedInUserQuota(FolderOf[p])

(***************************************************************************)
(* BaseConnection.HasSpace: the disk-quota result for a request path.     *)
(* The folder's own limits apply unless it is included in the user quota. *)
(***************************************************************************)
QuotaResult(p, checkFiles) ==
    LET own == ChargesFolder(p) /\ ~IsIncludedInUserQuota(FolderOf[p])
        limit == IF own THEN FolderQuota[FolderOf[p]] ELSE UserQuota
        used == IF own THEN usedFolder[FolderOf[p]] ELSE usedUser
        unlimited == IF own THEN HasNoQuotaRestrictions(FolderOf[p], checkFiles)
                     ELSE UserQuota.size = 0 /\ (~checkFiles \/ UserQuota.files = 0)
    IN [hasSpace |-> unlimited \/
                     /\ (limit.size <= 0 \/ used.size < limit.size)
                     /\ (~checkFiles \/ limit.files <= 0 \/ used.files < limit.files),
        quotaSize |-> Larger(limit.size, 0),
        usedSize |-> used.size]

RemainingSize(q) == IF q.quotaSize > 0 THEN q.quotaSize - q.usedSize ELSE 0

(***************************************************************************)
(* BaseConnection.GetMaxWriteSize: 0 means unlimited; a resume on a       *)
(* backend that cannot resume this size is refused.                        *)
(***************************************************************************)
MaxWriteSize(q, isResume, fileSize) ==
    IF isResume \/ RemainingSize(q) = 0 THEN RemainingSize(q)
    ELSE RemainingSize(q) + fileSize

(***************************************************************************)
(* Connection.updateQuotaAfterTruncate, and the same routing used by the  *)
(* transfer's quota update: the folder is charged, and the user too when  *)
(* the folder is included in the user quota; a home path charges the user.*)
(***************************************************************************)
UpdateQuota(p, dFiles, dSize) ==
    /\ usedFolder' = IF ChargesFolder(p)
                     THEN [usedFolder EXCEPT ![FolderOf[p]] =
                              [files |-> @.files + dFiles, size |-> @.size + dSize]]
                     ELSE usedFolder
    /\ usedUser' = IF ChargesUser(p)
                   THEN [files |-> usedUser.files + dFiles, size |-> usedUser.size + dSize]
                   ELSE usedUser

\* fault-injection variant: the debit reaches the virtual folder only
UpdateQuotaAfterTruncateFolderOnly(p, fileSize) ==
    /\ usedFolder' = IF ChargesFolder(p)
                     THEN [usedFolder EXCEPT ![FolderOf[p]].size = @ - fileSize]
                     ELSE usedFolder
    /\ UNCHANGED usedUser

UpdateQuotaAfterTruncate(p, fileSize) == UpdateQuota(p, 0, -fileSize)

\* what the data provider would hold if it counted the bytes on disk
DiskUsage(P) ==
    LET files == {p \in P : disk[p].kind = "file"}
    IN [files |-> Cardinality(files), size |-> MapThenSumSet(LAMBDA p : disk[p].size, files)]
UserUsage == DiskUsage({p \in Paths : ChargesUser(p)})
FolderUsage(f) == DiskUsage({p \in Paths : FolderOf[p] = f})

Session == [pc: Phases, path: Paths, flags: Flags, seen: Entry, result: Results,
            isNewFile: BOOLEAN, fileSize: Sizes, isResume: BOOLEAN,
            quota: [hasSpace: BOOLEAN, quotaSize: Int, usedSize: Int],
            maxWriteSize: Int, minWriteOffset: Sizes, initialSize: Sizes,
            truncatedSize: Sizes, base: Sizes, readErr: ReadErrors,
            readResult: ReadErrors \cup {"ok"}]

\* a session between requests: the handler keeps no state, only the outcome
\* of the last write-open is remembered for the properties
Idle(p, seen, result) ==
    [pc |-> "idle", path |-> p, flags |-> [trunc |-> FALSE, append |-> FALSE, read |-> FALSE],
     seen |-> IF result \in Errors THEN seen ELSE NoEntry, result |-> result, isNewFile |-> FALSE, fileSize |-> 0,
     isResume |-> FALSE, quota |-> [hasSpace |-> FALSE, quotaSize |-> 0, usedSize |-> 0],
     maxWriteSize |-> 0, minWriteOffset |-> 0, initialSize |-> 0,
     truncatedSize |-> 0, base |-> 0, readErr |-> "none", readResult |-> "none"]

Init ==
    /\ disk \in {d \in [Paths -> Entry] : \A p \in Paths : d[p] = LinkEntry => p \in LinkPaths}
    /\ usedUser = UserUsage
    /\ usedFolder = [f \in Folders |-> FolderUsage(f)]
    /\ sess = [s \in Sessions |->
                 Idle(CHOOSE p \in SessionPaths[s] : TRUE, NoEntry, "none")]

\* an early return of the handler with the protocol error it maps to
Fail(s, code) ==
    sess' = [sess EXCEPT ![s] = Idle(@.path, @.seen, code)]

(***************************************************************************)
(* Connection.handleFilewrite: IsFileAllowed, resolve, Lstat and the      *)
(* branch to a new-file or an existing-file upload.  The Lstat result is  *)
(* what the rest of the handler works from.                               *)
(***************************************************************************)
WriteNotAllowed(s, p) ==
    /\ sess[s].pc = "idle"
    /\ p \notin Allowed
    /\ sess' = [sess EXCEPT ![s] = Idle(p, disk[p], "permission")]
    /\ UNCHANGED <<disk, usedUser, usedFolder>>

WriteStatFailed(s, p) ==
    /\ sess[s].pc = "idle"
    /\ p \in Allowed
    /\ "stat" \in BackendFaults
    /\ sess' = [sess EXCEPT ![s] = Idle(p, disk[p], "fserror")]
    /\ UNCHANGED <<disk, usedUser, usedFolder>>

(***************************************************************************)
(* errForRead: the error a read through the write handle will return.  A  *)
(* read-write open on a backend without read-write support gets           *)
(* "unsupported"; without download permission every read gets a          *)
(* permission error, which overrides the former.                          *)
(***************************************************************************)
\* fault-injection variant: the download permission is not consulted
ErrForReadNoPermission(p, fl) ==
    IF ~HasOpenRWSupport(p) /\ fl.read THEN "unsupported" ELSE "none"

ErrForRead(p, fl) ==
    IF p \notin PermDownload THEN "permission"
    ELSE IF ~HasOpenRWSupport(p) /\ fl.read THEN "unsupported"
    ELSE "none"

WriteOpen(s, p, fl) ==
    /\ sess[s].pc = "idle"
    /\ p \in Allowed
    /\ LET opened == [Idle(p, disk[p], "none") EXCEPT !.flags = fl, !.seen = disk[p],
                                                     !.readErr = ErrForRead(p, fl)] IN
       \/ /\ disk[p].kind \in {"none", "link"}
          /\ sess' = [sess EXCEPT ![s] =
                IF p \in PermUpload
                THEN [opened EXCEPT !.pc = "quotaNew", !.isNewFile = TRUE]
                ELSE Idle(p, disk[p], "permission")]
       \/ /\ disk[p].kind = "dir"
          /\ sess' = [sess EXCEPT ![s] = Idle(p, disk[p], "unsupported")]
       \/ /\ disk[p].kind = "file"
          /\ sess' = [sess EXCEPT ![s] =
                IF p \in PermOverwrite
                THEN [opened EXCEPT !.pc = "quotaExisting", !.fileSize = disk[p].size]
                ELSE Idle(p, disk[p], "permission")]
    /\ UNCHANGED <<disk, usedUser, usedFolder>>

(***************************************************************************)
(* handleSFTPUploadToNewFile, quota gate: disk quota (counting files) and *)
(* upload transfer quota must both have space.  The transfer quota is     *)
(* tracked outside this code, so its answer is an input.                  *)
(***************************************************************************)
\* fault-injection variant: only the transfer quota is consulted
QuotaNewFileNoDiskCheck(s) ==
    /\ sess[s].pc = "quotaNew"
    /\ \E transferOk \in BOOLEAN :
         LET q == QuotaResult(sess[s].path, TRUE) IN
         IF transferOk
         THEN sess' = [sess EXCEPT ![s].pc = "hook", ![s].quota = q,
                                   ![s].maxWriteSize = MaxWriteSize(q, FALSE, 0)]
         ELSE Fail(s, "quota")
    /\ UNCHANGED <<disk, usedUser, usedFolder>>

QuotaNewFile(s) ==
    /\ sess[s].pc = "quotaNew"
    /\ \E transferOk \in BOOLEAN :
         LET q == QuotaResult(sess[s].path, TRUE) IN
         IF q.hasSpace /\ transferOk
         THEN sess' = [sess EXCEPT ![s].pc = "hook", ![s].quota = q,
                                   ![s].maxWriteSize = MaxWriteSize(q, FALSE, 0)]
         ELSE Fail(s, "quota")
    /\ UNCHANGED <<disk, usedUser, usedFolder>>

(***************************************************************************)
(* handleSFTPUploadToExistingFile up to the hook: quota gate without file *)
(* counting, isResume = no O_TRUNC, and GetMaxWriteSize, which refuses a  *)
(* resume the backend cannot do for this size.                            *)
(***************************************************************************)
QuotaExistingFile(s) ==
    /\ sess[s].pc = "quotaExisting"
    /\ \E transferOk \in BOOLEAN :
         LET st == sess[s]
             q == QuotaResult(st.path, FALSE)
             isResume == ~st.flags.trunc
         IN IF ~(q.hasSpace /\ transferOk) THEN Fail(s, "quota")
            ELSE IF isResume /\ ~CondUploadResumeSupported(st.path, st.fileSize)
            THEN Fail(s, "unsupported")
            ELSE sess' = [sess EXCEPT ![s].pc = "hook", ![s].quota = q,
                             ![s].isResume = isResume,
                             ![s].maxWriteSize = MaxWriteSize(q, isResume, st.fileSize)]
    /\ UNCHANGED <<disk, usedUser, usedFolder>>

(***************************************************************************)
(* ExecutePreAction(OperationPreUpload): a veto is a permission error.    *)
(* An existing file under atomic upload is moved aside next.              *)
(***************************************************************************)
PreUploadHook(s) ==
    /\ sess[s].pc = "hook"
    /\ \/ Fail(s, "permission")
       \/ sess' = [sess EXCEPT ![s].pc =
                     IF sess[s].isNewFile THEN "createNew"
                     ELSE IF UsesAtomicUpload(sess[s].path) THEN "rename"
                     ELSE "createExisting"]
    /\ UNCHANGED <<disk, usedUser, usedFolder>>

(***************************************************************************)
(* fs.Rename(resolvedPath, filePath): the existing file is moved to the   *)
(* atomic-upload staging path before it is opened.  The rename fails when *)
(* the source has gone or the backend reports an error.                   *)
(***************************************************************************)
AtomicRename(s) ==
    /\ sess[s].pc = "rename"
    /\ LET p == sess[s].path IN
       \/ /\ disk[p].kind # "file" \/ "rename" \in BackendFaults
          /\ Fail(s, "fserror")
          /\ UNCHANGED disk
       \/ /\ disk[p].kind = "file"
          /\ disk' = [disk EXCEPT ![p] = NoEntry]
          /\ sess' = [sess EXCEPT ![s].pc = "createExisting", ![s].base = disk[p].size]
    /\ UNCHANGED <<usedUser, usedFolder>>

\* size the opened file has right after fs.Create with these flags
Opened(old, trunc) == IF trunc \/ old.kind # "file" THEN 0 ELSE old.size

(***************************************************************************)
(* fs.Create(filePath, osFlags): the staging file under atomic upload, the *)
(* final path itself on a local backend, nothing visible on an object     *)
(* store until the transfer is closed.  base is what the writes land on.  *)
(* A local create on a symlink follows it, so the write lands on the      *)
(* link's target and the link itself stays.                               *)
(***************************************************************************)
WritesThroughLink(p) == ~UsesAtomicUpload(p) /\ disk[p] = LinkEntry

\* fault-injection variant: the staging path is ignored and the final file opened
CreateFileIgnoresStaging(s) ==
    LET st == sess[s]
        p == st.path
        direct == FsOf[p] = "local"
    IN IF direct /\ ~WritesThroughLink(p)
       THEN disk' = [disk EXCEPT ![p] = FileOf(Opened(disk[p], st.flags.trunc))]
       ELSE UNCHANGED disk

CreateFile(s) ==
    LET st == sess[s]
        p == st.path
        direct == ~UsesAtomicUpload(p) /\ FsOf[p] = "local"
    IN IF direct /\ ~WritesThroughLink(p)
       THEN disk' = [disk EXCEPT ![p] = FileOf(Opened(disk[p], st.flags.trunc))]
       ELSE UNCHANGED disk

CreateBase(s) ==
    LET st == sess[s] IN
    CASE st.isNewFile -> 0
      [] UsesAtomicUpload(st.path) -> Opened(FileOf(st.base), st.flags.trunc)
      [] OTHER -> IF st.isResume THEN st.fileSize ELSE 0

\* handleSFTPUploadToNewFile from fs.Create on
CreateNewFile(s) ==
    /\ sess[s].pc = "createNew"
    /\ \/ /\ "create" \in BackendFaults
          /\ Fail(s, "fserror")
          /\ UNCHANGED disk
       \/ /\ CreateFile(s)
          /\ sess' = [sess EXCEPT ![s].pc = "transfer", ![s].base = CreateBase(s)]
    /\ UNCHANGED <<usedUser, usedFolder>>

\* a resume with APPEND, or on a backend that only emulates resume, may not
\* rewrite the bytes already there
\* fault-injection variant: off by one past the old end
MinWriteOffsetPastEnd(st) ==
    IF st.isResume /\ (st.flags.append \/ ~IsUploadResumeSupported(st.path))
    THEN st.fileSize + 1 ELSE 0

MinWriteOffset(st) ==
    IF st.isResume /\ (st.flags.append \/ ~IsUploadResumeSupported(st.path))
    THEN st.fileSize ELSE 0

(***************************************************************************)
(* handleSFTPUploadToExistingFile from fs.Create on: a resume keeps the   *)
(* old bytes (and enforces the old end as minimum offset with APPEND or   *)
(* emulated resume); a truncation either is debited now, when the backend *)
(* truncates on open, or is carried as truncatedSize to the transfer.     *)
(***************************************************************************)
CreateExistingFile(s) ==
    /\ sess[s].pc = "createExisting"
    /\ LET st == sess[s]
           p == st.path
           nativeTrunc == st.flags.trunc /\ HasTruncateSupport(p)
       IN \/ /\ "create" \in BackendFaults
             /\ Fail(s, "fserror")
             /\ UNCHANGED disk
          \/ /\ CreateFile(s)
             /\ sess' = [sess EXCEPT ![s].pc = IF nativeTrunc THEN "truncateQuota" ELSE "transfer",
                   ![s].base = CreateBase(s),
                   ![s].minWriteOffset = MinWriteOffset(st),
                   ![s].initialSize = IF nativeTrunc THEN 0 ELSE st.fileSize,
                   ![s].truncatedSize =
                       IF ~st.isResume /\ ~nativeTrunc THEN st.fileSize ELSE 0]
    /\ UNCHANGED <<usedUser, usedFolder>>

\* c.updateQuotaAfterTruncate(requestPath, fileSize), right after Create
TruncateQuota(s) ==
    /\ sess[s].pc = "truncateQuota"
    /\ UpdateQuotaAfterTruncate(sess[s].path, sess[s].fileSize)
    /\ sess' = [sess EXCEPT ![s].pc = "transfer"]
    /\ UNCHANGED disk

(***************************************************************************)
(* The transfer's close (common.BaseTransfer, external): the client wrote *)
(* w contiguous bytes from offset o >= minWriteOffset, capped by           *)
(* maxWriteSize; the staging file is renamed into place or the object     *)
(* committed; the quota is charged the final size less initialSize, and a *)
(* new file counts one file.                                              *)
(***************************************************************************)
WriteLimit(st, o) ==
    IF st.maxWriteSize > 0 THEN Smaller(st.maxWriteSize, MaxSize - o) ELSE MaxSize - o

CloseTransfer(s) ==
    /\ sess[s].pc = "transfer"
    /\ LET st == sess[s]
           p == st.path
           direct == ~UsesAtomicUpload(p) /\ FsOf[p] = "local"
           base == IF direct THEN disk[p].size ELSE st.base
       IN \E o \in st.minWriteOffset..base :
          \E w \in 0..WriteLimit(st, o) :
            LET final == Larger(base, o + w) IN
            /\ disk' = IF direct /\ WritesThroughLink(p) THEN disk
                       ELSE [disk EXCEPT ![p] = FileOf(final)]
            /\ UpdateQuota(p, IF st.isNewFile THEN 1 ELSE 0, final - st.initialSize)
            /\ sess' = [sess EXCEPT ![s] = Idle(p, st.seen, "ok")]

(***************************************************************************)
(* A read through the handle of an upload opened for reading (the         *)
(* transfer's ReadAt, external): the deferred errForRead is returned at   *)
(* the first read attempt; otherwise the file being written is read.      *)
(***************************************************************************)
ReadAt(s) ==
    /\ sess[s].pc = "transfer"
    /\ sess[s].flags.read
    /\ sess' = [sess EXCEPT ![s].readResult =
                    IF sess[s].readErr # "none" THEN sess[s].readErr ELSE "ok"]
    /\ UNCHANGED <<disk, usedUser, usedFolder>>

Next ==
    \E s \in Sessions :
       \/ \E p \in SessionPaths[s] :
            \/ WriteNotAllowed(s, p)
            \/ WriteStatFailed(s, p)
            \/ \E fl \in Flags : WriteOpen(s, p, fl)
       \/ QuotaNewFile(s)
       \/ QuotaExistingFile(s)
       \/ PreUploadHook(s)
       \/ AtomicRename(s)
       \/ CreateNewFile(s)
       \/ CreateExistingFile(s)
       \/ TruncateQuota(s)
       \/ ReadAt(s)
       \/ CloseTransfer(s)

Spec == Init /\ [][Next]_vars

-----------------------------------------------------------------------------
TypeOK ==
    /\ disk \in [Paths -> Entry]
    /\ usedUser \in Usage
    /\ usedFolder \in [Folders -> Usage]
    /\ sess \in [Sessions -> Session]

(***************************************************************************)
(* Whenever no write is in progress, the quota counters kept by the data  *)
(* provider equal the bytes and files actually stored: the truncation     *)
(* debit in updateQuotaAfterTruncate, the initialSize/truncatedSize the   *)
(* handler gives the transfer and the transfer's final charge cancel out  *)
(* exactly, for every backend, flag combination and quota routing.        *)
(***************************************************************************)
QuotaMatchesDisk ==
    (\A s \in Sessions : sess[s].pc = "idle") =>
        /\ usedUser = UserUsage
        /\ \A f \in Folders : usedFolder[f] = FolderUsage(f)

(***************************************************************************)
(* The data model's invariant: used quota size and file count are never   *)
(* negative after an update (spec section 3, BaseVirtualFolder).          *)
(***************************************************************************)
QuotaNeverNegative ==
    /\ usedUser.size >= 0 /\ usedUser.files >= 0
    /\ \A f \in Folders : usedFolder[f].size >= 0 /\ usedFolder[f].files >= 0

(***************************************************************************)
(* A step that raises a quota counter never takes it over its limit: the  *)
(* HasSpace gate and the maxWriteSize computed at open bound what the      *)
(* transfer may add.                                                       *)
(***************************************************************************)
WithinLimit(used, limit) ==
    /\ limit.size > 0 /\ used'.size > used.size => used'.size <= limit.size
    /\ limit.files > 0 /\ used'.files > used.files => used'.files <= limit.files

QuotaGrowthWithinLimit ==
    [][/\ WithinLimit(usedUser, UserQuota)
       /\ \A f \in Folders : ~IsIncludedInUserQuota(f) =>
              WithinLimit(usedFolder[f], FolderQuota[f])]_<<usedUser, usedFolder>>

(***************************************************************************)
(* A write-open that ends in an error leaves the file the client named as *)
(* it found it: atomic upload is meant to keep the old content under the  *)
(* final name until a new one replaces it (spec glossary, section 5).      *)
(***************************************************************************)
FailedOpenKeepsFile ==
    \A s \in Sessions :
        sess[s].pc = "idle" /\ sess[s].result \in Errors => disk[sess[s].path] = sess[s].seen

(***************************************************************************)
(* Data of a file being uploaded is read back through the write handle    *)
(* only when the user may download from its directory and the backend can *)
(* read and write one file at once (spec section 4.1, Write-open); in     *)
(* every other case the read fails with the deferred errForRead, and a    *)
(* missing download permission is reported as such, whatever the backend. *)
(***************************************************************************)
ReadNeedsDownloadPermission ==
    \A s \in Sessions :
        /\ sess[s].readResult = "ok" =>
               sess[s].path \in PermDownload /\ HasOpenRWSupport(sess[s].path)
        /\ sess[s].readResult # "none" /\ sess[s].path \notin PermDownload =>
               sess[s].readResult = "permission"

-----------------------------------------------------------------------------
(***************************************************************************)
(* Refinement mapping to UploadStore.  The content a client can name at p *)
(* is disk[p]; the content set aside for p is the file an atomic overwrite *)
(* renamed to the staging path, from the rename until the transfer's close.*)
(***************************************************************************)
MovedAside(p) ==
    {s \in Sessions : /\ sess[s].path = p
                      /\ ~sess[s].isNewFile
                      /\ UsesAtomicUpload(p)
                      /\ sess[s].pc \in {"createExisting", "truncateQuota", "transfer"}}

\* the renamed file at the staging path: the old file until
\* updateQuotaAfterTruncate has debited it, then what Create left of it
StagedFile(p) ==
    IF MovedAside(p) = {} THEN NoEntry
    ELSE LET st == sess[CHOOSE s \in MovedAside(p) : TRUE]
         IN FileOf(IF st.pc = "truncateQuota" THEN st.fileSize ELSE st.base)

\* the user's counter is named NoFolder, each folder's by the folder
ScopesOfPath(p) ==
    (IF ChargesUser(p) THEN {NoFolder} ELSE {}) \cup (IF ChargesFolder(p) THEN {FolderOf[p]} ELSE {})

Store == INSTANCE UploadStore
           WITH Scopes <- Folders \cup {NoFolder},
                ScopesOf <- [p \in Paths |-> ScopesOfPath(p)],
                files <- disk,
                staged <- [p \in Paths |-> StagedFile(p)],
                used <- [a \in Folders \cup {NoFolder} |->
                           IF a = NoFolder THEN usedUser ELSE usedFolder[a]]

(***************************************************************************)
(* With atomic upload, sessions on separate paths and no create fault,    *)
(* the write path implements UploadStore.  What a client can name is the  *)
(* disk itself: the rename to the staging path at handler.go:459 empties   *)
(* the name until the transfer's close renames the upload into place.      *)
(* The counters are the real ones: at every step they charge the named     *)
(* files plus the file at the staging path, updateQuotaAfterTruncate       *)
(* being the step at which the emptied staging file stops being charged.  *)
(***************************************************************************)
UploadStoreRefined == Store!Spec
=============================================================================
