# TLA+ models of the SFTP request-handling core

This directory holds TLA+ models of `src/internal/sftpd/handler.go` (the SFTP
connection's request handlers) and `src/internal/vfs/folder.go` (the virtual
folder record). TLC checks them. `PROJECT.json` lists:

- every component, with its status;
- every run and what it asks;
- the mutant that each property of a passing run must detect;
- the source lines each definition models;
- the findings;
- the hazards of the code.

## 1. The system and its parts

| Part | Code | What it does |
|---|---|---|
| Protocol Request Dispatcher | `Connection.Fileread`, `Filecmd`, `Filelist`, `Readlink`, `Lstat`, `RealPath`, `StatVFS`, `canReadLink`, `handleSFTPRemove`, `handleSFTPSetstat`, `Disconnect` | Turns one SFTP request into a permission check, a file-policy check, backend calls and one protocol answer. |
| Upload State Machine | `handleFilewrite`, `handleSFTPUploadToNewFile`, `handleSFTPUploadToExistingFile`, `updateQuotaAfterTruncate`, `getOSOpenFlags` | Chooses new file, overwrite, resume or truncate. Gates on quota, runs the pre-upload hook and optionally stages the file under an atomic-upload path. Opens the backend and debits the quota of truncated bytes. |
| StatVFS synthesis and Setstat translation | `StatVFS`, `getStatVFSFromQuotaResult`, `handleSFTPSetstat` | Builds `statvfs` figures from the quota check and the backend's disk statistics, and turns a setstat request's flags into a `common.StatAttributes` bitmask. |
| Virtual Folder Resolver | `folder.go` | The folder record: copying it, redacting secrets, detecting path placeholders, scanning quota, choosing the backend, and the quota classification (`IsIncludedInUserQuota`, `HasNoQuotaRestrictions`). |
| External collaborators | `common.BaseConnection`, `common.BaseTransfer`, `dataprovider`, the `vfs.Fs` backends, hooks | Quota checks and counters, the transfer's close, permissions and policy, backend I/O. Only their contracts (spec §6) are modelled. |

How the parts interact:

- Each SFTP session runs its requests on its own goroutine.
- Sessions share the storage backend and the data provider's quota counters.
- Every backend call, quota-store call and hook is blocking and made with no
  lock held (spec §5). Another session's step can therefore fall between any
  two of them.
- An upload's handler computes its quota decisions when the file is opened. The
  external transfer charges the final size when it is closed.

## 2. Modules and how they correspond to the code

| Module | Models | State | Actions |
|---|---|---|---|
| `SftpUpload` | The write path, for several sessions of one user | `disk` (what `Lstat` sees at each path: nothing, a directory, a symlink or a file of some size); `usedUser` and `usedFolder` (the data provider's counters); `sess` (each session's program counter and the locals the handler carries: flags, stat result, quota result, maxWriteSize, minWriteOffset, initialSize, truncatedSize, errForRead) | `WriteNotAllowed`, `WriteStatFailed`, `WriteOpen` (`handleFilewrite`, with `ErrForRead`; a symlink target goes to the new-file path); `QuotaNewFile` / `QuotaExistingFile` (quota gate and GetMaxWriteSize); `PreUploadHook`; `AtomicRename`; `CreateNewFile` / `CreateExistingFile` (fs.Create and what follows); `TruncateQuota` (`updateQuotaAfterTruncate`); `ReadAt` and `CloseTransfer` (the external transfer's read and close, from the spec) |
| `UploadStore` | What an atomic upload promises, from the spec | `files` (the content under each name); `staged` (content set aside for a name while an upload replaces it); `used` (each quota counter) | `MoveAside(p)`: the file under p is set aside and the name holds nothing, counters unchanged; `Truncate(p)`: the set-aside content is emptied and its charge dropped; `Replace(p, n)`: p holds a complete n-byte file, nothing is set aside, and each counter charged for p moves by the difference from what it was charged for |
| `SftpDispatcher` | The non-upload handlers, for several sessions on one namespace | `entries` (the kind of entry at each path); `channel`; `removing` (the Lstat result a Remove carries to its RemoveFile); `resp` (the last answer of each session and whether it touched last activity) | `Fileread`, `Readlink`, `Lstat`, `FilelistStat`, `FilelistList`, `RealPath`, `Filecmd`, `RemoveLstat`, `RemoveFile`, `Disconnect` |
| `SftpAttributes` | `StatVFS` with `getStatVFSFromQuotaResult`, and `handleSFTPSetstat`, as pure functions | `req` and `reply` (a statvfs request's quota result and backend answer, and the reply); `setReq` and `attrs` (a setstat request's flags and values, and the `common.StatAttributes` built from them). The pair of the handler a step did not run holds `NoRequest`. | `StatVFS(r)` and `Setstat(r)` answer request `r`. The uint64 conversions are `% Word`, and `Int64` is the int64 reading of a uint64. The `|=` chain of `handleSFTPSetstat` is Bitwise `|`. |
| `VirtualFolder` | `folder.go` | A heap of backing arrays (`store`, `nextArray`), because Go slices are references; `folder` (each held folder value: list array ids, provider, placeholder, secret); `probe` (the last `ScanQuota` or `CheckMetadataConsistency`: which folder value, and its result); `rendered` | `GetACopy`, `AssignElem` (a caller assigning a list element), `PrepareForRendering`, `ScanQuota`, `CheckMetadataConsistency` (no placeholder guard, unlike `ScanQuota`) |

`SftpUpload` ends with the refinement mapping to `UploadStore`:

- `files` is `disk` itself. The rename to the staging path (`AtomicRename`,
  handler.go:459) empties the name, and only `CloseTransfer` fills it again.
- `staged[p]` (`StagedFile(p)`) is the file at the staging path of an atomic
  overwrite of p, from `AtomicRename` until `CloseTransfer`. `fs.Create` with
  `O_TRUNC` empties it one step before `updateQuotaAfterTruncate` debits it.
  The mapping counts it as the old file until that debit, so the abstract
  `Truncate` is the debit step. The staging file has no name a client can use,
  so this choice hides nothing a client sees.
- `used` is the data provider's counters, unchanged. The user's counter is
  named `NoFolder`. Each folder's counter is named by the folder.

`Store == INSTANCE UploadStore WITH ...` applies this mapping, and
`UploadStoreRefined == Store!Spec` is checked as a property.

Each `MC_*` module instantiates a model for TLC with model values and small
constant definitions.

Handlers are split only where the code makes a blocking call. Everything
between two such calls is one action: guards, early returns, and the
assignments to the locals the rest of the handler reads.

Data is abstracted as follows:

- Paths are model values, all children of `/`.
- File contents are reduced to sizes.
- Policies, permissions, hook vetoes and transfer-quota answers are constants
  or nondeterministic choices.
- Log lines and message wording are left out.

## 3. Runs

| Run | Expect | Checks | What it shows |
|---|---|---|---|
| `upload_atomic` | pass | `TypeOK`, `QuotaMatchesDisk`, `QuotaGrowthWithinLimit`, `UploadStoreRefined` | Two sessions on disjoint paths with atomic uploads and rename faults. One session has the home path (which may hold a symlink) and an object-store folder included in the user quota. The other has a local folder with its own 2-byte quota. The write path implements `UploadStore`. A name holds the old file, then nothing from the rename to the staging path, then a complete new file, never a partial one. At every step the counters charge the named files plus the staged one. Whenever every session is idle the counters equal the stored usage. No step pushes a counter past its limit. |
| `upload_direct` | pass | `TypeOK`, `QuotaMatchesDisk`, `QuotaGrowthWithinLimit`, `ReadNeedsDownloadPermission` | The quota questions without atomic upload, on a local and an object-store path. Adds denied names, missing upload/overwrite/download permission, stat and create faults, read-write opens and a file-count limit. A read through a write handle returns data only with download permission on a backend with read-write support. Without download permission it answers permission-denied, whatever the backend. |
| `upload_shared_file` | violation | `QuotaNeverNegative` | Two sessions writing one file drive the user quota below zero. |
| `upload_overcommit` | violation | `QuotaGrowthWithinLimit` | Two uploads in one quota scope together exceed the limit. |
| `upload_atomic_create_fails` | violation | `FailedOpenKeepsFile` | A failed atomic overwrite loses the existing file. |
| `dispatch` | pass | `TypeOK` | Two sessions on disjoint paths issue every non-upload request. Every answer and listing stays within its type, the dot entries of a listing included. The run exists to exercise every handler; the dispatcher's questions are asked by the two violation runs below. |
| `dispatch_denied_names` | violation | `DeniedNameAnswers` | A hidden file can answer permission-denied or quota on read-open (handler.go:77), and Readlink of a name under the plain deny policy is not refused (canReadLink, handler.go:345). With the Fileread order corrected in a scratch copy, TLC still finds the Readlink case. |
| `dispatch_remove_race` | violation | `RemoveKeepsDirectories` | Between Remove's Lstat and its RemoveFile, another session moves the file away and makes a directory at the path; RemoveFile removes the (empty) directory. |
| `attributes` | pass | `BlockSizeMatchesReference`, `SetstatMatchesReference` | The block size equals a reference definition for every effective quota size. Setstat's bitmask names exactly the attribute groups the request flags, and their values are copied. |
| `statvfs_free_bound` | violation | `FreeWithinTotal` | When used exceeds the backend total, `bfree` and `ffree` wrap around. |
| `folder_copy` | pass | `CopyListsIndependent`, `RenderedStaysRedacted` | Users lists of copies are independent, and rendered values show no plain secret. |
| `folder_copy_groups` | violation | `CopyListsIndependent` | Groups lists are shared between a copy and its original. |

One further divergence is visible in the source in one step and is not a
hazard a model checker is needed for: `Readlink` and `RealPath` never call
`UpdateLastActivity` (handler.go:246, 285), although spec section 4.1 says
every handler does. The dispatcher model records it in the response's
`touched` flag.

Every violation run checks one property that the spec (§3, §4.1, §5, §8)
states of the program. TLC finds it violated. `PROJECT.json` "findings"
explains each one:

- the truncate debit uses a stale `Lstat` size;
- concurrent uploads over-commit the quota;
- an atomic overwrite does not roll back its rename;
- `Fileread` checks permission and quota before the policy;
- `canReadLink` refuses only hidden names, not denied ones;
- Remove has a check-then-act race;
- `getStatVFSFromQuotaResult` wraps its uint64 differences;
- `GetACopy` shares `Groups`.

`UploadStoreRefined` is not claimed for the direct configuration, where
`fs.Create` truncates the named file at open, or with create faults, where
`upload_atomic_create_fails` shows the file lost.

Each property of a passing run has a mutant in `PROJECT.json`. A mutant is an
operator next to the definition it replaces, written as a plausible bug: an
off-by-one offset, a truncate debit that skips the user, a new-file quota gate
that ignores the disk quota, swapped dot entries, a halving block-size loop, a
shallow copy, a redaction switch that misses HTTP, a create that ignores the
staging path, an errForRead that forgets the download permission, and a
Setstat whose times branch copies the values but sets no flag. TLC finds each
of them under its run's configuration.

The resume offset of handler.go:482 is checked only on one side: an offset one
past the old end breaks `TypeOK` at the largest size, but a zero offset
(rewriting bytes the client may not rewrite) changes no size and so no
property of this model, which keeps sizes rather than contents.

## 4. Bounds and why they are enough

**SftpUpload**

- Two sessions and three paths: one in the user home, one in a local folder
  with its own quota of 2 bytes, and one in an object-store folder included in
  the user quota.
- File sizes are 0..2.
- The passing runs give the user a quota of 3 bytes and 1 file. The violation
  runs give it 2 bytes.
- With these bounds:
  - the gate is reached both with space and without it, by bytes in the folder
    and by file count for the user;
  - a truncate debits a non-zero size;
  - a resume at the largest size passes the gate;
  - a resume on an object store both fits and does not fit
    `ObjectResumeMax` = 1.
- Every open flag combination (trunc × append) is enumerated. The read flag
  is enumerated in `upload_direct` (`ReadOpens = {FALSE, TRUE}`), with one local
  path with download permission and one object-store path without it. This
  covers both the served read and the permission override. The atomic run,
  which also checks the refinement, opens write-only.
- `LinkPaths = {p1}` in `upload_atomic` lets the home path hold a symlink,
  which the staged upload replaces.
- Both races need only two sessions and one or two paths, so the bounds cover
  them.

**SftpDispatcher**

- Two sessions and four paths (root and three children).
- The link targets form a chain through hidden and denied names.
- The policy assigns allow, hide and deny.
- Every request kind on every path of a session is enabled whenever the
  session has no Remove in flight.
- A session's requests are served one at a time; the race needs two sessions.

**SftpAttributes**

- A 20-bit word stands for 2^64 and 2^18 bytes for the 8 TiB headroom. Every
  value computed without wrapping stays below the word, so a wrap in the model
  is a wrap in the code.
- Quota sizes 0, 1, 64, 100, 4096 and 20000 cover each exit of the block-size
  loop.
- Backend totals are both above and below the used sizes.
- Setstat requests take every subset of the four attribute groups. The
  sizes 0, 5, 2^19 - 1 and 2^19 sit on both sides of the scaled int64
  boundary. `SetstatMatchesReference` leaves the sizes at or above it out of
  its size comparison, because of the hazard at handler.go:372.

**VirtualFolder**

- Four handles allow copies of copies.
- Seven arrays are enough for three copies' allocations and leave the
  allocation bound reachable.
- One-element lists over two names make every assignment visible.
- Symmetry is over names and over the three copy handles. No definition names
  a particular one.

## 5. Fairness

No run checks a liveness property, and every specification is `Spec`, with
no fairness. The only eventuality in this code is that a handler that has
started answers. Every handler step in the model is enabled until it is taken
and waits on no other session, so fairness on those steps would make that
property hold by construction; it says nothing the model's shape does not. What
could stop a handler (a backend or hook call that never returns) is outside
this code.

Deadlock is checked in every passing run. An idle session can always issue
another request, so no state is terminal.

## 6. What is not modelled, and why

- **Backends, data provider, authentication, hooks and logging.** These are
  outside this code. Their answers are nondeterministic within their contracts.
- **`HasSpace`, `GetMaxWriteSize` and `BaseTransfer.Close`.** These are
  modelled from the spec and marked `spec_modelled` in the map.
- **What `SetStat` does with the attributes `handleSFTPSetstat` builds.**
  It lives in `common`. `SftpAttributes` models the translation, and the
  dispatcher keeps Setstat as a command without effect on its entries. The
  uint64-to-int64 size conversion (handler.go:372) is listed as a hazard. A
  size of 2^63 or more becomes negative, and what that does is decided by
  `SetStat` outside this code.
- **The connection getters** (`GetClientVersion`, `GetLocalAddress`,
  `GetRemoteAddress`, `GetCommand`) **and the `OpenFile`/`Filewrite`
  wrappers.** The getters format fields. The wrappers only call
  `handleFilewrite`, which is `WriteOpen` of `SftpUpload`.
- **Formatting getters in `folder.go`** (`GetUsersAsString`, `GetQuotaSummary`,
  `GetStorageDescrition`, `GetEncryptionAdditionalData`,
  `GetLastQuotaUpdateAsString`), `IsLocalOrLocalCrypted`, `HasRedactedSecret`
  **and the scalar fields `VirtualFolder.GetACopy` adds.** The getters only
  format. No caller in this code makes the two queries. The copied scalars
  (`VirtualPath`, `QuotaSize`, `QuotaFiles`) are not in the model's folder
  record. None of these changes state.
- **Cancellation of in-flight transfers at disconnect.** It belongs to the
  transfer layer.
- **The `GetFsAndResolvedPath` errors in `StatVFS` and `handleFilewrite`
  (handler.go:132-135).** Each is an early error return before any state
  changes; in `SftpUpload` it would answer like `WriteStatFailed`.
- **Pipelined requests of one session.** The request server may run several
  requests of a session at once. The dispatcher serves them one at a time
  (`Serving`), so the races it checks are between sessions.
- **`DoStat`'s hide check in `StatResult`.** No property is about what
  `Lstat` answers for a hidden name.

## 7. Plan for later work

1. Compose the upload and dispatcher models over one shared namespace. A
   `Rename` or `Remove` of one session then races an upload of another.
2. Cover the hazards that still have no property: in-flight requests at
   `Disconnect`, a direct write through a symlink, and the Setstat size
   conversion. Each depends on behaviour outside this code (transfer
   cancellation, the local backend's `Create`, `SetStat`), so each first
   needs a model of that contract.
3. Model the backend kinds' `GetFilesystem` constructors and
   `SetEmptySecretsIfNil` with secrets that may be nil.
