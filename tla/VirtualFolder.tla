--------------------------- MODULE VirtualFolder ---------------------------
(***************************************************************************)
(* The folder record of internal/vfs/folder.go: copying it, preparing it   *)
(* for rendering, the quota scan and the metadata check of its backend.    *)
(*                                                                         *)
(* Go slices are references to backing arrays, so the model keeps a heap: *)
(* store maps an array id to its contents, and a folder's Users and Groups *)
(* hold array ids.  Handles name the folder values the program holds (the  *)
(* original and the copies GetACopy returns); a caller that owns a copy    *)
(* may assign an element of its lists, which writes the backing array.     *)
(***************************************************************************)
EXTENDS Naturals, Sequences

CONSTANTS
    Handles,         \* folder values the program may hold
    Original,        \* the handle loaded first, in Handles
    Names,           \* user and group names
    MaxArrays,       \* backing arrays that may be allocated
    SliceLen,        \* length of the Users and Groups lists
    Providers,       \* backend kinds: "local", "crypt", "s3", "gcs", "azblob", "sftp", "http"
    WritableFields   \* the lists callers assign elements of: subset of {"users", "groups"}

ASSUME Original \in Handles /\ WritableFields \subseteq {"users", "groups"}

VARIABLES
    store,      \* array id -> list contents
    nextArray,  \* the next array id make() hands out
    folder,     \* handle -> folder record, or Absent
    probe,      \* the last backend probe: ScanQuota or CheckMetadataConsistency, on which handle, and its result
    rendered    \* handle -> whether the value went through PrepareForRendering

vars == <<store, nextArray, folder, probe, rendered>>

Arrays == 1..MaxArrays
Absent == [provider |-> "none"]
Lists == [1..SliceLen -> Names]
ProbeResults == {"none", "placeholder_error", "fs_error", "scan_error", "metadata_error", "ok"}
Probe == [op: {"none", "scan", "metadata"}, handle: Handles, result: ProbeResults]

\* backends whose configuration carries a secret (OSConfig has none)
HasSecret(p) == p # "local"

Folder == [users: Arrays, groups: Arrays, provider: Providers,
           placeholder: BOOLEAN, secret: {"none", "plain", "redacted"}]

Live == {h \in Handles : folder[h] # Absent}

(***************************************************************************)
(* Init: the folder as the data provider loads it, with its own lists.    *)
(***************************************************************************)
Init ==
    /\ \E users, groups \in Lists :
         store = [a \in Arrays |-> CASE a = 1 -> users
                                   [] a = 2 -> groups
                                   [] OTHER -> CHOOSE l \in Lists : TRUE]
    /\ nextArray = 3
    /\ \E p \in Providers, ph \in BOOLEAN :
         folder = [h \in Handles |->
                     IF h = Original
                     THEN [users |-> 1, groups |-> 2, provider |-> p, placeholder |-> ph,
                           secret |-> IF HasSecret(p) THEN "plain" ELSE "none"]
                     ELSE Absent]
    /\ probe = [op |-> "none", handle |-> Original, result |-> "none"]
    /\ rendered = [h \in Handles |-> FALSE]

(***************************************************************************)
(* BaseVirtualFolder.GetACopy and VirtualFolder.GetACopy: two new arrays   *)
(* are made and filled; Users takes its copy, Groups keeps the source's    *)
(* array.  FsConfig.GetACopy copies the configuration, secret included.    *)
(***************************************************************************)
\* fault-injection variant: the users list is shared as well
GetACopyShallow(src, dst) ==
    /\ folder[src] # Absent /\ folder[dst] = Absent
    /\ nextArray + 1 <= MaxArrays
    /\ store' = [store EXCEPT ![nextArray] = store[folder[src].users],
                              ![nextArray + 1] = store[folder[src].groups]]
    /\ nextArray' = nextArray + 2
    /\ folder' = [folder EXCEPT ![dst] = folder[src]]
    /\ rendered' = [rendered EXCEPT ![dst] = rendered[src]]
    /\ UNCHANGED probe

GetACopy(src, dst) ==
    /\ folder[src] # Absent /\ folder[dst] = Absent
    /\ nextArray + 1 <= MaxArrays
    /\ store' = [store EXCEPT ![nextArray] = store[folder[src].users],
                              ![nextArray + 1] = store[folder[src].groups]]
    /\ nextArray' = nextArray + 2
    /\ folder' = [folder EXCEPT ![dst] = [folder[src] EXCEPT !.users = nextArray]]
    /\ rendered' = [rendered EXCEPT ![dst] = rendered[src]]
    /\ UNCHANGED probe

(***************************************************************************)
(* A holder of a folder value assigns one element of one of its lists.    *)
(***************************************************************************)
AssignElem(h, f, i, n) ==
    /\ folder[h] # Absent
    /\ store' = [store EXCEPT ![folder[h][f]][i] = n]
    /\ UNCHANGED <<nextArray, folder, probe, rendered>>

(***************************************************************************)
(* PrepareForRendering: hideConfidentialData redacts the secret of every  *)
(* backend kind its switch lists; SetEmptySecretsIfNil only fills in nil  *)
(* secrets and changes nothing the model records.                          *)
(***************************************************************************)
\* fault-injection variant: the switch misses the HTTP backend
HiddenKindsNoHTTP == {"s3", "gcs", "azblob", "crypt", "sftp"}

HiddenKinds == {"s3", "gcs", "azblob", "crypt", "sftp", "http"}

PrepareForRendering(h) ==
    /\ folder[h] # Absent
    /\ folder' = [folder EXCEPT ![h].secret =
                     IF folder[h].provider \in HiddenKinds /\ @ = "plain" THEN "redacted" ELSE @]
    /\ rendered' = [rendered EXCEPT ![h] = TRUE]
    /\ UNCHANGED <<store, nextArray, probe>>

(***************************************************************************)
(* hasPathPlaceholder looks for %username% in the path the backend kind   *)
(* resolves: the key prefix of S3, GCS and Azure, the SFTP prefix, the    *)
(* mapped path of local and encrypted folders; HTTP has none.             *)
(***************************************************************************)
PlaceholderKinds == {"s3", "gcs", "azblob", "sftp", "local", "crypt"}

HasPathPlaceholder(fd) == fd.provider \in PlaceholderKinds /\ fd.placeholder

\* GetFilesystem: OsFs is built without error; every other constructor may fail
MayFailToOpen(p) == p # "local"

(***************************************************************************)
(* ScanQuota: refuse a templated path, open the backend, scan its root.   *)
(***************************************************************************)
ScanQuota(h) ==
    /\ folder[h] # Absent
    /\ \/ /\ HasPathPlaceholder(folder[h])
          /\ probe' = [op |-> "scan", handle |-> h, result |-> "placeholder_error"]
       \/ /\ ~HasPathPlaceholder(folder[h])
          /\ \E r \in {"scan_error", "ok"} \cup
                      (IF MayFailToOpen(folder[h].provider) THEN {"fs_error"} ELSE {}) :
               probe' = [op |-> "scan", handle |-> h, result |-> r]
    /\ UNCHANGED <<store, nextArray, folder, rendered>>

(***************************************************************************)
(* CheckMetadataConsistency: open the backend and delegate to its          *)
(* CheckMetadata.  Unlike ScanQuota it has no placeholder guard, so a      *)
(* templated path is opened as it is written.                              *)
(***************************************************************************)
CheckMetadataConsistency(h) ==
    /\ folder[h] # Absent
    /\ \E r \in {"metadata_error", "ok"} \cup
                (IF MayFailToOpen(folder[h].provider) THEN {"fs_error"} ELSE {}) :
         probe' = [op |-> "metadata", handle |-> h, result |-> r]
    /\ UNCHANGED <<store, nextArray, folder, rendered>>

Next ==
    \/ \E src, dst \in Handles : GetACopy(src, dst)
    \/ \E h \in Handles, f \in WritableFields, i \in 1..SliceLen, n \in Names :
         AssignElem(h, f, i, n)
    \/ \E h \in Handles : PrepareForRendering(h)
    \/ \E h \in Handles : ScanQuota(h)
    \/ \E h \in Handles : CheckMetadataConsistency(h)

Spec == Init /\ [][Next]_vars

-----------------------------------------------------------------------------
TypeOK ==
    /\ store \in [Arrays -> Lists]
    /\ nextArray \in 3..MaxArrays + 1
    /\ folder \in [Handles -> Folder \cup {Absent}]
    /\ probe \in Probe
    /\ rendered \in [Handles -> BOOLEAN]

\* the users and groups a folder value shows
ListsOf(h) == [users |-> store[folder[h].users], groups |-> store[folder[h].groups]]

(***************************************************************************)
(* Spec section 8, round trip of GetACopy: a copy is reference-independent *)
(* of its source, so no step changes the lists two folder values show.    *)
(* It takes a copy and a later assignment through one of the two values.  *)
(***************************************************************************)
CopyListsIndependent ==
    [][\A a, b \in Live : a # b /\ a \in Live' /\ b \in Live' =>
           ListsOf(a)' = ListsOf(a) \/ ListsOf(b)' = ListsOf(b)]_vars

(***************************************************************************)
(* Spec section 4.3, redaction for safe exposure: a folder value that    *)
(* PrepareForRendering has handled shows no plain secret, whatever its    *)
(* backend kind, and neither does a copy GetACopy makes of such a value. *)
(***************************************************************************)
RenderedStaysRedacted ==
    \A h \in Live : rendered[h] => folder[h].secret # "plain"
=============================================================================
