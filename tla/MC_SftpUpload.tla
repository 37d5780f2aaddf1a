--------------------------- MODULE MC_SftpUpload ---------------------------
(***************************************************************************)
(* Model-checking instance of SftpUpload: two sessions of one user, a     *)
(* home path, a path in a folder with its own quota and a path in a       *)
(* folder on an object store that is included in the user quota.          *)
(***************************************************************************)
EXTENDS SftpUpload, TLC

CONSTANTS s1, s2, p1, p2, p3, f1, f2

MC_Folders == {f1, f2}
MC_FolderOf == (p1 :> NoFolder) @@ (p2 :> f1) @@ (p3 :> f2)
MC_FolderQuota == (f1 :> [size |-> 2, files |-> 0]) @@ (f2 :> [size |-> -1, files |-> -1])
\* a limit the two user-scope paths can fill: by size, or by file count
MC_UserSizeQuota == [size |-> 2, files |-> 0]
MC_UserFilesQuota == [size |-> 3, files |-> 1]
MC_FsOf == (p1 :> "local") @@ (p2 :> "local") @@ (p3 :> "object")

\* each session's paths lie in one quota scope of its own
MC_DisjointScopes == (s1 :> {p1, p3}) @@ (s2 :> {p2})
\* both sessions write to the same file
MC_SharedFile == (s1 :> {p1}) @@ (s2 :> {p1})
\* both sessions charge the user quota
MC_SharedScope == (s1 :> {p1}) @@ (s2 :> {p3})
\* one session
MC_OneSession == s1 :> {p1, p2}
=============================================================================
