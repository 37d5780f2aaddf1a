--------------------------- MODULE SftpDispatcher ---------------------------
(***************************************************************************)
(* The non-upload request handlers of internal/sftpd/handler.go: Fileread,  *)
(* Filecmd, Filelist, Readlink, Lstat, RealPath, Setstat, Remove and       *)
(* Disconnect, for several sessions sharing one flat namespace under "/".  *)
(*                                                                         *)
(* A handler is one atomic step except handleSFTPRemove, whose Lstat and   *)
(* RemoveFile are separate backend calls other sessions can run between.   *)
(* Operations the handlers delegate to common.BaseConnection (ListDir,     *)
(* DoStat, Rename, CreateDir, RemoveDir, CreateSymlink, SetStat,           *)
(* RemoveFile) are taken from the spec and marked so in the map.           *)
(***************************************************************************)
EXTENDS Integers

CONSTANTS
    Sessions,        \* concurrent SFTP sessions
    Paths,           \* request paths; Root is "/", the rest are its children
    Root,
    LinkTarget,      \* [Paths -> Paths] target a symlink at a path points to
    Policy,          \* [Paths -> {"allow", "deny", "hide"}] User.IsFileAllowed
    PermDownload,    \* paths whose parent grants PermDownload
    PermListItems,   \* paths whose parent grants PermListItems
    RealPathers,     \* paths served by a backend implementing vfs.FsRealPather
    Prefixed,        \* sessions scoped to a folder (folderPrefix != "")
    NilChannel,      \* sessions without a channel to close
    SessionPaths     \* [Sessions -> SUBSET Paths] paths a session's client uses

ASSUME /\ Root \in Paths
       /\ LinkTarget \in [Paths -> Paths]
       /\ Policy \in [Paths -> {"allow", "deny", "hide"}]
       /\ SessionPaths \in [Sessions -> SUBSET Paths]

VARIABLES
    entries,   \* [Paths -> Kind] what Lstat reports at each path
    channel,   \* [Sessions -> {"open", "closed", "nil"}]
    removing,  \* [Sessions -> [kind, path]] Lstat result of a Remove in progress
    resp       \* [Sessions -> Response] last response each session received

vars == <<entries, channel, removing, resp>>

Kinds == {"none", "file", "dir", "symlink"}
Methods == {"Setstat", "Rename", "Rmdir", "Mkdir", "Symlink", "Remove", "Link"}
Ops == {"none", "read", "readlink", "lstat", "stat", "list", "realpath",
        "setstat", "cmd", "remove"}
Results == {"none", "ok", "permission", "nosuchfile", "unsupported", "failure",
            "quota", "fserror"}
Response == [op: Ops, path: Paths, result: Results, touched: BOOLEAN,
             dots: {<<>>, <<".">>, <<".", "..">>}]

\* path.Dir of every request path is "/": a permission set names the paths
\* whose parent grants it
HasPerm(perm, p) == p \in perm

(***************************************************************************)
(* BaseConnection.GetErrorForDeniedFile and GetFsError (spec section 7):   *)
(* a hidden file looks absent, any other denial is a permission error; a   *)
(* missing entry is no-such-file and other backend errors a failure.       *)
(***************************************************************************)
ErrorForDeniedFile(p) == IF Policy[p] = "hide" THEN "nosuchfile" ELSE "permission"
FsError(kind) == IF kind = "none" THEN "nosuchfile" ELSE "failure"

Respond(s, op, p, result, touched) ==
    resp' = [resp EXCEPT ![s] = [op |-> op, path |-> p, result |-> result,
                                 touched |-> touched, dots |-> <<>>]]

\* a request can arrive only on a session whose channel is still open
Serving(s) == channel[s] # "closed" /\ removing[s].kind = "idle"

Init ==
    /\ entries \in {e \in [Paths -> Kinds] : e[Root] = "dir"}
    /\ channel = [s \in Sessions |-> IF s \in NilChannel THEN "nil" ELSE "open"]
    /\ removing = [s \in Sessions |-> [kind |-> "idle", path |-> Root]]
    /\ resp = [s \in Sessions |-> [op |-> "none", path |-> Root, result |-> "none",
                                   touched |-> FALSE, dots |-> <<>>]]

(***************************************************************************)
(* Fileread: download permission, transfer quota, file policy, pre-download *)
(* hook, fs.Open, in that order; the first that fails is the answer.       *)
(* fs.Open of a directory succeeds (os.Open); only reading from it fails. *)
(* The transfer quota and the hook are decided outside this code.         *)
(***************************************************************************)
ReadResult(p, transferOk, hookOk) ==
    IF ~HasPerm(PermDownload, p) THEN "permission"
    ELSE IF ~transferOk THEN "quota"
    ELSE IF Policy[p] # "allow" THEN ErrorForDeniedFile(p)
    ELSE IF ~hookOk THEN "permission"
    ELSE IF entries[p] = "none" THEN FsError(entries[p])
    ELSE "ok"

Fileread(s, p) ==
    /\ Serving(s)
    /\ \E transferOk, hookOk \in BOOLEAN :
         Respond(s, "read", p, ReadResult(p, transferOk, hookOk), TRUE)
    /\ UNCHANGED <<entries, channel, removing>>

(***************************************************************************)
(* canReadLink: list permission on the parent, and a hidden name looks    *)
(* absent.  Readlink checks the link, reads it, then checks the target.   *)
(***************************************************************************)
CanReadLink(p) ==
    IF ~HasPerm(PermListItems, p) THEN "permission"
    ELSE IF Policy[p] = "hide" THEN "nosuchfile"
    ELSE "ok"

ReadlinkResult(p) ==
    IF CanReadLink(p) # "ok" THEN CanReadLink(p)
    ELSE IF entries[p] # "symlink" THEN FsError(entries[p])
    ELSE CanReadLink(LinkTarget[p])

Readlink(s, p) ==
    /\ Serving(s)
    /\ Respond(s, "readlink", p, ReadlinkResult(p), FALSE)
    /\ UNCHANGED <<entries, channel, removing>>

(***************************************************************************)
(* Lstat, and Filelist "Stat": list permission on the parent, then DoStat *)
(* (external), which fails on a missing entry; "Stat" follows a symlink.  *)
(***************************************************************************)
StatResult(p, follow) ==
    LET target == IF follow /\ entries[p] = "symlink" THEN LinkTarget[p] ELSE p IN
    IF ~HasPerm(PermListItems, p) THEN "permission"
    ELSE IF entries[target] = "none" THEN "nosuchfile"
    ELSE "ok"

Lstat(s, p) ==
    /\ Serving(s)
    /\ Respond(s, "lstat", p, StatResult(p, FALSE), TRUE)
    /\ UNCHANGED <<entries, channel, removing>>

FilelistStat(s, p) ==
    /\ Serving(s)
    /\ Respond(s, "stat", p, StatResult(p, TRUE), TRUE)
    /\ UNCHANGED <<entries, channel, removing>>

(***************************************************************************)
(* Filelist "List": ListDir (external) then "." always and ".." unless the *)
(* listing is of "/" on a session with no folder prefix.                   *)
(***************************************************************************)
\* fault-injection variant: the two prepends in the other order
DotEntriesSwapped(s, p) == IF p # Root \/ s \in Prefixed THEN <<"..", ".">> ELSE <<".">>

DotEntries(s, p) == IF p # Root \/ s \in Prefixed THEN <<".", "..">> ELSE <<".">>

ListDirResult(p) ==
    IF ~HasPerm(PermListItems, p) THEN "permission"
    ELSE IF entries[p] # "dir" THEN FsError(entries[p])
    ELSE "ok"

FilelistList(s, p) ==
    /\ Serving(s)
    /\ resp' = [resp EXCEPT ![s] =
          [op |-> "list", path |-> p, result |-> ListDirResult(p), touched |-> TRUE,
           dots |-> IF ListDirResult(p) = "ok" THEN DotEntries(s, p) ELSE <<>>]]
    /\ UNCHANGED <<entries, channel, removing>>

(***************************************************************************)
(* RealPath: list permission, path cleaning, and the backend's RealPath   *)
(* when it has one (which may fail); otherwise the cleaned path.           *)
(***************************************************************************)
RealPath(s, p) ==
    /\ Serving(s)
    /\ \E backendOk \in BOOLEAN :
         Respond(s, "realpath", p,
                 IF ~HasPerm(PermListItems, p) THEN "permission"
                 ELSE IF p \in RealPathers /\ ~backendOk THEN "fserror"
                 ELSE "ok", FALSE)
    /\ UNCHANGED <<entries, channel, removing>>

(***************************************************************************)
(* Filecmd: dispatch on the method; Rename, Mkdir and Symlink answer the  *)
(* explicit ok, Setstat, Rmdir and Remove their own result, anything else *)
(* is unsupported.  The delegated operations run their own permission     *)
(* checks, whose answer is an input here.                                 *)
(***************************************************************************)
\* rename(2): a directory may replace nothing or an empty directory (every
\* directory of this flat namespace is empty), anything else may replace
\* anything but a directory
RenameTargets(kind) == IF kind = "dir" THEN {"none", "dir"} ELSE Kinds \ {"dir"}

CmdEffect(m, p, t) ==
    CASE m = "Rename" /\ p # Root /\ t # Root /\ t # p /\ entries[p] # "none"
                      /\ entries[t] \in RenameTargets(entries[p]) ->
             [e |-> [entries EXCEPT ![t] = entries[p], ![p] = "none"], r |-> "ok"]
      [] m = "Rmdir" /\ p # Root /\ entries[p] = "dir" ->
             [e |-> [entries EXCEPT ![p] = "none"], r |-> "ok"]
      [] m = "Mkdir" /\ entries[p] = "none" ->
             [e |-> [entries EXCEPT ![p] = "dir"], r |-> "ok"]
      [] m = "Symlink" /\ entries[p] = "none" ->
             [e |-> [entries EXCEPT ![p] = "symlink"], r |-> "ok"]
      [] m = "Setstat" /\ entries[p] # "none" ->
             [e |-> entries, r |-> "ok"]
      [] OTHER -> [e |-> entries, r |-> FsError(entries[p])]

Filecmd(s, m, p, t) ==
    /\ Serving(s)
    /\ m # "Remove"
    /\ \E permOk \in BOOLEAN :
         LET out == IF m = "Link" THEN [e |-> entries, r |-> "unsupported"]
                    ELSE IF ~permOk THEN [e |-> entries, r |-> "permission"]
                    ELSE CmdEffect(m, p, t)
         IN /\ entries' = out.e
            /\ Respond(s, "cmd", p, out.r, TRUE)
    /\ UNCHANGED <<channel, removing>>

(***************************************************************************)
(* handleSFTPRemove: Lstat, refuse a directory that is not a symlink, then *)
(* RemoveFile (external), which unlinks whatever is at the path by then   *)
(* and runs its own permission checks and pre-delete hook.                 *)
(***************************************************************************)
\* fi.IsDir() && fi.Mode()&os.ModeSymlink == 0
IsPlainDir(kind) == kind = "dir"

RemoveLstat(s, p) ==
    /\ Serving(s)
    /\ \/ /\ entries[p] = "none"
          /\ Respond(s, "remove", p, FsError("none"), TRUE)
          /\ UNCHANGED removing
       \/ /\ IsPlainDir(entries[p])
          /\ Respond(s, "remove", p, "failure", TRUE)
          /\ UNCHANGED removing
       \/ /\ entries[p] # "none" /\ ~IsPlainDir(entries[p])
          /\ removing' = [removing EXCEPT ![s] = [kind |-> entries[p], path |-> p]]
          /\ UNCHANGED resp
    /\ UNCHANGED <<entries, channel>>

RemoveFile(s) ==
    /\ removing[s].kind # "idle"
    /\ LET p == removing[s].path IN
       \E permOk \in BOOLEAN :
         /\ entries' = IF permOk THEN [entries EXCEPT ![p] = "none"] ELSE entries
         /\ Respond(s, "remove", p, IF ~permOk THEN "permission" ELSE
                                    IF entries[p] = "none" THEN "nosuchfile" ELSE "ok", TRUE)
    /\ removing' = [removing EXCEPT ![s].kind = "idle"]
    /\ UNCHANGED channel

(***************************************************************************)
(* Disconnect: close the channel; a session without one is left alone.    *)
(***************************************************************************)
Disconnect(s) ==
    /\ channel[s] # "closed"
    /\ channel' = [channel EXCEPT ![s] = IF @ = "nil" THEN "nil" ELSE "closed"]
    /\ UNCHANGED <<entries, removing, resp>>

Next ==
    \E s \in Sessions :
       \/ \E p \in SessionPaths[s] :
            \/ Fileread(s, p)
            \/ Readlink(s, p)
            \/ Lstat(s, p)
            \/ FilelistStat(s, p)
            \/ FilelistList(s, p)
            \/ RealPath(s, p)
            \/ \E m \in Methods, t \in SessionPaths[s] : Filecmd(s, m, p, t)
            \/ RemoveLstat(s, p)
       \/ RemoveFile(s)
       \/ Disconnect(s)

Spec == Init /\ [][Next]_vars

-----------------------------------------------------------------------------
TypeOK ==
    /\ entries \in [Paths -> Kinds]
    /\ channel \in [Sessions -> {"open", "closed", "nil"}]
    /\ removing \in [Sessions -> [kind: Kinds \cup {"idle"}, path: Paths]]
    /\ resp \in [Sessions -> Response]

(***************************************************************************)
(* Spec section 8: read-open and readlink of a name the deny policy      *)
(* refuses answer no-such-file when the policy hides it, so a hidden name *)
(* cannot be told apart from an absent one, and permission-denied under  *)
(* any other deny policy.  handleSFTPFileread and handleSFTPReadlink      *)
(* (through canReadLink) are the two paths that must agree on this.      *)
(***************************************************************************)
DeniedNameAnswers ==
    \A s \in Sessions :
        resp[s].op \in {"read", "readlink"} /\ Policy[resp[s].path] # "allow"
            => resp[s].result = ErrorForDeniedFile(resp[s].path)

(***************************************************************************)
(* Remove never deletes a directory: the Lstat in handleSFTPRemove        *)
(* refuses one, and what RemoveFile then unlinks is still not one.         *)
(***************************************************************************)
RemoveKeepsDirectories ==
    [][\A s \in Sessions :
         removing[s].kind # "idle" /\ removing'[s].kind = "idle" /\
         entries[removing[s].path] = "dir"
            => entries'[removing[s].path] = "dir"]_vars
=============================================================================
