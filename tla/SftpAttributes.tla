--------------------------- MODULE SftpAttributes ---------------------------
(***************************************************************************)
(* The two handlers of internal/sftpd/handler.go that translate numeric   *)
(* attributes between the protocol and the core: Connection.StatVFS with *)
(* getStatVFSFromQuotaResult, the filesystem statistics answered to a     *)
(* statvfs request from the quota check and the backend's disk size, and  *)
(* handleSFTPSetstat, the attribute change a setstat request becomes.     *)
(*                                                                         *)
(* Both are pure functions of their inputs, so the module's state is the  *)
(* request being answered and its answer; each step answers a new        *)
(* request.  Go's integer conversions are kept: a negative int64 wraps    *)
(* modulo the word size in uint64, a uint64 at or above half the word is  *)
(* negative in int64.  TLC's integers cannot hold 2^64, so the word and   *)
(* the 8 TiB headroom are constants the model scales down together,       *)
(* keeping every genuine value below the word.                             *)
(***************************************************************************)
EXTENDS Integers, Bitwise, FiniteSetsExt

CONSTANTS
    Word,          \* 2^64 in the code
    SizeHeadroom,  \* 8*1024*1024*1024*1024 (8 TiB) in the code
    FilesHeadroom, \* 1000000 in the code
    QuotaSizes,    \* quota size limits to try (0 unlimited)
    QuotaFiles,    \* quota file limits to try (0 unlimited)
    UsedSizes,     \* used sizes to try
    UsedFiles,     \* used file counts to try
    DiskStats,     \* backend statvfs replies to try: [total: Nat, files: Nat]
    SetstatSizes   \* protocol (uint64) sizes a setstat request may carry

VARIABLES
    req,    \* the quota result and backend answer of the current request
    reply,  \* what StatVFS returns for it
    setReq, \* the attribute flags and values of the current setstat request
    attrs   \* the common.StatAttributes handleSFTPSetstat builds from it

vars == <<req, reply, setReq, attrs>>

\* uint64(x) for an int64 x of the code
UInt(x) == x % Word

(***************************************************************************)
(* BaseConnection.HasSpace(true, true, ...): usage filled in, files        *)
(* counted; quotaResult.HasSpace is false once either limit is reached.   *)
(***************************************************************************)
QuotaCheck(qs, qf, us, uf) ==
    [hasSpace |-> (qs = 0 \/ us < qs) /\ (qf = 0 \/ uf < qf),
     quotaSize |-> qs, quotaFiles |-> qf, usedSize |-> us, usedFiles |-> uf]

Requests ==
    { [quota |-> QuotaCheck(qs, qf, us, uf), disk |-> d, avail |-> av] :
        qs \in QuotaSizes, qf \in QuotaFiles, us \in UsedSizes, uf \in UsedFiles,
        d \in DiskStats, av \in {"ok", "unavailable", "error"} }

(***************************************************************************)
(* for bsize > QuotaSize { bsize /= 4 }, from 4096                          *)
(***************************************************************************)
\* fault-injection variant: the loop halves instead of quartering
RECURSIVE BlockSizeHalving(_, _)
BlockSizeHalving(bsize, quotaSize) ==
    IF bsize > quotaSize THEN BlockSizeHalving(bsize \div 2, quotaSize) ELSE bsize

RECURSIVE BlockSize(_, _)
BlockSize(bsize, quotaSize) ==
    IF bsize > quotaSize THEN BlockSize(bsize \div 4, quotaSize) ELSE bsize

\* reference: the largest of 4096, 1024, ..., 1 that does not exceed the quota
RefBlockSize(quotaSize) ==
    LET candidates == {4096 \div (4 ^ k) : k \in 0..6} IN
    CHOOSE b \in candidates :
        b <= quotaSize /\ \A c \in candidates : c <= quotaSize => c <= b

Reply(bsize, blocks, bfree, files, ffree) ==
    [kind |-> "quota", bsize |-> bsize, blocks |-> blocks, bfree |-> bfree,
     files |-> files, ffree |-> ffree]
ErrorReply == [kind |-> "error", bsize |-> 0, blocks |-> 0, bfree |-> 0, files |-> 0, ffree |-> 0]
BackendReply(d) == [kind |-> "backend", bsize |-> 0, blocks |-> d.total, bfree |-> 0,
                    files |-> d.files, ffree |-> 0]

(***************************************************************************)
(* getStatVFSFromQuotaResult: the backend's totals cap the limits (0 is    *)
(* replaced by them), missing limits become used plus a large headroom,   *)
(* free counts are forced to zero when the quota check found no space.    *)
(***************************************************************************)
EffectiveQuota(r) ==
    LET q == r.quota
        capSize == r.avail = "ok" /\ (q.quotaSize = 0 \/ q.quotaSize > r.disk.total)
        capFiles == r.avail = "ok" /\ (q.quotaFiles = 0 \/ q.quotaFiles > r.disk.files)
        qs == IF capSize THEN r.disk.total ELSE q.quotaSize
        qf == IF capFiles THEN r.disk.files ELSE q.quotaFiles
    IN [size |-> IF qs = 0 THEN q.usedSize + SizeHeadroom ELSE qs,
        files |-> IF qf = 0 THEN q.usedFiles + FilesHeadroom ELSE qf]

StatFromQuota(r) ==
    LET e == EffectiveQuota(r)
        bsize == BlockSize(4096, e.size)
        free == r.quota.hasSpace
    IN IF r.avail = "error" THEN ErrorReply
       ELSE Reply(bsize, UInt(e.size) \div bsize,
                  IF free THEN UInt(e.size - r.quota.usedSize) \div bsize ELSE 0,
                  UInt(e.files),
                  IF free THEN UInt(e.files - r.quota.usedFiles) ELSE 0)

(***************************************************************************)
(* Connection.StatVFS: no space, or some limit, answers from the quota;   *)
(* no limit at all answers the backend's own statistics unless it cannot  *)
(* report them.                                                            *)
(***************************************************************************)
StatVFSReply(r) ==
    IF r.quota.hasSpace /\ r.quota.quotaSize = 0 /\ r.quota.quotaFiles = 0
       /\ r.avail # "unavailable"
    THEN IF r.avail = "ok" THEN BackendReply(r.disk) ELSE ErrorReply
    ELSE StatFromQuota(r)

(***************************************************************************)
(* handleSFTPSetstat: each attribute group the request's AttrFlags names  *)
(* sets its bit in Flags and copies its values; the others stay zero.      *)
(* The uint32 uid, gid and times fit their int and int64 fields; the      *)
(* uint64 size is converted to int64.  FileMode() is the sftp library's   *)
(* and the mode is kept as the value it yields.                            *)
(***************************************************************************)
AttrKinds == {"perms", "uidgid", "times", "size"}

\* common.StatAttrUIDGID, StatAttrPerms, StatAttrTimes and StatAttrSize
StatAttrBit == [uidgid |-> 1, perms |-> 2, times |-> 4, size |-> 8]

\* int64(x) for a uint64 x of the code
Int64(x) == IF x >= Word \div 2 THEN x - Word ELSE x

SetstatRequests ==
    [present: SUBSET AttrKinds, mode: {420}, uid: {1000}, gid: {1001},
     atime: {7}, mtime: {9}, size: SetstatSizes]

\* fault-injection variant: the Acmodtime branch copies the times but sets no flag
handleSFTPSetstatNoTimesFlag(r) ==
    LET has(k) == k \in r.present
        f1 == IF has("perms") THEN 0 | StatAttrBit.perms ELSE 0
        f2 == IF has("uidgid") THEN f1 | StatAttrBit.uidgid ELSE f1
        f4 == IF has("size") THEN f2 | StatAttrBit.size ELSE f2
    IN [flags |-> f4,
        mode |-> IF has("perms") THEN r.mode ELSE 0,
        uid |-> IF has("uidgid") THEN r.uid ELSE 0,
        gid |-> IF has("uidgid") THEN r.gid ELSE 0,
        atime |-> IF has("times") THEN r.atime ELSE 0,
        mtime |-> IF has("times") THEN r.mtime ELSE 0,
        size |-> IF has("size") THEN Int64(r.size) ELSE 0]

handleSFTPSetstat(r) ==
    LET has(k) == k \in r.present
        f1 == IF has("perms") THEN 0 | StatAttrBit.perms ELSE 0
        f2 == IF has("uidgid") THEN f1 | StatAttrBit.uidgid ELSE f1
        f3 == IF has("times") THEN f2 | StatAttrBit.times ELSE f2
        f4 == IF has("size") THEN f3 | StatAttrBit.size ELSE f3
    IN [flags |-> f4,
        mode |-> IF has("perms") THEN r.mode ELSE 0,
        uid |-> IF has("uidgid") THEN r.uid ELSE 0,
        gid |-> IF has("uidgid") THEN r.gid ELSE 0,
        atime |-> IF has("times") THEN r.atime ELSE 0,
        mtime |-> IF has("times") THEN r.mtime ELSE 0,
        size |-> IF has("size") THEN Int64(r.size) ELSE 0]

\* the handler a step did not run has no request in flight
NoRequest == [kind |-> "none"]
NoReply == [kind |-> "none", bsize |-> 0, blocks |-> 0, bfree |-> 0, files |-> 0, ffree |-> 0]
NoAttrs == [flags |-> 0, mode |-> 0, uid |-> 0, gid |-> 0, atime |-> 0, mtime |-> 0, size |-> 0]

Init ==
    /\ req \in Requests
    /\ reply = StatVFSReply(req)
    /\ setReq = NoRequest
    /\ attrs = NoAttrs

StatVFS(r) ==
    /\ req' = r
    /\ reply' = StatVFSReply(r)
    /\ setReq' = NoRequest
    /\ attrs' = NoAttrs

Setstat(r) ==
    /\ setReq' = r
    /\ attrs' = handleSFTPSetstat(r)
    /\ req' = NoRequest
    /\ reply' = NoReply

Next ==
    \/ \E r \in Requests : StatVFS(r)
    \/ \E r \in SetstatRequests : Setstat(r)

Spec == Init /\ [][Next]_vars

-----------------------------------------------------------------------------
TypeOK ==
    /\ req \in Requests \cup {NoRequest}
    /\ reply \in [kind: {"quota", "backend", "error", "none"}, bsize: Nat, blocks: Nat,
                  bfree: Nat, files: Nat, ffree: Nat]
    /\ setReq \in SetstatRequests \cup {NoRequest}
    /\ attrs \in [flags: 0..15, mode: {0, 420}, uid: {0, 1000}, gid: {0, 1001},
                  atime: {0, 7}, mtime: {0, 9}, size: Int]

(***************************************************************************)
(* The block size the loop settles on is the largest of 4096/4^k that     *)
(* fits the effective quota size: never zero, never above it.              *)
(***************************************************************************)
BlockSizeMatchesReference ==
    reply.kind = "quota" =>
        reply.bsize = RefBlockSize(EffectiveQuota(req).size)

(***************************************************************************)
(* A quota-derived reply never offers more free blocks than blocks, nor   *)
(* more free files than files.                                             *)
(***************************************************************************)
FreeWithinTotal ==
    reply.kind = "quota" => reply.bfree <= reply.blocks /\ reply.ffree <= reply.files

\* the fields each attribute group of common.StatAttributes carries
GroupFields == [perms |-> {"mode"}, uidgid |-> {"uid", "gid"},
                times |-> {"atime", "mtime"}, size |-> {"size"}]

(***************************************************************************)
(* Spec section 4, set-attributes: the request SetStat receives names in  *)
(* its bitmask exactly the groups the protocol flags name, each bit once, *)
(* and carries the protocol's values for those groups and zero for the    *)
(* others.  A size of 2^63 or more does not fit int64 and is the hazard   *)
(* at handler.go:372; it is left out of the size comparison.              *)
(***************************************************************************)
SetstatMatchesReference ==
    setReq # NoRequest =>
        /\ attrs.flags = MapThenSumSet(LAMBDA k : StatAttrBit[k], setReq.present)
        /\ \A k \in AttrKinds : \A fld \in GroupFields[k] :
               \/ fld = "size" /\ setReq.size >= Word \div 2
               \/ attrs[fld] = IF k \in setReq.present THEN setReq[fld] ELSE 0
=============================================================================
