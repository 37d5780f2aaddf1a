---------------------------- MODULE UploadStore ----------------------------
(***************************************************************************)
(* What an atomic upload promises (spec glossary, sections 3 and 4.2).     *)
(* A name a client can use holds nothing, a symlink or a complete file.    *)
(* An upload over an existing file first moves that file aside, out of     *)
(* reach of every name: from then until the upload ends the name holds    *)
(* nothing.  The upload then publishes a complete new file under the name, *)
(* never a partial one.  The quota counters always charge exactly the     *)
(* files a client can name plus the content set aside for them, and a      *)
(* truncating upload empties the set-aside content and its charge in one   *)
(* step.                                                                   *)
(***************************************************************************)
EXTENDS Integers, FiniteSets
LOCAL INSTANCE FiniteSetsExt

CONSTANTS
    Paths,     \* paths a client may name
    Scopes,    \* quota counters: the user's and each virtual folder's
    ScopesOf,  \* [Paths -> SUBSET Scopes] the counters a path is charged to
    MaxSize    \* bound on file sizes

VARIABLES
    files,     \* [Paths -> entry] the content under each name
    staged,    \* [Paths -> entry] content set aside for the name, or none
    used       \* [Scopes -> [files, size]] the quota counters

Nothing == [kind |-> "none", size |-> 0]

Entries == {[kind |-> k, size |-> 0] : k \in {"none", "dir", "link"}}
             \cup {[kind |-> "file", size |-> n] : n \in 0..MaxSize}

\* the content a path is charged for: what is set aside, else its name
Charged(p) == IF staged[p].kind = "file" THEN staged[p] ELSE files[p]

\* usage of the content charged to scope a
Usage(a) ==
    LET F == {p \in Paths : a \in ScopesOf[p] /\ Charged(p).kind = "file"}
    IN [files |-> Cardinality(F), size |-> MapThenSumSet(LAMBDA p : Charged(p).size, F)]

Init ==
    /\ files \in [Paths -> Entries]
    /\ staged = [p \in Paths |-> Nothing]
    /\ used = [a \in Scopes |-> Usage(a)]

\* counters charged to p move by dFiles files and dSize bytes
Charge(p, dFiles, dSize) ==
    used' = [a \in Scopes |->
               IF a \in ScopesOf[p]
               THEN [files |-> used[a].files + dFiles, size |-> used[a].size + dSize]
               ELSE used[a]]

\* an upload over a file moves it aside: the name is empty, the charge stays
MoveAside(p) ==
    /\ files[p].kind = "file"
    /\ staged[p] = Nothing
    /\ staged' = [staged EXCEPT ![p] = files[p]]
    /\ files' = [files EXCEPT ![p] = Nothing]
    /\ UNCHANGED used

\* a truncating upload empties the set-aside content and its charge
Truncate(p) ==
    /\ staged[p].kind = "file"
    /\ staged' = [staged EXCEPT ![p].size = 0]
    /\ Charge(p, 0, -staged[p].size)
    /\ UNCHANGED files

\* an upload completes: p now holds n bytes and nothing is set aside
Replace(p, n) ==
    /\ files[p].kind # "dir"
    /\ files' = [files EXCEPT ![p] = [kind |-> "file", size |-> n]]
    /\ staged' = [staged EXCEPT ![p] = Nothing]
    /\ Charge(p, IF Charged(p).kind = "file" THEN 0 ELSE 1, n - Charged(p).size)

Next ==
    \E p \in Paths :
        \/ MoveAside(p)
        \/ Truncate(p)
        \/ \E n \in 0..MaxSize : Replace(p, n)

Spec == Init /\ [][Next]_<<files, staged, used>>
=============================================================================
