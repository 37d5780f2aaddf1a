------------------------- MODULE MC_SftpDispatcher -------------------------
(***************************************************************************)
(* Model-checking instance of SftpDispatcher: "/" and three children, one  *)
(* allowed, one hidden, one denied, with symlink targets crossing them.    *)
(***************************************************************************)
EXTENDS SftpDispatcher, TLC

CONSTANTS s1, s2, root, a, b, c

MC_LinkTarget == (root :> root) @@ (a :> b) @@ (b :> root) @@ (c :> a)
MC_Policy == (root :> "allow") @@ (a :> "allow") @@ (b :> "hide") @@ (c :> "deny")

\* sessions working on separate names
MC_Disjoint == (s1 :> {root, a, b}) @@ (s2 :> {c})
\* both sessions work on the same names
MC_Shared == (s1 :> {a}) @@ (s2 :> {a, b})
\* one session reading every name
MC_Reader == s1 :> {root, a, b, c}
=============================================================================
