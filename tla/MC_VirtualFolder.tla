-------------------------- MODULE MC_VirtualFolder --------------------------
(***************************************************************************)
(* Model-checking instance of VirtualFolder: the loaded folder, a copy of *)
(* it and a copy of a copy; one-element lists over two names, so every    *)
(* assignment is visible.                                                  *)
(***************************************************************************)
EXTENDS VirtualFolder, TLC

CONSTANTS h0, h1, h2, h3, n1, n2

\* names and copies are interchangeable: no definition tests for a particular one
MC_Symmetry == Permutations({n1, n2}) \cup Permutations({h1, h2, h3})

MC_Providers == {"local", "crypt", "s3", "gcs", "azblob", "sftp", "http"}
=============================================================================
