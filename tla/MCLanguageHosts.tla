--------------------------- MODULE MCLanguageHosts ---------------------------
(***************************************************************************)
(* LanguageHosts for TLC: the workspaces of a project are alike.           *)
(***************************************************************************)
EXTENDS LanguageHosts, TLC

AnyWorkspace == Permutations(Workspaces)
=============================================================================
