----------------------- MODULE MCCompletionDialogue -----------------------
(***************************************************************************)
(* Model values for CompletionDialogue: the settings of a project that     *)
(* make a difference to the flow (confirm is read only with a recognised   *)
(* forge, the saved action only without confirm).                          *)
(***************************************************************************)
EXTENDS CompletionDialogue

Project(isolated, forge, confirm, saved) ==
    [isolated |-> isolated, forge |-> forge, confirm |-> confirm, saved |-> saved]

CurrentBranchProjects == {Project(FALSE, FALSE, FALSE, "merge")}

PlainWorktreeProjects == {Project(TRUE, FALSE, FALSE, "merge")}

ForgeWorktreeProjects ==
    {Project(TRUE, TRUE, TRUE, "merge"), Project(TRUE, TRUE, FALSE, "merge"),
     Project(TRUE, TRUE, FALSE, "pr")}

AllProjects ==
    CurrentBranchProjects \cup PlainWorktreeProjects \cup ForgeWorktreeProjects
=============================================================================
