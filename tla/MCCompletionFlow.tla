------------------------- MODULE MCCompletionFlow -------------------------
(***************************************************************************)
(* Model values and requests for CompletionFlow.                           *)
(***************************************************************************)
EXTENDS CompletionFlow, TLC

CONSTANTS c1, c2, e1, e2

OneCmd == {c1}
TwoCmds == {c1, c2}
OneEdit == {e1}
TwoEdits == {e1, e2}

\* Edits and commands are interchangeable.
Symmetry == Permutations({e1, e2}) \cup Permutations({c1, c2})

PlainProject == [forge |-> FALSE, confirm |-> FALSE, saved |-> "merge",
                 isolated |-> TRUE, current |-> TRUE]
OtherBranchProject == [PlainProject EXCEPT !.current = FALSE]
AskingProject == [forge |-> TRUE, confirm |-> TRUE, saved |-> "merge",
                  isolated |-> TRUE, current |-> TRUE]

Dirty(choice) == [PlainInput EXCEPT !.dirty = choice]
Closeout(choice) == [PlainInput EXCEPT !.closeout = choice]

DirtyRequests == {PlainInput, Dirty("auto_commit"), Dirty("skip"), Dirty("cancel")}
AllRequests == DirtyRequests \cup {Closeout("merge"), Closeout("pr")}
InsistingRequests == {PlainInput, Dirty("auto_commit"), Dirty("skip"),
                      Closeout("merge"), Closeout("pr")}

AllOthers == {"detect", "rollback", "to_running", "to_review", "delete_worktree"}
ToRunningOnly == {"to_running"}
PlainRequests == {PlainInput}
DetectOnly == {"detect"}
AllMoves == AllOthers \ {"delete_worktree"}
=============================================================================
