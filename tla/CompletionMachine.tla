------------------------- MODULE CompletionMachine -------------------------
(***************************************************************************)
(* The pure decision machine of the issue completion flow                  *)
(* (features/issue/completion/state_machine.rs and closeout.rs): from the  *)
(* persisted state of the flow, the facts gathered about the world and one *)
(* event it computes the next state and the effects to execute, in order.  *)
(*                                                                         *)
(* Data the decisions do not read (branch names, heads, commit messages,   *)
(* the free-form reason of a failure, continue_after_commit, which is      *)
(* written and never read) is left out.  The module is constant-level.     *)
(***************************************************************************)
EXTENDS Sequences, Functions

Phases == {"detecting", "prompting_dirty", "auto_committing",
           "confirming_continue", "confirming_cleanup",
           "prompting_closeout", "reconciling",
           "blocked", "cancelled", "completed"}

Paths == {"none", "home", "drift"}

CompletionStates ==
    [phase : Phases, dirty : {"none", "auto_commit", "skip"},
     ignoreDirty : BOOLEAN, cleanup : {"none", "yes", "no"},
     closeout : {"none", "merge", "pr"}, path : Paths]

Detecting ==
    [phase |-> "detecting", dirty |-> "none", ignoreDirty |-> FALSE,
     cleanup |-> "none", closeout |-> "none", path |-> "none"]

DirtyAlreadySkipped(s) == s.ignoreDirty \/ s.dirty = "skip"

(***************************************************************************)
(* A world: the status the issue was read with, whether the session runs   *)
(* in a worktree of its own, whether that worktree is missing on disk,     *)
(* whether the effective owner is External, whether its branch is not the  *)
(* target branch, whether a forge is recognised, whether the session is    *)
(* closed out, whether a missing RedWhisk worktree leaves an unmerged      *)
(* branch, whether the workspace is clean, whether the project asks for a  *)
(* completion action, the action saved otherwise, and the actual path.     *)
(***************************************************************************)
Worlds ==
    [status : {"backlog", "running", "review", "completed"}, isolated : BOOLEAN,
     missing : BOOLEAN, external : BOOLEAN, mismatch : BOOLEAN,
     forge : BOOLEAN, closedOut : BOOLEAN, unmerged : BOOLEAN,
     clean : BOOLEAN, confirm : BOOLEAN, saved : {"merge", "pr"},
     path : {"home", "drift"}]

Event(kind, choice) == [kind |-> kind, choice |-> choice]

Begin == Event("begin", "none")
CommitDetected == Event("commit_detected", "none")

Events ==
    {Begin, CommitDetected}
      \cup {Event("dirty", c) : c \in {"auto_commit", "skip", "cancel"}}
      \cup {Event("continue", c) : c \in {"yes", "no"}}
      \cup {Event("cleanup", c) : c \in {"yes", "no"}}
      \cup {Event("closeout", c) : c \in {"merge", "pr"}}

Effects == {"inject", "record_prompt", "record_commit",
            "publish", "reconcile", "commit"}

Transition(s, effects) == [state |-> s, effects |-> effects]

EffectSet(tr) == Range(tr.effects)

(***************************************************************************)
(* closeout.rs: what to do once uncommitted changes are dealt with.        *)
(***************************************************************************)
RouteCloseout(w, action) ==
    CASE ~w.isolated \/ ~w.mismatch -> "complete"
      [] w.isolated /\ w.mismatch /\ ~w.forge -> "reconcile"
      [] w.isolated /\ w.mismatch /\ w.forge /\ action = "none" -> "prompt"
      [] w.isolated /\ w.mismatch /\ w.forge /\ action = "merge" -> "reconcile"
      [] w.isolated /\ w.mismatch /\ w.forge /\ action = "pr" -> "pr"

\* Mutant of AppliedCloseout: the user's choice is not kept.
AppliedCloseoutForgets(s, w) ==
    IF ~w.confirm /\ RouteCloseout(w, "none") = "prompt" THEN w.saved ELSE "none"

AppliedCloseout(s, w) ==
    IF ~w.confirm /\ s.closeout = "none" /\ RouteCloseout(w, "none") = "prompt"
    THEN w.saved
    ELSE s.closeout

(***************************************************************************)
(* The branches of advance.                                                *)
(***************************************************************************)
Complete(s) == Transition([s EXCEPT !.phase = "completed"], <<"commit">>)

RebaseThenComplete(s) ==
    Transition([s EXCEPT !.phase = "completed"], <<"reconcile", "commit">>)

\* Mutant of OpenPullRequest: completes without publishing.
OpenPullRequestUnpublished(s) ==
    Transition([s EXCEPT !.phase = "completed"], <<"commit">>)

OpenPullRequest(s) ==
    Transition([s EXCEPT !.phase = "completed"], <<"publish", "commit">>)

Cancelled(s) == Transition([s EXCEPT !.phase = "cancelled"], <<>>)

\* A phase that waits for the user remembers the path it was decided on.
Prompt(s, w, phase) ==
    Transition([s EXCEPT !.phase = phase, !.path = w.path], <<>>)

\* Mutant of Reconcile: the owner of the worktree is not looked at.
ReconcileAnyOwner(s, w) ==
    IF w.isolated /\ ~w.missing /\ w.mismatch /\ s.cleanup # "no"
    THEN RebaseThenComplete(s)
    ELSE Complete(s)

Reconcile(s, w) ==
    IF w.missing /\ ~w.external /\ w.unmerged
    THEN Transition([s EXCEPT !.phase = "blocked"], <<>>)
    ELSE IF w.isolated /\ ~w.missing /\ w.mismatch
         THEN CASE ~w.external \/ s.cleanup = "yes" -> RebaseThenComplete(s)
                [] w.external /\ s.cleanup = "no" -> Complete(s)
                [] w.external /\ s.cleanup = "none" ->
                     Prompt(s, w, "confirming_cleanup")
         ELSE Complete(s)

AfterDirty(s, w) ==
    LET next == [s EXCEPT !.closeout = AppliedCloseout(s, w)]
        route == RouteCloseout(w, next.closeout)
    IN  CASE route = "reconcile" -> Reconcile(next, w)
          [] route = "complete" -> Complete(next)
          [] route = "prompt" -> Prompt(next, w, "prompting_closeout")
          [] route = "pr" -> OpenPullRequest(next)

\* Mutant of BeginDetection: any earlier answer counts as leave the changes.
BeginDetectionAnyAnswer(s, w) ==
    IF ~w.clean /\ ~s.ignoreDirty /\ s.dirty = "none"
    THEN Prompt(s, w, "prompting_dirty")
    ELSE AfterDirty(s, w)

BeginDetection(s, w) ==
    IF w.closedOut /\ w.status \in {"review", "running"} /\ ~w.isolated
    THEN Complete(s)
    ELSE IF ~w.clean /\ ~DirtyAlreadySkipped(s)
         THEN Prompt(s, w, "prompting_dirty")
         ELSE AfterDirty(s, w)

AutoCommitting(s, w) ==
    Transition([s EXCEPT !.phase = "auto_committing", !.dirty = "auto_commit",
                         !.path = w.path],
               <<"inject", "record_prompt">>)

DecideDirty(s, w, choice) ==
    CASE choice = "cancel" -> Cancelled(s)
      [] choice = "auto_commit" -> AutoCommitting(s, w)
      [] choice = "skip" ->
           AfterDirty([s EXCEPT !.phase = "reconciling", !.dirty = "skip",
                                !.path = w.path], w)

DetectCommit(s, w) ==
    LET routed == AfterDirty(s, w)
    IN  Transition([routed.state EXCEPT !.path = w.path],
                   <<"record_commit">> \o routed.effects)

ConfirmContinue(s, w, choice) ==
    IF choice = "yes"
    THEN AfterDirty([s EXCEPT !.phase = "reconciling"], w)
    ELSE Cancelled(s)

DecideCleanup(s, choice) ==
    LET next == [s EXCEPT !.cleanup = choice]
    IN  IF choice = "yes" THEN RebaseThenComplete(next) ELSE Complete(next)

(***************************************************************************)
(* advance: which events are legal in which phase, and where they lead.    *)
(* An illegal pair is the InvalidTransition error.                         *)
(***************************************************************************)
\* Mutant of NotTerminal: a cancelled flow cannot be started again.
NotTerminalNorCancelled(phase) == phase \notin {"completed", "cancelled"}

\* Mutant of NotTerminal: a blocked flow cannot be started again.
NotTerminalNorBlocked(phase) == phase \notin {"completed", "blocked"}

NotTerminal(phase) == phase # "completed"

Legal(phase, e) ==
    \/ NotTerminal(phase) /\ e \in {Begin, Event("dirty", "cancel")}
    \/ phase \in {"detecting", "prompting_dirty"} /\ e.kind = "dirty"
    \/ phase = "auto_committing" /\ e.kind = "commit_detected"
    \/ phase = "confirming_continue" /\ e.kind = "continue"
    \/ phase = "confirming_cleanup" /\ e.kind = "cleanup"
    \/ phase = "prompting_closeout" /\ e.kind = "closeout"

Advance(s, w, e) ==
    CASE e.kind = "begin" -> BeginDetection(s, w)
      [] e.kind = "dirty" -> DecideDirty(s, w, e.choice)
      [] e.kind = "commit_detected" -> DetectCommit(s, w)
      [] e.kind = "continue" -> ConfirmContinue(s, w, e.choice)
      [] e.kind = "cleanup" -> DecideCleanup(s, e.choice)
      [] e.kind = "closeout" ->
           AfterDirty([s EXCEPT !.closeout = e.choice], w)

(***************************************************************************)
(* flow.rs and use_case.rs around advance: what a call of the user         *)
(* interface carries, how it is folded into the persisted state, which     *)
(* event it stands for, and what of the next state is persisted.           *)
(***************************************************************************)
Inputs ==
    [ignoreDirty : BOOLEAN, dirty : {"none", "auto_commit", "skip", "cancel"},
     continue : {"none", "yes", "no"}, cleanup : {"none", "yes", "no"},
     closeout : {"none", "merge", "pr"}]

PlainInput ==
    [ignoreDirty |-> FALSE, dirty |-> "none", continue |-> "none",
     cleanup |-> "none", closeout |-> "none"]

\* A cleanup decision is taken over with whatever event the call becomes.
FoldInput(s, in) ==
    [s EXCEPT !.ignoreDirty = @ \/ in.ignoreDirty,
              !.cleanup = IF in.cleanup = "none" THEN @ ELSE in.cleanup]

\* Mutant of DeriveEvent: the closeout answer is not read.
DeriveEventNoCloseout(s, in) ==
    CASE s.phase = "confirming_continue" /\ in.continue # "none" ->
           Event("continue", in.continue)
      [] s.phase = "confirming_cleanup" /\ in.cleanup # "none" ->
           Event("cleanup", in.cleanup)
      [] OTHER ->
           IF \/ in.dirty = "cancel"
              \/ s.phase \in {"detecting", "prompting_dirty"} /\ in.dirty # "none"
           THEN Event("dirty", in.dirty)
           ELSE Begin

DeriveEvent(s, in) ==
    CASE s.phase = "confirming_continue" /\ in.continue # "none" ->
           Event("continue", in.continue)
      [] s.phase = "confirming_cleanup" /\ in.cleanup # "none" ->
           Event("cleanup", in.cleanup)
      [] s.phase = "prompting_closeout" /\ in.closeout # "none" ->
           Event("closeout", in.closeout)
      [] OTHER ->
           IF \/ in.dirty = "cancel"
              \/ s.phase \in {"detecting", "prompting_dirty"} /\ in.dirty # "none"
           THEN Event("dirty", in.dirty)
           ELSE Begin

\* The closeout choice has no column: a reloaded flow has none.
Persisted(s) == [s EXCEPT !.closeout = "none"]
=============================================================================
