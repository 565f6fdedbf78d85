--------------------------- MODULE CompletionFlow ---------------------------
(***************************************************************************)
(* The backend side of completing an issue, whose agent works in a         *)
(* worktree that RedWhisk created or on the current branch of the project: *)
(* the commands that run on their own threads with their own database      *)
(* connections, step by step, next to the agent and the user who go on     *)
(* editing, to failures of single steps and to crashes.                    *)
(*                                                                         *)
(*   drive            complete_issue_flow            (use_case.rs)         *)
(*   detect           detect_agent_commit_completion (use_case.rs)         *)
(*   rollback, to_running, to_review  advance_issue_status (service.rs)    *)
(*   delete_worktree  delete_issue_worktree                                *)
(*                                                                         *)
(* A command reads the issue and the session, loads the flow, decides with *)
(* the machine on the git facts of that moment, and executes the effects;  *)
(* each database transaction and each git command is one step.  The agent  *)
(* has not drifted, so a worktree is RedWhisk's and no cleanup is asked.   *)
(***************************************************************************)
EXTENDS CompletionMachine, Naturals

CONSTANTS
    Cmds,        \* the commands that can run at the same time
    Edits,       \* pieces of work of the agent or the user in the worktree
    Requests,    \* the inputs complete_issue_flow is called with
    Others,      \* the kinds of command that run besides drive
    Project,     \* settings: forge recognised, ask for the action, saved one;
                 \* whether the agent has a worktree of its own, and whether
                 \* the target branch is the one checked out in the project
    MaxPrompts,  \* how often the agent is asked to commit
    MaxFaults    \* disturbances: failed steps, refusals, restarts and so on

ASSUME FlowAssumption ==
    /\ Requests \subseteq Inputs
    /\ Others \subseteq {"detect", "rollback", "to_running", "to_review",
                         "delete_worktree"}
    /\ Project \in [forge : BOOLEAN, confirm : BOOLEAN, saved : {"merge", "pr"},
                    isolated : BOOLEAN, current : BOOLEAN]
    /\ MaxPrompts \in Nat /\ MaxFaults \in Nat

VARIABLES
    issue,    \* status of the issue
    session,  \* status of its agent session, or deleted
    live,     \* whether the session's process is in the registry
    flow,     \* the row of issue_completion_flows; Detecting stands for none
    prompts,  \* the PromptSent attempts: head before, and whether completed
    work,     \* where the edits are
    repo,     \* worktree and branch exist; the target's checkout is dirty
    cmd,      \* the running commands
    past      \* history: what the properties compare with

vars == <<issue, session, live, flow, prompts, work, repo, cmd, past>>

Kinds == {"drive", "detect", "rollback", "to_running", "to_review",
          "delete_worktree"}

Pcs == {"idle", "load", "decide", "inject", "record_prompt", "record_commit",
        "publish", "discard", "rebase", "fast_forward", "remove_worktree",
        "delete_branch", "commit", "persist", "update", "shutdown"}

Idle ==
    [pc |-> "idle", kind |-> "drive", input |-> PlainInput, issue |-> "running",
     session |-> "running", state |-> Detecting, route |-> "persist",
     head |-> {}, attempt |-> 0]

IssueStatuses == {"backlog", "running", "review", "completed"}

SessionStatuses == {"running", "stopped", "closed", "deleted"}

CmdType ==
    [pc : Pcs, kind : Kinds, input : Inputs, issue : IssueStatuses,
     session : SessionStatuses, state : CompletionStates,
     route : {"persist", "commit", "publish", "inject", "discard", "rebase"},
     head : SUBSET Edits, attempt : 0..MaxPrompts]

WorkType ==
    [dirty : SUBSET Edits, branch : SUBSET Edits, target : SUBSET Edits,
     remote : SUBSET Edits, lost : SUBSET Edits, discarded : SUBSET Edits]

PastType ==
    [lateEdits : SUBSET Edits, lateCommits : SUBSET Edits, waived : SUBSET Edits,
     said : BOOLEAN, faults : 0..MaxFaults]

TypeOK ==
    /\ issue \in IssueStatuses
    /\ session \in SessionStatuses
    /\ live \in BOOLEAN
    /\ flow \in CompletionStates
    /\ prompts \in Seq([head : SUBSET Edits, done : BOOLEAN])
    /\ Len(prompts) <= MaxPrompts
    /\ work \in WorkType
    /\ repo \in [tree : BOOLEAN, branch : BOOLEAN, targetDirty : BOOLEAN]
    /\ cmd \in [Cmds -> CmdType]
    /\ past \in PastType

Init ==
    /\ issue \in {"running", "review"}
    /\ session = "running"
    /\ live = TRUE
    /\ flow = Detecting
    /\ prompts = <<>>
    /\ work = [dirty |-> {}, branch |-> {}, target |-> {}, remote |-> {},
               lost |-> {}, discarded |-> {}]
    /\ repo = [tree |-> TRUE, branch |-> TRUE, targetDirty |-> FALSE]
    /\ cmd = [c \in Cmds |-> Idle]
    /\ past = [lateEdits |-> {}, lateCommits |-> {}, waived |-> {},
               said |-> FALSE, faults |-> 0]

(***************************************************************************)
(* Commands: control flow.                                                 *)
(***************************************************************************)
Goto(c, pc) == cmd' = [cmd EXCEPT ![c].pc = pc]

Return(c) == cmd' = [cmd EXCEPT ![c] = Idle]

\* Mutant of Block: an unknown phase is written.
BlockUnknownPhase(c) ==
    cmd' = [cmd EXCEPT ![c].pc = "persist", ![c].state.phase = "failed"]

\* A reconcile or publish effect that fails blocks the flow and ends the effects.
Block(c) ==
    cmd' = [cmd EXCEPT ![c].pc = "persist", ![c].state.phase = "blocked"]

\* A command enters with the issue and the session as it reads them.
Enter(c, kind, in, pc) ==
    /\ cmd[c].pc = "idle"
    /\ cmd' = [cmd EXCEPT ![c] = [Idle EXCEPT !.pc = pc, !.kind = kind, !.input = in,
                                              !.issue = issue, !.session = session]]

Disturb == past.faults < MaxFaults /\ past' = [past EXCEPT !.faults = @ + 1]

(***************************************************************************)
(* The facts a decision is taken on.  When the worktree is gone the        *)
(* detection falls back on the repository of the project, and the current  *)
(* branch reads as the target; on the current branch a session that has    *)
(* ended is not looked at.  Status and session are as read on entry.       *)
(***************************************************************************)
Merged == work.branch \subseteq work.target

FlowWorld(c) ==
    [status |-> cmd[c].issue, isolated |-> Project.isolated,
     missing |-> Project.isolated /\ ~repo.tree, external |-> ~Project.isolated,
     mismatch |-> Project.isolated /\ repo.tree, forge |-> Project.forge,
     closedOut |-> cmd[c].session # "running",
     unmerged |-> Project.isolated /\ ~repo.tree /\ repo.branch /\ ~Merged,
     clean |-> \/ ~Project.isolated /\ cmd[c].session # "running"
               \/ IF repo.tree THEN work.dirty = {} ELSE ~repo.targetDirty,
     confirm |-> Project.confirm, saved |-> Project.saved, path |-> "home"]

\* Mutant of Route: the edits are discarded whatever the user chose.
RouteDiscards(tr) ==
    LET effects == EffectSet(tr)
    IN  CASE "inject" \in effects -> "inject"
          [] "publish" \in effects -> "publish"
          [] "reconcile" \in effects -> "discard"
          [] OTHER -> IF "commit" \in effects THEN "commit" ELSE "persist"

\* Where the effects of a transition begin, an attempt record aside.
Route(tr) ==
    LET effects == EffectSet(tr)
    IN  CASE "inject" \in effects -> "inject"
          [] "publish" \in effects -> "publish"
          [] "reconcile" \in effects ->
               IF DirtyAlreadySkipped(tr.state) THEN "discard" ELSE "rebase"
          [] OTHER -> IF "commit" \in effects THEN "commit" ELSE "persist"

Decided(c, tr, pc) ==
    cmd' = [cmd EXCEPT ![c].pc = pc, ![c].state = tr.state, ![c].route = Route(tr),
                       ![c].head = work.branch]

(***************************************************************************)
(* drive.  The user answers the question the flow has asked, or starts     *)
(* over.                                                                   *)
(***************************************************************************)
Answers(in) ==
    /\ in.dirty \in {"auto_commit", "skip"} => flow.phase = "prompting_dirty"
    /\ in.dirty = "auto_commit" => Len(prompts) < MaxPrompts
    /\ in.closeout # "none" => flow.phase = "prompting_closeout"
    /\ in.dirty = "cancel" => flow.phase \in {"prompting_dirty", "prompting_closeout"}

Skips(in) == in.dirty = "skip" \/ in.ignoreDirty

Drive(c, in) ==
    /\ issue # "completed" /\ session # "deleted"
    /\ Answers(in)
    /\ Enter(c, "drive", in, "load")
    /\ LET over == flow.phase \in {"prompting_dirty", "prompting_closeout"}
                     /\ in = PlainInput
       IN  /\ over => past.faults < MaxFaults
           /\ past' = [past EXCEPT !.said = @ \/ Skips(in),
                                   !.faults = IF over THEN @ + 1 ELSE @]
    /\ UNCHANGED <<issue, session, live, flow, prompts, work, repo>>

Load(c) ==
    /\ cmd[c].pc = "load"
    /\ IF cmd[c].kind = "detect" /\ flow.phase # "auto_committing"
       THEN Return(c)
       ELSE cmd' = [cmd EXCEPT ![c].pc = "decide",
                               ![c].state = FoldInput(flow, cmd[c].input)]
    /\ UNCHANGED <<issue, session, live, flow, prompts, work, repo, past>>

DecideDrive(c) ==
    /\ cmd[c].pc = "decide" /\ cmd[c].kind = "drive"
    /\ LET event == DeriveEvent(cmd[c].state, cmd[c].input)
           tr    == Advance(cmd[c].state, FlowWorld(c), event)
       IN  IF Legal(cmd[c].state.phase, event)
           THEN Decided(c, tr, Route(tr))
           ELSE Return(c)
    /\ UNCHANGED <<issue, session, live, flow, prompts, work, repo, past>>

(***************************************************************************)
(* A decision that is refused: a git operation is in progress (drive then  *)
(* records a blocked attempt), the forge's command line is missing, or the *)
(* repository cannot be read.                                              *)
(***************************************************************************)
DecideRefused(c) ==
    /\ cmd[c].pc = "decide"
    /\ Return(c) /\ Disturb
    /\ UNCHANGED <<issue, session, live, flow, prompts, work, repo>>

(***************************************************************************)
(* detect.  The list of attempts comes newest first and is reversed, so    *)
(* the pending attempt is the oldest prompt not yet completed; a head that *)
(* differs from the one recorded with it counts as the agent's commit.     *)
(***************************************************************************)
Detect(c) ==
    /\ "detect" \in Others
    /\ session # "deleted" /\ flow.phase = "auto_committing"
    /\ Enter(c, "detect", PlainInput, "load")
    /\ UNCHANGED <<issue, session, live, flow, prompts, work, repo, past>>

Waiting == {i \in DOMAIN prompts : ~prompts[i].done}

Pending(i) == i \in Waiting /\ \A j \in Waiting : i <= j

Commits(i) == repo.tree /\ Pending(i) /\ prompts[i].head # work.branch

DecideDetect(c) ==
    /\ cmd[c].pc = "decide" /\ cmd[c].kind = "detect"
    /\ \/ \E i \in DOMAIN prompts :
            /\ Commits(i)
            /\ LET tr == Advance(cmd[c].state, FlowWorld(c), CommitDetected)
               IN  cmd' = [cmd EXCEPT ![c].pc = "record_commit", ![c].state = tr.state,
                                      ![c].route = Route(tr), ![c].head = work.branch,
                                      ![c].attempt = i]
       \/ (\A i \in DOMAIN prompts : ~Commits(i)) /\ Return(c)
    /\ UNCHANGED <<issue, session, live, flow, prompts, work, repo, past>>

(***************************************************************************)
(* The effects, one step each.  Without a live process the prompt is sent  *)
(* to nobody, and recorded all the same.                                   *)
(***************************************************************************)
Inject(c) ==
    /\ cmd[c].pc = "inject"
    /\ Goto(c, "record_prompt")
    /\ UNCHANGED <<issue, session, live, flow, prompts, work, repo, past>>

RecordPrompt(c) ==
    /\ cmd[c].pc = "record_prompt" /\ Len(prompts) < MaxPrompts
    /\ prompts' = Append(prompts, [head |-> cmd[c].head, done |-> FALSE])
    /\ Goto(c, "persist")
    /\ UNCHANGED <<issue, session, live, flow, work, repo, past>>

RecordCommit(c) ==
    /\ cmd[c].pc = "record_commit"
    /\ prompts' = [prompts EXCEPT ![cmd[c].attempt].done = TRUE]
    /\ Goto(c, cmd[c].route)
    /\ UNCHANGED <<issue, session, live, flow, work, repo, past>>

\* detect passes the worktree as the repository, for which no project is found.
Publish(c) ==
    /\ cmd[c].pc = "publish" /\ cmd[c].kind = "drive" /\ repo.branch
    /\ work' = [work EXCEPT !.remote = @ \cup work.branch]
    /\ Goto(c, "commit")
    /\ UNCHANGED <<issue, session, live, flow, prompts, repo, past>>

\* Mutant of PublishFails: the error is not looked at.
PublishFailsIgnored(c) ==
    /\ cmd[c].pc = "publish"
    /\ Disturb /\ Goto(c, "commit")
    /\ UNCHANGED <<issue, session, live, flow, prompts, work, repo>>

\* The branch may have been pushed before the request could not be created.
PublishFails(c) ==
    /\ cmd[c].pc = "publish" /\ Block(c)
    /\ \/ cmd[c].kind = "detect" /\ UNCHANGED <<past, work>>
       \/ Disturb /\ UNCHANGED work
       \/ /\ cmd[c].kind = "drive" /\ Disturb
          /\ work' = [work EXCEPT !.remote = @ \cup work.branch]
    /\ UNCHANGED <<issue, session, live, flow, prompts, repo>>

\* reset --hard and clean -fd, nothing when there is no worktree.
Discard(c) ==
    /\ cmd[c].pc = "discard"
    /\ work' = IF repo.tree
               THEN [work EXCEPT !.discarded = @ \cup work.dirty, !.dirty = {}]
               ELSE work
    /\ Goto(c, "rebase")
    /\ UNCHANGED <<issue, session, live, flow, prompts, repo, past>>

(***************************************************************************)
(* reconcile_worktree: nothing to do without a worktree; both checkouts    *)
(* have to be clean for the rebase, the target's again for the fast        *)
(* forward.  detect runs it inside the worktree: both checks look at it,   *)
(* a target that is checked out elsewhere cannot be checked out there, and *)
(* once the worktree is removed there is no place to delete the branch.    *)
(***************************************************************************)
TargetClean(c) == cmd[c].kind = "detect" \/ ~repo.targetDirty

TargetUsable(c) ==
    TargetClean(c) /\ (cmd[c].kind = "detect" => ~Project.current)

Rebase(c) ==
    /\ cmd[c].pc = "rebase"
    /\ CASE ~repo.tree -> Goto(c, "commit")
         [] repo.tree /\ TargetClean(c) /\ work.dirty = {} -> Goto(c, "fast_forward")
         [] OTHER -> Block(c)
    /\ UNCHANGED <<issue, session, live, flow, prompts, work, repo, past>>

\* Mutant of FastForward: the head seen at the decision is merged.
FastForwardHead(c) ==
    /\ cmd[c].pc = "fast_forward"
    /\ IF repo.branch /\ TargetUsable(c)
       THEN /\ work' = [work EXCEPT !.target = @ \cup cmd[c].head]
            /\ Goto(c, "remove_worktree")
       ELSE Block(c) /\ UNCHANGED work
    /\ UNCHANGED <<issue, session, live, flow, prompts, repo, past>>

\* Mutant of FastForward: a target that cannot be merged into is passed over.
FastForwardUnchecked(c) ==
    /\ cmd[c].pc = "fast_forward"
    /\ work' = IF TargetUsable(c)
               THEN [work EXCEPT !.target = @ \cup work.branch] ELSE work
    /\ Goto(c, "remove_worktree")
    /\ UNCHANGED <<issue, session, live, flow, prompts, repo, past>>

FastForward(c) ==
    /\ cmd[c].pc = "fast_forward"
    /\ IF repo.branch /\ TargetUsable(c)
       THEN /\ work' = [work EXCEPT !.target = @ \cup work.branch]
            /\ Goto(c, "remove_worktree")
       ELSE Block(c) /\ UNCHANGED work
    /\ UNCHANGED <<issue, session, live, flow, prompts, repo, past>>

\* A failed step of delete_issue_worktree is returned as an error.
GiveUp(c) == IF cmd[c].kind = "delete_worktree" THEN Return(c) ELSE Block(c)

\* worktree remove --force takes uncommitted edits with it.
RemoveWorktree(c) ==
    /\ cmd[c].pc = "remove_worktree"
    /\ IF repo.tree
       THEN /\ work' = [work EXCEPT !.discarded = @ \cup work.dirty, !.dirty = {}]
            /\ repo' = [repo EXCEPT !.tree = FALSE]
            /\ Goto(c, "delete_branch")
       ELSE GiveUp(c) /\ UNCHANGED <<work, repo>>
    /\ UNCHANGED <<issue, session, live, flow, prompts, past>>

\* branch -D takes commits with it that are nowhere else.
DeleteBranch(c) ==
    /\ cmd[c].pc = "delete_branch"
    /\ IF repo.branch /\ cmd[c].kind # "detect"
       THEN /\ work' = [work EXCEPT !.lost = @ \cup (work.branch \ (work.target \cup work.remote)),
                                    !.branch = {}]
            /\ repo' = [repo EXCEPT !.branch = FALSE]
            /\ IF cmd[c].kind = "delete_worktree" THEN Return(c) ELSE Goto(c, "commit")
       ELSE GiveUp(c) /\ UNCHANGED <<work, repo>>
    /\ UNCHANGED <<issue, session, live, flow, prompts, past>>

(***************************************************************************)
(* The completion transaction.  Which update it uses is chosen by what was *)
(* read on entry: the one guarded by the status only for an issue in       *)
(* review with a running session.  mark_terminated needs an open session.  *)
(***************************************************************************)
Guarded(c) == cmd[c].issue = "review" /\ cmd[c].session = "running"

\* Mutant of Commit: the flow row is left behind.
CommitKeepsRow(c) ==
    /\ cmd[c].pc = "commit"
    /\ issue' = "completed"
    /\ session' = IF session = "running" THEN "closed" ELSE session
    /\ Goto(c, "shutdown")
    /\ UNCHANGED <<live, flow, prompts, work, repo, past>>

Commit(c) ==
    /\ cmd[c].pc = "commit"
    /\ IF Guarded(c) => issue = "review" /\ session # "deleted"
       THEN /\ issue' = "completed"
            /\ session' = IF session = "running" /\ cmd[c].session # "closed"
                          THEN "closed" ELSE session
            /\ flow' = Detecting
            /\ IF cmd[c].kind = "drive" /\ session' = "closed"
               THEN Goto(c, "shutdown") ELSE Return(c)
       ELSE Return(c) /\ UNCHANGED <<issue, session, flow>>
    /\ UNCHANGED <<live, prompts, work, repo, past>>

\* Mutant of Shutdown: only a session that is still running is shut down.
ShutdownRunning(c) ==
    /\ cmd[c].pc = "shutdown"
    /\ live' = (live /\ session # "running")
    /\ Return(c)
    /\ UNCHANGED <<issue, session, flow, prompts, work, repo, past>>

\* The command has its result and ends the session's process.
Shutdown(c) ==
    /\ cmd[c].pc = "shutdown"
    /\ live' = FALSE
    /\ Return(c)
    /\ UNCHANGED <<issue, session, flow, prompts, work, repo, past>>

\* Every other state of the flow is upserted after the effects.
Persist(c) ==
    /\ cmd[c].pc = "persist"
    /\ flow' = Persisted(cmd[c].state)
    /\ Return(c)
    /\ UNCHANGED <<issue, session, live, prompts, work, repo, past>>

\* A git step that fails (a conflict, a locked repository) blocks the flow.
GitFails(c) ==
    /\ \/ cmd[c].pc \in {"discard", "rebase", "fast_forward"} /\ Block(c)
       \/ cmd[c].pc \in {"remove_worktree", "delete_branch"} /\ GiveUp(c)
    /\ Disturb
    /\ UNCHANGED <<issue, session, live, flow, prompts, work, repo>>

\* A prompt that cannot be sent, or a transaction that fails, is returned as
\* an error at once: the effects before it have happened, the flow is not saved.
ReturnsError(c) ==
    /\ cmd[c].pc \in {"inject", "record_prompt", "record_commit", "commit",
                      "persist", "update"}
    /\ Return(c) /\ Disturb
    /\ UNCHANGED <<issue, session, live, flow, prompts, work, repo>>

(***************************************************************************)
(* advance_issue_status: the issue with its session is read, the target is *)
(* checked against what was read, and the transaction writes the status,   *)
(* except that an issue read as running is put in review only if it still  *)
(* is.  A return to the backlog closes and soft-deletes the session.  The  *)
(* process is ended for a closed session, and for a deleted one that was   *)
(* running when the command began.                                         *)
(***************************************************************************)
Target(kind) == CASE kind = "rollback" -> "backlog"
                  [] kind = "to_running" -> "running"
                  [] kind = "to_review" -> "review"

Advances(c, kind) ==
    /\ kind \in Others \cap {"rollback", "to_running", "to_review"}
    /\ issue # Target(kind)
    /\ issue = "completed" => kind = "rollback"
    /\ Enter(c, kind, PlainInput, "update")
    /\ UNCHANGED <<issue, session, live, flow, prompts, work, repo, past>>

UpdateStatus(c) ==
    /\ cmd[c].pc = "update" /\ cmd[c].kind \in {"to_running", "to_review"}
    /\ LET guarded == /\ cmd[c].kind = "to_review" /\ cmd[c].issue = "running"
                      /\ session # "deleted"
       IN  IF guarded /\ issue # "running"
           THEN Return(c) /\ UNCHANGED issue
           ELSE /\ issue' = Target(cmd[c].kind)
                /\ IF session = "closed" THEN Goto(c, "shutdown") ELSE Return(c)
    /\ UNCHANGED <<session, live, flow, prompts, work, repo, past>>

\* Mutant of Rollback: an issue whose session ended meanwhile is written anyway.
RollbackHalf(c) ==
    /\ cmd[c].pc = "update" /\ cmd[c].kind = "rollback"
    /\ issue' = "backlog"
    /\ session' = IF cmd[c].session = "running" /\ session # "running"
                  THEN session ELSE "deleted"
    /\ Return(c)
    /\ UNCHANGED <<live, flow, prompts, work, repo, past>>

Rollback(c) ==
    /\ cmd[c].pc = "update" /\ cmd[c].kind = "rollback"
    /\ IF cmd[c].session = "deleted"
       THEN issue' = "backlog" /\ Return(c) /\ UNCHANGED session
       ELSE IF session = "deleted" \/ (cmd[c].session = "running" /\ session # "running")
            THEN Return(c) /\ UNCHANGED <<issue, session>>
            ELSE /\ issue' = "backlog" /\ session' = "deleted"
                 /\ IF cmd[c].session = "running" THEN Goto(c, "shutdown") ELSE Return(c)
    /\ UNCHANGED <<live, flow, prompts, work, repo, past>>

\* delete_issue_worktree: the user gives up what is in the worktree now.
DeleteWorktree(c) ==
    /\ "delete_worktree" \in Others /\ Project.isolated /\ repo.tree
    /\ Enter(c, "delete_worktree", PlainInput, "remove_worktree")
    /\ past' = [past EXCEPT !.waived = @ \cup work.dirty \cup work.branch]
    /\ UNCHANGED <<issue, session, live, flow, prompts, work, repo>>

Step(c) ==
    \/ Load(c) \/ DecideDrive(c) \/ DecideDetect(c)
    \/ Inject(c) \/ RecordPrompt(c) \/ RecordCommit(c)
    \/ Publish(c) \/ Discard(c)
    \/ Rebase(c) \/ FastForward(c) \/ RemoveWorktree(c) \/ DeleteBranch(c)
    \/ Commit(c) \/ Persist(c) \/ Shutdown(c)
    \/ UpdateStatus(c) \/ Rollback(c)

Failure(c) == DecideRefused(c) \/ PublishFails(c) \/ GitFails(c) \/ ReturnsError(c)

(***************************************************************************)
(* The agent and the user.  An edit is late once a command is past its     *)
(* rebase, a commit once one is past the fast forward or the publication,  *)
(* and both when the issue is completed: nothing that a command checks can *)
(* take notice of them any more.                                           *)
(***************************************************************************)
Removing(c) == cmd[c].pc \in {"remove_worktree", "delete_branch", "commit"}

PastRebase(c) == cmd[c].pc = "fast_forward" \/ Removing(c)

Edit(e) ==
    /\ repo.tree
    /\ \A place \in DOMAIN work : e \notin work[place]
    /\ work' = [work EXCEPT !.dirty = @ \cup {e}]
    /\ past' = IF issue = "completed" \/ \E c \in Cmds : PastRebase(c)
               THEN [past EXCEPT !.lateEdits = @ \cup {e}] ELSE past
    /\ UNCHANGED <<issue, session, live, flow, prompts, repo, cmd>>

\* Without a worktree of its own the agent commits to the target branch.
CommitEdits ==
    /\ repo.tree /\ work.dirty # {}
    /\ work' = [work EXCEPT !.branch = @ \cup work.dirty, !.dirty = {},
                            !.target = IF Project.isolated THEN @ ELSE @ \cup work.dirty]
    /\ past' = IF issue = "completed" \/ \E c \in Cmds : Removing(c)
               THEN [past EXCEPT !.lateCommits = @ \cup work.dirty] ELSE past
    /\ UNCHANGED <<issue, session, live, flow, prompts, repo, cmd>>

SoilTarget ==
    /\ ~repo.targetDirty /\ Disturb
    /\ repo' = [repo EXCEPT !.targetDirty = TRUE]
    /\ UNCHANGED <<issue, session, live, flow, prompts, work, cmd>>

CleanTarget ==
    /\ repo.targetDirty
    /\ repo' = [repo EXCEPT !.targetDirty = FALSE]
    /\ UNCHANGED <<issue, session, live, flow, prompts, work, cmd, past>>

\* mark_issue_review, one transaction.
MarkReview ==
    /\ issue = "running" /\ session # "deleted"
    /\ issue' = "review"
    /\ UNCHANGED <<session, live, flow, prompts, work, repo, cmd, past>>

\* The agent's process ends: the session is stopped unless it is closed.
SessionExits ==
    /\ live /\ Disturb
    /\ live' = FALSE
    /\ session' = IF session = "running" THEN "stopped" ELSE session
    /\ UNCHANGED <<issue, flow, prompts, work, repo, cmd>>

\* The application dies and is started again; a session still marked running
\* has no process then and is reconciled to stopped before it is used.
Crash ==
    /\ Disturb
    /\ cmd' = [c \in Cmds |-> Idle]
    /\ live' = FALSE
    /\ session' = IF session = "running" THEN "stopped" ELSE session
    /\ UNCHANGED <<issue, flow, prompts, work, repo>>

Environment ==
    \/ \E e \in Edits : Edit(e)
    \/ CommitEdits \/ SoilTarget \/ CleanTarget
    \/ MarkReview \/ SessionExits \/ Crash

Calls(c) ==
    \/ \E in \in Requests : Drive(c, in)
    \/ Detect(c) \/ DeleteWorktree(c)
    \/ \E kind \in {"rollback", "to_running", "to_review"} : Advances(c, kind)

Next ==
    \/ \E c \in Cmds : Calls(c) \/ Step(c) \/ Failure(c)
    \/ Environment

(***************************************************************************)
(* A command that runs gets on, the user cleans the target's checkout when *)
(* told to, and insists: answers and tries again until it is done.         *)
(***************************************************************************)
Fairness ==
    /\ \A c \in Cmds : WF_vars(Step(c)) /\ SF_vars(\E in \in Requests : Drive(c, in))
    /\ WF_vars(CleanTarget)

Spec == Init /\ [][Next]_vars

FairSpec == Spec /\ Fairness

(***************************************************************************)
(* Properties                                                              *)
(***************************************************************************)
AllIdle == \A c \in Cmds : cmd[c].pc = "idle"

\* A commit is never lost with the branch that held it, whatever fails and
\* however commands overlap, unless it was made after the fast forward of a
\* command or the user had the worktree deleted.
CommittedWorkSafe == work.lost \subseteq past.lateCommits \cup past.waived

\* Uncommitted edits are discarded only after the user chose to leave them
\* (or late, or with the worktree the user had deleted).
UncommittedWorkSafe ==
    ~past.said => work.discarded \subseteq past.lateEdits \cup past.waived

\* A completed issue has its commits on the target branch or in a request,
\* those apart that were made after the fast forward or given up.
DeliveredWhenCompleted ==
    issue = "completed" =>
        work.branch \subseteq work.target \cup work.remote \cup past.lateCommits \cup past.waived

\* Completing an issue ends its agent: no process is left in the registry.
AgentEndsWithIssue == issue = "completed" /\ AllIdle => ~live

\* No half-way flow is left for an issue that is completed; a later completion
\* would start from its answers.
RowClearedWhenCompleted == issue = "completed" /\ AllIdle => flow = Detecting

\* Commands that do not overlap act on the issue and its session in one step:
\* what a command has read on entry, and what the agent, the user or a crash
\* change while its git processes run, never makes it write a status that the
\* issue could not go to from where it is (transaction.rs, advance_issue_status).
Board == INSTANCE IssueBoard WITH issue <- issue, session <- session

ActsInOneStep == Board!Spec

\* A completed issue can only be returned to the backlog.
CompletedOnlyBackToBacklog ==
    [][issue = "completed" => issue' \in {"completed", "backlog"}]_vars

\* A detected commit is one that was made after the latest prompt.
DetectedCommitIsNew ==
    \A c \in Cmds : cmd[c].pc = "record_commit" =>
        cmd[c].head # prompts[Len(prompts)].head

\* Whatever step failed, the user who insists, and does not move the issue or
\* delete its worktree instead, gets the issue completed.
EventuallyCompletes ==
    <>(issue = "completed" \/ \E c \in Cmds : cmd[c].kind \notin {"drive", "detect"})
=============================================================================
