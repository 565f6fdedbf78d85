------------------------ MODULE CompletionDialogue ------------------------
(***************************************************************************)
(* The dialogue by which an issue is completed: the protocol client of the *)
(* user interface (completion-flow-client.ts, runCompletionFlow and        *)
(* waitForAgentCommit) talking to the two backend commands                 *)
(* complete_issue_flow and detect_agent_commit_completion (use_case.rs,    *)
(* drive and detect_commit).  A backend call is one step here; what can    *)
(* happen between the steps of a call is the subject of CompletionFlow.    *)
(*                                                                         *)
(* The facts a call gathers are chosen anew for every call: the agent, the *)
(* user's editor and git move on between two calls.                        *)
(***************************************************************************)
EXTENDS CompletionMachine, Naturals

CONSTANTS
    Projects,   \* settings of the project and the mode of the session
    MaxRuns,    \* how often the user starts the flow
    MaxPolls,   \* detection polls of one wait (maxDetectAttempts)
    MaxAuto     \* how often the user answers "let the agent commit"

ASSUME BoundsAssumption ==
    /\ MaxRuns \in Nat /\ MaxAuto \in Nat /\ MaxPolls \in Nat \ {0}
    /\ Projects \subseteq [isolated : BOOLEAN, forge : BOOLEAN,
                           confirm : BOOLEAN, saved : {"merge", "pr"}]

VARIABLES
    project,    \* the settings; they do not change during the flow
    flow,       \* the persisted flow; Detecting stands for no row
    completed,  \* whether the issue is completed
    client,     \* the protocol client of the user interface
    said,       \* answers the user has given that are acted on later
    last        \* what the last backend transition did and on which facts

vars == <<project, flow, completed, client, said, last>>

ClientPcs == {"idle", "calling", "waiting", "ask_dirty", "ask_closeout",
              "ask_cleanup", "ask_continue"}

Outcomes == {"none", "completed", "cancelled", "blocked", "error"}

TypeOK ==
    /\ project \in Projects
    /\ flow \in CompletionStates
    /\ completed \in BOOLEAN
    /\ client \in [pc : ClientPcs, input : Inputs, outcome : Outcomes,
                   ignoreDirty : BOOLEAN, declined : BOOLEAN,
                   polls : 0..(MaxPolls - 1), runs : 0..MaxRuns, autos : 0..MaxAuto]
    /\ said \subseteq {"skip", "cleanup_yes", "cleanup_no"}
    /\ last \in [effects : SUBSET Effects, event : {"none"} \cup {e.kind : e \in Events},
                 external : BOOLEAN, mismatch : BOOLEAN, clean : BOOLEAN,
                 unmerged : BOOLEAN]

Init ==
    /\ project \in Projects
    /\ flow = Detecting
    /\ completed = FALSE
    /\ client = [pc |-> "idle", input |-> PlainInput, outcome |-> "none",
                 ignoreDirty |-> FALSE, declined |-> FALSE,
                 polls |-> 0, runs |-> 0, autos |-> 0]
    /\ said = {}
    /\ last = [effects |-> {}, event |-> "none",
               external |-> FALSE, mismatch |-> FALSE, clean |-> TRUE,
               unmerged |-> FALSE]

(***************************************************************************)
(* The facts gather_completion_world can return: a missing worktree reads  *)
(* as being on the target branch, and a worktree is RedWhisk's unless the  *)
(* agent has drifted out of it.  Facts nothing reads for the mode of the   *)
(* session are fixed: a closed session on the current branch is read with  *)
(* a clean placeholder snapshot.                                           *)
(***************************************************************************)
Facts == [missing : BOOLEAN, mismatch : BOOLEAN, unmerged : BOOLEAN,
          closedOut : BOOLEAN, clean : BOOLEAN, path : {"home", "drift"}]

WorktreeFacts ==
    {f \in Facts : /\ ~f.closedOut
                   /\ ~(f.missing /\ f.mismatch)
                   /\ f.unmerged => f.missing /\ f.path = "home"}

CurrentBranchFacts ==
    {f \in Facts : /\ ~f.missing /\ ~f.mismatch /\ ~f.unmerged
                   /\ f.closedOut => f.clean}

World(p, f) ==
    [status |-> "review", isolated |-> p.isolated, missing |-> f.missing,
     external |-> ~p.isolated \/ f.path = "drift", mismatch |-> f.mismatch,
     forge |-> p.forge, closedOut |-> f.closedOut, unmerged |-> f.unmerged,
     clean |-> f.clean, confirm |-> p.confirm, saved |-> p.saved,
     path |-> f.path]

GatheredFacts == IF project.isolated THEN WorktreeFacts ELSE CurrentBranchFacts

(***************************************************************************)
(* interpret_effects.  With ok false a reconcile or publish effect fails:  *)
(* the flow is blocked and the effects after it are not executed.          *)
(***************************************************************************)
Execute(tr, w, event, ok) ==
    LET stops == ~ok /\ EffectSet(tr) \cap {"reconcile", "publish"} # {}
        done  == "commit" \in EffectSet(tr) /\ ~stops
        final == IF stops THEN [tr.state EXCEPT !.phase = "blocked"] ELSE tr.state
    IN  /\ completed' = (completed \/ done)
        /\ flow' = IF done THEN Detecting ELSE Persisted(final)
        /\ last' = [effects |-> EffectSet(tr)
                                  \ (IF stops THEN {"commit"} ELSE {}),
                    event |-> event.kind, external |-> w.external,
                    mismatch |-> w.mismatch, clean |-> w.clean,
                    unmerged |-> w.unmerged]

Rest(outcome) == [client EXCEPT !.pc = "idle", !.outcome = outcome,
                                !.input = PlainInput]

\* A decision is sent once: the next call starts from an empty input.
Ask(pc) == [client EXCEPT !.pc = pc, !.input = PlainInput]

ClientAfter(phase) ==
    CASE phase = "completed" -> Rest("completed")
      [] phase = "cancelled" -> Rest("cancelled")
      [] phase = "blocked" -> Rest("blocked")
      [] phase = "prompting_dirty" -> Ask("ask_dirty")
      [] phase = "auto_committing" -> [Ask("waiting") EXCEPT !.polls = 0]
      [] phase = "confirming_continue" -> Ask("ask_continue")
      [] phase = "confirming_cleanup" -> Ask("ask_cleanup")
      [] phase = "prompting_closeout" -> Ask("ask_closeout")
      [] OTHER -> Rest("completed")

(***************************************************************************)
(* The user starts the flow, from the board, with the legacy command that  *)
(* ignores uncommitted changes, or from the agents view having already     *)
(* chosen to let the agent commit.                                         *)
(***************************************************************************)
Start(ignoreDirty, dirty) ==
    /\ client.pc = "idle" /\ client.runs < MaxRuns
    /\ dirty = "auto_commit" => client.autos < MaxAuto
    /\ client' = [client EXCEPT !.pc = "calling", !.runs = @ + 1,
                                !.outcome = "none", !.declined = FALSE,
                                !.ignoreDirty = ignoreDirty,
                                !.autos = IF dirty = "none" THEN @ ELSE @ + 1,
                                !.input = [PlainInput EXCEPT !.dirty = dirty]]
    /\ said' = IF ignoreDirty THEN said \cup {"skip"} ELSE said
    /\ UNCHANGED <<project, flow, completed, last>>

(***************************************************************************)
(* complete_issue_flow: rejected for a completed issue; blocked, with no   *)
(* change of the flow, when a detection finds a git operation in progress. *)
(***************************************************************************)
CallRejected ==
    /\ client.pc = "calling" /\ completed
    /\ client' = Rest("error")
    /\ UNCHANGED <<project, flow, completed, said, last>>

CallInput == [client.input EXCEPT !.ignoreDirty = client.ignoreDirty]

CallGitOperation ==
    /\ client.pc = "calling" /\ ~completed
    /\ DeriveEvent(FoldInput(flow, CallInput), CallInput) = Begin
    /\ client' = Rest("blocked")
    /\ UNCHANGED <<project, flow, completed, said, last>>

\* A closeout by pull request needs the command line of the forge.
CallForgeCliMissing ==
    /\ client.pc = "calling" /\ ~completed
    /\ DeriveEvent(FoldInput(flow, CallInput), CallInput) = Event("closeout", "pr")
    /\ client' = Rest("error")
    /\ UNCHANGED <<project, flow, completed, said, last>>

Call(w, ok) ==
    /\ client.pc = "calling" /\ ~completed
    /\ LET state == FoldInput(flow, CallInput)
           event == DeriveEvent(state, CallInput)
           tr    == Advance(state, w, event)
       IN  /\ Legal(state.phase, event)
           /\ Execute(tr, w, event, ok)
           /\ client' = ClientAfter(IF completed' THEN "completed"
                                    ELSE flow'.phase)
    /\ UNCHANGED <<project, said>>

(***************************************************************************)
(* The user's answers.  A closed closeout dialogue is sent as a cancel.    *)
(***************************************************************************)
Send(in) == client' = [client EXCEPT !.pc = "calling", !.input = in]

AnswerDirty(choice) ==
    /\ client.pc = "ask_dirty"
    /\ choice = "auto_commit" => client.autos < MaxAuto
    /\ client' = [client EXCEPT !.pc = "calling",
                     !.input = [PlainInput EXCEPT !.dirty = choice],
                     !.autos = IF choice = "auto_commit" THEN @ + 1 ELSE @]
    /\ said' = IF choice = "skip" THEN said \cup {"skip"} ELSE said
    /\ UNCHANGED <<project, flow, completed, last>>

AnswerCloseout(choice) ==
    /\ client.pc = "ask_closeout"
    /\ Send(IF choice = "none" THEN [PlainInput EXCEPT !.dirty = "cancel"]
            ELSE [PlainInput EXCEPT !.closeout = choice])
    /\ UNCHANGED <<project, flow, completed, said, last>>

AnswerCleanup(choice) ==
    /\ client.pc = "ask_cleanup"
    /\ Send([PlainInput EXCEPT !.cleanup = choice])
    /\ said' = said \cup {IF choice = "yes" THEN "cleanup_yes" ELSE "cleanup_no"}
    /\ UNCHANGED <<project, flow, completed, last>>

AnswerContinue(choice) ==
    /\ client.pc = "ask_continue"
    /\ client' = [client EXCEPT !.pc = "calling",
                     !.input = [PlainInput EXCEPT !.continue = choice],
                     !.declined = (choice = "no")]
    /\ UNCHANGED <<project, flow, completed, said, last>>

(***************************************************************************)
(* waitForAgentCommit: one detection poll.  Outside auto_committing the    *)
(* backend reports that nothing was detected.  A poll can also report a    *)
(* git operation, or a turn that ended with the workspace still dirty.     *)
(***************************************************************************)
PollNothing ==
    /\ client.pc = "waiting"
    /\ client' = IF client.polls + 1 < MaxPolls
                 THEN [client EXCEPT !.polls = @ + 1]
                 ELSE Rest("error")
    /\ UNCHANGED <<project, flow, completed, said, last>>

PollGivesUp ==
    /\ client.pc = "waiting" /\ flow.phase = "auto_committing"
    /\ client' = Rest("error")
    /\ UNCHANGED <<project, flow, completed, said, last>>

(***************************************************************************)
(* A poll that finds a new head.  detect_commit does not compute drift, so *)
(* the owner is the one the session was started with, and it runs the      *)
(* effects with the detection path as the repository: a publish does not   *)
(* find its project there, and a reconcile started inside the worktree     *)
(* cannot delete the branch once that worktree is gone.  Only from another *)
(* checkout can a reconcile succeed.                                       *)
(***************************************************************************)
PollDetects(w, ok) ==
    /\ client.pc = "waiting" /\ flow.phase = "auto_committing"
    /\ w.path = flow.path
    /\ LET seen == [w EXCEPT !.external = ~w.isolated]
           tr   == Advance(flow, seen, CommitDetected)
       IN  /\ ok => flow.path = "drift" /\ "publish" \notin EffectSet(tr)
           /\ Execute(tr, w, CommitDetected, ok)
    /\ client' = Ask("ask_continue")
    /\ UNCHANGED <<project, said>>

Answers ==
    \/ \E choice \in {"auto_commit", "skip", "cancel"} : AnswerDirty(choice)
    \/ \E choice \in {"none", "merge", "pr"} : AnswerCloseout(choice)
    \/ \E choice \in {"yes", "no"} : AnswerCleanup(choice)
    \/ \E choice \in {"yes", "no"} : AnswerContinue(choice)

Calls ==
    \/ CallRejected
    \/ CallGitOperation
    \/ CallForgeCliMissing
    \/ \E f \in GatheredFacts, ok \in BOOLEAN : Call(World(project, f), ok)

Polls ==
    \/ PollNothing
    \/ PollGivesUp
    \/ \E f \in GatheredFacts, ok \in BOOLEAN : PollDetects(World(project, f), ok)

Next ==
    \/ Start(FALSE, "none") \/ Start(TRUE, "none") \/ Start(FALSE, "auto_commit")
    \/ Calls
    \/ Answers
    \/ Polls

(***************************************************************************)
(* A command that was called returns, the poll timer fires and a modal     *)
(* dialogue is answered sooner or later; nobody has to start a run.        *)
(***************************************************************************)
Fairness == WF_vars(Calls) /\ WF_vars(Answers) /\ WF_vars(Polls)

Spec == Init /\ [][Next]_vars /\ Fairness

(***************************************************************************)
(* Properties                                                              *)
(***************************************************************************)

\* What derive_completion_event makes of the call the client is about to send.
Heard == DeriveEvent(FoldInput(flow, CallInput), CallInput)

\* The call that follows an answer becomes the event of that answer; a closed
\* closeout dialogue becomes a cancel, and "yes" and "no" to the question whether
\* to go on after the agent's commit become a new detection.
AnswersHeard ==
    /\ \A choice \in {"auto_commit", "skip", "cancel"} :
         AnswerDirty(choice) => Heard' = Event("dirty", choice)
    /\ \A choice \in {"merge", "pr"} :
         AnswerCloseout(choice) => Heard' = Event("closeout", choice)
    /\ (AnswerCloseout("none") => Heard' = Event("dirty", "cancel"))
    /\ \A choice \in {"yes", "no"} :
         /\ (AnswerCleanup(choice) => Heard' = Event("cleanup", choice))
         /\ (AnswerContinue(choice) => Heard' = Begin)

\* Every answer is taken for what it is, but for the one whether to go on.
\* derive_completion_event reads an input only in the phase that asked for it and
\* makes every other call a new detection, so the question on the screen and the
\* persisted phase have to agree, over runs that are restarted as well. No phase
\* waits for the answer whether to go on: what a "no" may then complete is the
\* subject of DeclineDoesNotComplete.
AnswerReachesQuestion == [][AnswersHeard]_vars

\* Every call the client makes becomes an event that is legal in the phase it
\* meets: the completionStateMismatch error of drive is unreachable for it.
ClientNeverMismatched ==
    client.pc = "calling" =>
        LET state == FoldInput(flow, CallInput)
        IN  Legal(state.phase, DeriveEvent(state, CallInput))

\* In a call of complete_issue_flow a worktree that is not RedWhisk's is
\* rebased and removed only if the user has agreed to its removal.
ExternalCleanupNeedsConsent ==
    "reconcile" \in last.effects /\ last.external
        => "cleanup_yes" \in said \/ last.event = "commit_detected"

\* The same for every way to complete: once the agent has drifted out of the
\* session's worktree, no worktree is removed without the user's consent.
DriftedCleanupNeedsConsent ==
    {"reconcile", "commit"} \subseteq last.effects /\ last.external
        => "cleanup_yes" \in said

\* A detection that finds uncommitted changes never reaches a merge, which
\* would discard them, or the completion unless the user chose to leave them.
DirtyDetectionNeedsConsent ==
    last.event = "begin" /\ ~last.clean /\ "commit" \in last.effects
        => "skip" \in said

\* An isolated session whose worktree was read as differing from its target is
\* never completed with neither a merge nor a published request, unless the user
\* declined the removal of the worktree. A missing worktree is read as not
\* differing: what is left on its branch is the subject of MissingUnmergedBlocks.
NothingLeftBehind ==
    "commit" \in last.effects /\ project.isolated /\ last.mismatch
        => \/ last.effects \cap {"reconcile", "publish"} # {}
           \/ "cleanup_no" \in said

\* A RedWhisk worktree that is missing while its branch is not merged stops
\* the completion (reconcile blocks with the git error).
MissingUnmergedBlocks ==
    last.unmerged => "commit" \notin last.effects

\* The user who was asked whether to go on after the agent's commit, and said
\* no, does not find the issue completed by that answer.
DeclineDoesNotComplete ==
    [][client.declined /\ client'.declined => completed' = completed]_vars

\* Whatever the environment does between calls, questions do not go round in
\* circles: a run ends once the agent-commit answers are used up.
DialogueEnds == client.pc # "idle" ~> client.pc = "idle"
=============================================================================
