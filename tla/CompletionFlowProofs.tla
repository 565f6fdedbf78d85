------------------------ MODULE CompletionFlowProofs ------------------------
(***************************************************************************)
(* No completed issue leaves committed work behind, no commit is lost with *)
(* its branch, and no edit is discarded unasked, for any number of         *)
(* commands and edits, with every step failing and the application dying   *)
(* at any point; and what one command at a time leaves of the agent and    *)
(* of the row of the flow.                                                 *)
(*                                                                         *)
(* The invariant: once a command is going to remove the worktree, delete   *)
(* the branch or complete the issue, once the worktree is gone, and once   *)
(* the issue is completed, every commit of the branch is on the target, in *)
(* a request, late, or given up by the user (Safe).  A commit made from    *)
(* then on is late, and the worktree never comes back.  On the current     *)
(* branch of the project every commit is on the target at once (Home).     *)
(***************************************************************************)
EXTENDS CompletionFlow, SequenceTheorems, TLAPS

Safe == work.branch \subseteq work.target \cup work.remote \cup past.lateCommits \cup past.waived

Home == ~Project.isolated => work.branch \subseteq work.target

WorkInv ==
    /\ Home
    /\ issue = "completed" => Safe
    /\ ~repo.tree => Safe
    /\ \A c \in Cmds : Removing(c) => Safe

(***************************************************************************)
(* The decision machine: a legal decision is a well-formed transition,     *)
(* what its effects are, and that it makes up no answer.  The lemmas and   *)
(* proofs are those of CompletionDialogueProofs, whose variables cannot be *)
(* extended together with the ones of this module.                         *)
(***************************************************************************)
TransitionType == [state : CompletionStates, effects : Seq(Effects)]

\* The phases in which the user is asked, or the flow has stopped.
Waits == {"prompting_dirty", "prompting_closeout", "confirming_cleanup",
          "blocked", "cancelled"}

\* Every way to leave a branch of advance is a well-formed transition.
LEMMA ExitsTyped ==
    ASSUME NEW s \in CompletionStates
    PROVE  /\ Complete(s) \in TransitionType
           /\ RebaseThenComplete(s) \in TransitionType
           /\ OpenPullRequest(s) \in TransitionType
           /\ Cancelled(s) \in TransitionType
  <1>1. [s EXCEPT !.phase = "completed"] \in CompletionStates
    BY DEF CompletionStates, Phases
  <1>2. [s EXCEPT !.phase = "cancelled"] \in CompletionStates
    BY DEF CompletionStates, Phases
  <1>3. /\ <<"commit">> \in Seq(Effects) /\ <<"reconcile", "commit">> \in Seq(Effects)
        /\ <<"publish", "commit">> \in Seq(Effects) /\ <<>> \in Seq(Effects)
    BY DEF Effects
  <1> QED
    BY <1>1, <1>2, <1>3 DEF TransitionType, Transition, Complete,
       RebaseThenComplete, OpenPullRequest, Cancelled

\* A prompt is a well-formed transition without effects.
LEMMA PromptTyped ==
    ASSUME NEW s \in CompletionStates, NEW w \in Worlds, NEW phase \in Phases
    PROVE  Prompt(s, w, phase) \in TransitionType
  <1>1. [s EXCEPT !.phase = phase, !.path = w.path] \in CompletionStates
    BY DEF CompletionStates, Worlds, Paths
  <1> QED
    BY <1>1 DEF TransitionType, Transition, Prompt

\* The closeout route is one of four, and the action it is computed from is
\* the user's or the one saved in the project.
LEMMA RoutesTyped ==
    ASSUME NEW w \in Worlds, NEW action \in {"none", "merge", "pr"}
    PROVE  RouteCloseout(w, action) \in {"complete", "reconcile", "prompt", "pr"}
  BY DEF Worlds, RouteCloseout

LEMMA AppliedTyped ==
    ASSUME NEW s \in CompletionStates, NEW w \in Worlds
    PROVE  AppliedCloseout(s, w) \in {"none", "merge", "pr"}
  BY DEF Worlds, CompletionStates, AppliedCloseout

\* Reconciling is a well-formed transition.
LEMMA ReconcileTyped ==
    ASSUME NEW s \in CompletionStates, NEW w \in Worlds
    PROVE  Reconcile(s, w) \in TransitionType
  <1>1. Transition([s EXCEPT !.phase = "blocked"], <<>>) \in TransitionType
    BY DEF TransitionType, Transition, CompletionStates, Phases
  <1>2. s.cleanup \in {"none", "yes", "no"} /\ w.external \in BOOLEAN
    BY DEF CompletionStates, Worlds
  <1>3. "confirming_cleanup" \in Phases
    BY DEF Phases
  <1> QED
    BY <1>1, <1>2, <1>3, ExitsTyped, PromptTyped DEF Reconcile

\* What follows the handling of uncommitted changes is well-formed.
LEMMA AfterDirtyTyped ==
    ASSUME NEW s \in CompletionStates, NEW w \in Worlds
    PROVE  AfterDirty(s, w) \in TransitionType
  <1> DEFINE next == [s EXCEPT !.closeout = AppliedCloseout(s, w)]
             route == RouteCloseout(w, next.closeout)
  <1>1. next \in CompletionStates
    BY AppliedTyped DEF CompletionStates
  <1>2. route \in {"complete", "reconcile", "prompt", "pr"}
    BY <1>1, RoutesTyped DEF CompletionStates
  <1>3. "prompting_closeout" \in Phases
    BY DEF Phases
  <1> QED
    BY <1>1, <1>2, <1>3, ExitsTyped, PromptTyped, ReconcileTyped DEF AfterDirty

\* advance maps states, worlds and legal events to states and effects.
LEMMA AdvanceTyped ==
    ASSUME NEW s \in CompletionStates, NEW w \in Worlds, NEW e \in Events,
           Legal(s.phase, e)
    PROVE  Advance(s, w, e) \in TransitionType
  <1>1. CASE e.kind = "begin"
    <2>1. BeginDetection(s, w) \in TransitionType
      BY ExitsTyped, PromptTyped, AfterDirtyTyped DEF BeginDetection, Phases
    <2> QED
      BY <1>1, <2>1 DEF Advance
  <1>2. CASE e.kind = "dirty"
    <2>1. e.choice \in {"auto_commit", "skip", "cancel"}
      BY <1>2 DEF Events, Event, Begin, CommitDetected
    <2>2. AutoCommitting(s, w) \in TransitionType
      <3>1. [s EXCEPT !.phase = "auto_committing", !.dirty = "auto_commit",
                      !.path = w.path] \in CompletionStates
        BY DEF CompletionStates, Worlds, Phases, Paths
      <3>2. <<"inject", "record_prompt">> \in Seq(Effects)
        BY DEF Effects
      <3> QED
        BY <3>1, <3>2 DEF AutoCommitting, Transition, TransitionType
    <2>3. [s EXCEPT !.phase = "reconciling", !.dirty = "skip", !.path = w.path]
            \in CompletionStates
      BY DEF CompletionStates, Worlds, Phases, Paths
    <2>4. DecideDirty(s, w, e.choice) \in TransitionType
      BY <2>1, <2>2, <2>3, ExitsTyped, AfterDirtyTyped DEF DecideDirty
    <2> QED
      BY <1>2, <2>4 DEF Advance
  <1>3. CASE e.kind = "commit_detected"
    <2> DEFINE routed == AfterDirty(s, w)
    <2>1. routed.state \in CompletionStates /\ routed.effects \in Seq(Effects)
      BY AfterDirtyTyped DEF TransitionType
    <2>2. [routed.state EXCEPT !.path = w.path] \in CompletionStates
      BY <2>1 DEF CompletionStates, Worlds, Paths
    <2>3. <<"record_commit">> \o routed.effects \in Seq(Effects)
      BY <2>1 DEF Effects
    <2> QED
      BY <1>3, <2>2, <2>3 DEF Advance, DetectCommit, Transition, TransitionType
  <1>4. CASE e.kind = "continue"
    <2>1. [s EXCEPT !.phase = "reconciling"] \in CompletionStates
      BY DEF CompletionStates, Phases
    <2> QED
      BY <1>4, <2>1, ExitsTyped, AfterDirtyTyped DEF Advance, ConfirmContinue
  <1>5. CASE e.kind = "cleanup"
    <2>1. e.choice \in {"yes", "no"}
      BY <1>5 DEF Events, Event, Begin, CommitDetected
    <2>2. [s EXCEPT !.cleanup = e.choice] \in CompletionStates
      BY <2>1 DEF CompletionStates
    <2> QED
      BY <1>5, <2>2, ExitsTyped DEF Advance, DecideCleanup
  <1>6. CASE e.kind = "closeout"
    <2>1. e.choice \in {"merge", "pr"}
      BY <1>6 DEF Events, Event, Begin, CommitDetected
    <2>2. [s EXCEPT !.closeout = e.choice] \in CompletionStates
      BY <2>1 DEF CompletionStates
    <2> QED
      BY <1>6, <2>2, AfterDirtyTyped DEF Advance
  <1> QED
    BY <1>1, <1>2, <1>3, <1>4, <1>5, <1>6
       DEF Events, Event, Begin, CommitDetected

\* What the effects of a transition are, as a set.
LEMMA EffectSets ==
    ASSUME NEW tr
    PROVE  /\ tr.effects = <<>> => EffectSet(tr) = {}
           /\ tr.effects = <<"commit">> => EffectSet(tr) = {"commit"}
           /\ tr.effects = <<"reconcile", "commit">>
                => EffectSet(tr) = {"reconcile", "commit"}
           /\ tr.effects = <<"publish", "commit">>
                => EffectSet(tr) = {"publish", "commit"}
           /\ tr.effects = <<"inject", "record_prompt">>
                => EffectSet(tr) = {"inject", "record_prompt"}
  BY DEF EffectSet, Range

\* A detected commit runs its own effect and then those of the decision.
LEMMA DetectedEffects ==
    ASSUME NEW s \in CompletionStates, NEW w \in Worlds
    PROVE  LET tr == DetectCommit(s, w)
               routed == AfterDirty(s, w)
           IN  /\ EffectSet(tr) = {"record_commit"} \cup EffectSet(routed)
               /\ tr.state.phase = routed.state.phase
               /\ tr.state.cleanup = routed.state.cleanup
  <1> DEFINE routed == AfterDirty(s, w)
  <1>1. routed.state \in CompletionStates /\ routed.effects \in Seq(Effects)
    BY AfterDirtyTyped DEF TransitionType
  <1>2. DetectCommit(s, w).effects = <<"record_commit">> \o routed.effects
    BY DEF DetectCommit, Transition
  <1>3. DetectCommit(s, w).state = [routed.state EXCEPT !.path = w.path]
    BY DEF DetectCommit, Transition
  <1>4. \A q \in Seq(Effects) : Range(<<"record_commit">> \o q) = {"record_commit"} \cup Range(q)
    <2> SUFFICES ASSUME NEW q \in Seq(Effects)
                 PROVE  Range(<<"record_commit">> \o q) = {"record_commit"} \cup Range(q)
      OBVIOUS
    <2> DEFINE r == <<"record_commit">> \o q
    <2>1. r \in Seq(Effects) /\ Len(r) = Len(q) + 1 /\ Len(q) \in Nat
      BY DEF Effects
    <2>2. r[1] = "record_commit" /\ \A i \in 1..Len(q) : r[i + 1] = q[i]
      OBVIOUS
    <2>3. DOMAIN r = 1..(Len(q) + 1) /\ DOMAIN q = 1..Len(q)
      BY <2>1
    <2>4. \A i \in 1..(Len(q) + 1) : i = 1 \/ (i - 1 \in 1..Len(q) /\ r[i] = q[i - 1])
      BY <2>1, <2>2
    <2>5. Range(r) \subseteq {"record_commit"} \cup Range(q)
      BY <2>2, <2>3, <2>4 DEF Range
    <2>6. {"record_commit"} \cup Range(q) \subseteq Range(r)
      <3>1. "record_commit" \in Range(r)
        BY <2>1, <2>2, <2>3 DEF Range
      <3>2. ASSUME NEW i \in 1..Len(q)
            PROVE  q[i] \in Range(r)
        <4>1. i + 1 \in DOMAIN r /\ r[i + 1] = q[i]
          BY <2>1, <2>2, <2>3
        <4> QED
          BY <4>1 DEF Range
      <3> QED
        BY <2>3, <3>1, <3>2 DEF Range
    <2> QED
      BY <2>5, <2>6
  <1> QED
    BY <1>1, <1>2, <1>3, <1>4 DEF EffectSet, CompletionStates

\* Folding the input of a call into the persisted flow keeps it well-formed
\* and in its phase, and takes over a cleanup answer.
LEMMA FoldTyped ==
    ASSUME NEW s \in CompletionStates, NEW in \in Inputs
    PROVE  /\ FoldInput(s, in) \in CompletionStates
           /\ FoldInput(s, in).phase = s.phase
           /\ FoldInput(s, in).cleanup = "yes" => s.cleanup = "yes" \/ in.cleanup = "yes"
  BY DEF FoldInput, CompletionStates, Inputs

\* The event a call stands for is an event, not a detected commit, and a
\* cleanup event carries the cleanup answer of the call.
LEMMA DerivedTyped ==
    ASSUME NEW s \in CompletionStates, NEW in \in Inputs
    PROVE  /\ DeriveEvent(s, in) \in Events
           /\ DeriveEvent(s, in).kind # "commit_detected"
           /\ \A c : DeriveEvent(s, in) = Event("cleanup", c) => in.cleanup = c
  BY DEF DeriveEvent, Events, Event, Begin, CommitDetected, CompletionStates, Inputs

\* The answers about uncommitted changes are the same in both states.
SameDirty(t, s) == t.ignoreDirty = s.ignoreDirty /\ t.dirty = s.dirty

\* No branch after the handling of uncommitted changes touches the answers
\* about them.
LEMMA AfterDirtyKeeps ==
    ASSUME NEW s \in CompletionStates, NEW w \in Worlds
    PROVE  SameDirty(AfterDirty(s, w).state, s)
  <1> DEFINE next == [s EXCEPT !.closeout = AppliedCloseout(s, w)]
             route == RouteCloseout(w, next.closeout)
             Good(tr) == SameDirty(tr.state, s)
  <1>1. next \in CompletionStates /\ SameDirty(next, s)
    BY AppliedTyped DEF CompletionStates, SameDirty
  <1>2. route \in {"complete", "reconcile", "prompt", "pr"}
    BY <1>1, RoutesTyped DEF CompletionStates
  <1> HIDE DEF next
  <1>3. /\ Good(Complete(next)) /\ Good(OpenPullRequest(next))
        /\ Good(RebaseThenComplete(next))
        /\ Good(Transition([next EXCEPT !.phase = "blocked"], <<>>))
    BY <1>1 DEF Complete, OpenPullRequest, RebaseThenComplete, Transition,
                CompletionStates, SameDirty
  <1>4. ASSUME NEW phase
        PROVE  Good(Prompt(next, w, phase))
    BY <1>1 DEF Prompt, Transition, CompletionStates, SameDirty
  <1>5. Good(Reconcile(next, w))
    <2>1. next.cleanup \in {"none", "yes", "no"} /\ w.external \in BOOLEAN
      BY <1>1 DEF CompletionStates, Worlds
    <2> HIDE DEF Good
    <2> QED
      BY <1>3, <1>4, <2>1 DEF Reconcile
  <1>6. AfterDirty(s, w) = CASE route = "reconcile" -> Reconcile(next, w)
                             [] route = "complete" -> Complete(next)
                             [] route = "prompt" -> Prompt(next, w, "prompting_closeout")
                             [] route = "pr" -> OpenPullRequest(next)
    BY DEF AfterDirty, next
  <1>7. Good(AfterDirty(s, w))
    <2> HIDE DEF Good, route
    <2> QED
      BY <1>2, <1>3, <1>4, <1>5, <1>6
  <1> QED
    BY <1>7

\* The consent to ignore uncommitted changes is never made up: a flow ignores
\* them because it did so before, and has the answer to leave them because it
\* had it before or this event is that answer.
LEMMA AdvanceKeepsDirty ==
    ASSUME NEW s \in CompletionStates, NEW w \in Worlds, NEW e \in Events,
           Legal(s.phase, e)
    PROVE  LET tr == Advance(s, w, e)
           IN  /\ tr.state.ignoreDirty = s.ignoreDirty
               /\ tr.state.dirty = "skip" => s.dirty = "skip" \/ e = Event("dirty", "skip")
  <1> DEFINE Good(tr) == /\ tr.state.ignoreDirty = s.ignoreDirty
                         /\ tr.state.dirty = "skip"
                              => s.dirty = "skip" \/ e = Event("dirty", "skip")
             skipped == [s EXCEPT !.phase = "reconciling", !.dirty = "skip",
                                  !.path = w.path]
             agreed == [s EXCEPT !.phase = "reconciling"]
             closing == [s EXCEPT !.closeout = e.choice]
  <1> SUFFICES Good(Advance(s, w, e))
    OBVIOUS
  <1>1. Good(AfterDirty(s, w))
    BY AfterDirtyKeeps DEF SameDirty
  <1>2. Good(Complete(s)) /\ Good(Cancelled(s)) /\ Good(Prompt(s, w, "prompting_dirty"))
    BY DEF Complete, Cancelled, Prompt, Transition, CompletionStates
  <1>3. CASE e.kind = "begin"
    <2> HIDE DEF Good
    <2> QED
      BY <1>1, <1>2, <1>3 DEF Advance, BeginDetection
  <1>4. CASE e.kind = "dirty"
    <2>1. e.choice \in {"auto_commit", "skip", "cancel"} /\ e = Event("dirty", e.choice)
      BY <1>4 DEF Events, Event, Begin, CommitDetected
    <2>2. Good(AutoCommitting(s, w))
      BY DEF AutoCommitting, Transition, CompletionStates
    <2>3. e.choice = "skip" => Good(AfterDirty(skipped, w))
      <3>1. skipped \in CompletionStates /\ skipped.ignoreDirty = s.ignoreDirty
        BY DEF CompletionStates, Worlds, Phases, Paths
      <3> HIDE DEF skipped
      <3> QED
        BY <2>1, <3>1, AfterDirtyKeeps DEF SameDirty
    <2> HIDE DEF Good
    <2> QED
      BY <1>2, <1>4, <2>1, <2>2, <2>3 DEF Advance, DecideDirty
  <1>5. CASE e.kind = "continue"
    <2>1. agreed \in CompletionStates /\ SameDirty(agreed, s)
      BY DEF CompletionStates, Phases, SameDirty
    <2>2. Good(AfterDirty(agreed, w))
      <3> HIDE DEF agreed
      <3> QED
        BY <2>1, AfterDirtyKeeps DEF SameDirty
    <2> HIDE DEF Good
    <2> QED
      BY <1>2, <1>5, <2>2 DEF Advance, ConfirmContinue
  <1>6. CASE e.kind = "cleanup"
    <2> DEFINE next == [s EXCEPT !.cleanup = e.choice]
    <2>1. next \in CompletionStates /\ SameDirty(next, s)
      <3>1. e.choice \in {"yes", "no"}
        BY <1>6 DEF Events, Event, Begin, CommitDetected
      <3> QED
        BY <3>1 DEF CompletionStates, SameDirty
    <2> HIDE DEF next
    <2>2. Good(Complete(next)) /\ Good(RebaseThenComplete(next))
      BY <2>1 DEF Complete, RebaseThenComplete, Transition, CompletionStates, SameDirty
    <2> HIDE DEF Good
    <2> QED
      BY <1>6, <2>2 DEF Advance, DecideCleanup, next
  <1>7. CASE e.kind = "closeout"
    <2>1. e.choice \in {"merge", "pr"}
      BY <1>7 DEF Events, Event, Begin, CommitDetected
    <2>2. closing \in CompletionStates /\ SameDirty(closing, s)
      BY <2>1 DEF CompletionStates, SameDirty
    <2>3. Good(AfterDirty(closing, w))
      <3> HIDE DEF closing
      <3> QED
        BY <2>2, AfterDirtyKeeps DEF SameDirty
    <2> HIDE DEF Good
    <2> QED
      BY <1>7, <2>3 DEF Advance
  <1>8. CASE e.kind = "commit_detected"
    <2> DEFINE routed == AfterDirty(s, w)
    <2>1. routed.state \in CompletionStates /\ SameDirty(routed.state, s)
      BY AfterDirtyTyped, AfterDirtyKeeps DEF TransitionType
    <2>2. Advance(s, w, e).state = [routed.state EXCEPT !.path = w.path]
      BY <1>8 DEF Advance, DetectCommit, Transition
    <2> HIDE DEF routed
    <2> QED
      BY <2>1, <2>2 DEF SameDirty, CompletionStates
  <1>9. e.kind \in {"begin", "dirty", "continue", "cleanup", "closeout", "commit_detected"}
    BY DEF Events, Event, Begin, CommitDetected
  <1> HIDE DEF Good
  <1> QED
    BY <1>3, <1>4, <1>5, <1>6, <1>7, <1>8, <1>9

\* What folding the input of a call keeps of the answers given before.
LEMMA FoldKeeps ==
    ASSUME NEW s \in CompletionStates, NEW in \in Inputs
    PROVE  LET t == FoldInput(s, in)
           IN  /\ t.dirty = s.dirty
               /\ t.ignoreDirty = (s.ignoreDirty \/ in.ignoreDirty)
               /\ t.cleanup = "no" => s.cleanup = "no" \/ in.cleanup = "no"
  BY DEF FoldInput, CompletionStates, Inputs

\* A dirty event carries the dirty answer of the call.
LEMMA DerivedDirty ==
    ASSUME NEW s \in CompletionStates, NEW in \in Inputs
    PROVE  \A c : DeriveEvent(s, in) = Event("dirty", c) => in.dirty = c
  BY DEF DeriveEvent, Event, Begin, CompletionStates, Inputs

(***************************************************************************)
(* Decisions about a worktree of RedWhisk's own, or about no worktree.     *)
(***************************************************************************)

\* The machine does not ask about the removal of the worktree, and while the
\* worktree is there it does not go straight to the completion.
Own(tr, w) ==
    /\ tr.state.phase # "confirming_cleanup"
    /\ w.mismatch /\ ~w.missing => Route(tr) # "commit"

\* What each way to end a decision means for Own.
LEMMA OwnExits ==
    ASSUME NEW s \in CompletionStates, NEW w \in Worlds
    PROVE  /\ Own(RebaseThenComplete(s), w)
           /\ Own(OpenPullRequest(s), w)
           /\ Own(Cancelled(s), w)
           /\ Own(AutoCommitting(s, w), w)
           /\ Own(Transition([s EXCEPT !.phase = "blocked"], <<>>), w)
           /\ \A phase \in Waits \ {"confirming_cleanup"} : Own(Prompt(s, w, phase), w)
           /\ ~w.mismatch \/ w.missing => Own(Complete(s), w)
  <1>1. Own(RebaseThenComplete(s), w)
    <2>1. /\ RebaseThenComplete(s).effects = <<"reconcile", "commit">>
          /\ RebaseThenComplete(s).state.phase = "completed"
      BY DEF RebaseThenComplete, Transition, CompletionStates
    <2> QED
      BY <2>1, EffectSets DEF Own, Route
  <1>2. Own(OpenPullRequest(s), w)
    <2>1. /\ OpenPullRequest(s).effects = <<"publish", "commit">>
          /\ OpenPullRequest(s).state.phase = "completed"
      BY DEF OpenPullRequest, Transition, CompletionStates
    <2> QED
      BY <2>1, EffectSets DEF Own, Route
  <1>3. Own(Cancelled(s), w)
    <2>1. Cancelled(s).effects = <<>> /\ Cancelled(s).state.phase = "cancelled"
      BY DEF Cancelled, Transition, CompletionStates
    <2> QED
      BY <2>1, EffectSets DEF Own, Route
  <1>4. Own(AutoCommitting(s, w), w)
    <2>1. /\ AutoCommitting(s, w).effects = <<"inject", "record_prompt">>
          /\ AutoCommitting(s, w).state.phase = "auto_committing"
      BY DEF AutoCommitting, Transition, CompletionStates
    <2> QED
      BY <2>1, EffectSets DEF Own, Route
  <1>5. Own(Transition([s EXCEPT !.phase = "blocked"], <<>>), w)
    <2> DEFINE tr == Transition([s EXCEPT !.phase = "blocked"], <<>>)
    <2>1. tr.effects = <<>> /\ tr.state.phase = "blocked"
      BY DEF Transition, CompletionStates
    <2> HIDE DEF tr
    <2>2. Own(tr, w)
      BY <2>1, EffectSets DEF Own, Route
    <2> QED
      BY <2>2 DEF tr
  <1>6. ASSUME NEW phase \in Waits \ {"confirming_cleanup"}
        PROVE  Own(Prompt(s, w, phase), w)
    <2>1. Prompt(s, w, phase).effects = <<>> /\ Prompt(s, w, phase).state.phase = phase
      BY DEF Prompt, Transition, CompletionStates
    <2> QED
      BY <2>1, EffectSets DEF Own, Route
  <1>7. ~w.mismatch \/ w.missing => Own(Complete(s), w)
    <2>1. Complete(s).state.phase = "completed"
      BY DEF Complete, Transition, CompletionStates
    <2> QED
      BY <2>1 DEF Own
  <1> QED
    BY <1>1, <1>2, <1>3, <1>4, <1>5, <1>6, <1>7

\* Whatever is decided once uncommitted changes are dealt with.
LEMMA OwnAfterDirty ==
    ASSUME NEW s \in CompletionStates, NEW w \in Worlds,
           ~w.external \/ ~w.isolated, w.mismatch => w.isolated
    PROVE  Own(AfterDirty(s, w), w)
  <1> DEFINE next == [s EXCEPT !.closeout = AppliedCloseout(s, w)]
             route == RouteCloseout(w, next.closeout)
  <1>1. next \in CompletionStates /\ next.closeout \in {"none", "merge", "pr"}
    BY AppliedTyped DEF CompletionStates
  <1>2. /\ route \in {"complete", "reconcile", "prompt", "pr"}
        /\ route = "complete" => ~w.mismatch
        /\ route = "reconcile" => w.isolated
    <2>1. w.forge \in BOOLEAN /\ w.mismatch \in BOOLEAN /\ w.isolated \in BOOLEAN
      BY DEF Worlds
    <2> HIDE DEF next
    <2> QED
      BY <1>1, <2>1, RoutesTyped DEF RouteCloseout
  <1> HIDE DEF next
  <1>3. w.isolated => Own(Reconcile(next, w), w)
    <2> HIDE DEF Own
    <2>1. CASE w.missing /\ w.unmerged
      BY <1>1, <2>1, OwnExits DEF Reconcile
    <2>2. CASE ~(w.missing /\ w.unmerged) /\ ~w.missing /\ w.mismatch
      BY <1>1, <2>2, OwnExits DEF Reconcile
    <2>3. CASE ~(w.missing /\ w.unmerged) /\ ~(~w.missing /\ w.mismatch)
      BY <1>1, <2>3, OwnExits DEF Reconcile
    <2> QED
      BY <2>1, <2>2, <2>3
  <1>4. "prompting_closeout" \in Waits \ {"confirming_cleanup"}
    BY DEF Waits
  <1>5. AfterDirty(s, w) = CASE route = "reconcile" -> Reconcile(next, w)
                             [] route = "complete" -> Complete(next)
                             [] route = "prompt" -> Prompt(next, w, "prompting_closeout")
                             [] route = "pr" -> OpenPullRequest(next)
    BY DEF AfterDirty, next
  <1>6. Own(Prompt(next, w, "prompting_closeout"), w) /\ Own(OpenPullRequest(next), w)
          /\ (~w.mismatch => Own(Complete(next), w))
    BY <1>1, <1>4, OwnExits
  <1> QED
    <2> HIDE DEF route
    <2> QED
      BY <1>2, <1>3, <1>5, <1>6

\* Whatever is decided on any event.
LEMMA OwnDecision ==
    ASSUME NEW s \in CompletionStates, NEW w \in Worlds, NEW e \in Events,
           Legal(s.phase, e), s.phase # "confirming_cleanup",
           ~w.external \/ ~w.isolated, w.mismatch => w.isolated
    PROVE  Own(Advance(s, w, e), w)
  <1>1. CASE e.kind = "begin"
    <2>1. "prompting_dirty" \in Waits \ {"confirming_cleanup"}
      BY DEF Waits
    <2>2. Own(BeginDetection(s, w), w)
      BY <2>1, OwnExits, OwnAfterDirty DEF BeginDetection
    <2> QED
      BY <1>1, <2>2 DEF Advance
  <1>2. CASE e.kind = "dirty"
    <2>1. e.choice \in {"auto_commit", "skip", "cancel"}
      BY <1>2 DEF Events, Event, Begin, CommitDetected
    <2>2. [s EXCEPT !.phase = "reconciling", !.dirty = "skip", !.path = w.path]
            \in CompletionStates
      BY DEF CompletionStates, Worlds, Phases, Paths
    <2>3. Own(DecideDirty(s, w, e.choice), w)
      BY <2>1, <2>2, OwnExits, OwnAfterDirty DEF DecideDirty
    <2> QED
      BY <1>2, <2>3 DEF Advance
  <1>3. CASE e.kind = "commit_detected"
    <2> DEFINE tr == DetectCommit(s, w)
               routed == AfterDirty(s, w)
    <2>1. Own(routed, w)
      BY OwnAfterDirty
    <2>2. /\ EffectSet(tr) = {"record_commit"} \cup EffectSet(routed)
          /\ tr.state.phase = routed.state.phase
      BY DetectedEffects
    <2>3. Route(routed) # "commit" => Route(tr) # "commit"
      <3> HIDE DEF tr, routed
      <3> QED
        BY <2>2 DEF Route
    <2>4. Own(tr, w)
      BY <2>1, <2>2, <2>3 DEF Own
    <2> QED
      BY <1>3, <2>4 DEF Advance
  <1>4. CASE e.kind = "continue"
    <2>1. [s EXCEPT !.phase = "reconciling"] \in CompletionStates
      BY DEF CompletionStates, Phases
    <2>2. Own(ConfirmContinue(s, w, e.choice), w)
      BY <2>1, OwnExits, OwnAfterDirty DEF ConfirmContinue
    <2> QED
      BY <1>4, <2>2 DEF Advance
  <1>5. CASE e.kind = "cleanup"
    BY <1>5 DEF Legal, Event, Begin
  <1>6. CASE e.kind = "closeout"
    <2>1. e.choice \in {"merge", "pr"}
      BY <1>6 DEF Events, Event, Begin, CommitDetected
    <2>2. [s EXCEPT !.closeout = e.choice] \in CompletionStates
      BY <2>1 DEF CompletionStates
    <2> QED
      BY <1>6, <2>2, OwnAfterDirty DEF Advance
  <1> QED
    BY <1>1, <1>2, <1>3, <1>4, <1>5, <1>6 DEF Events, Event, Begin, CommitDetected

\* The facts of this module make a world with a worktree of RedWhisk's own or
\* with none.
LEMMA FlowWorldTyped ==
    ASSUME FlowAssumption, TypeOK, NEW c \in Cmds
    PROVE  /\ FlowWorld(c) \in Worlds
           /\ ~FlowWorld(c).external \/ ~FlowWorld(c).isolated
           /\ FlowWorld(c).mismatch => FlowWorld(c).isolated
           /\ Project.isolated => /\ FlowWorld(c).mismatch = repo.tree
                                  /\ FlowWorld(c).missing = ~repo.tree
  <1>1. cmd[c].issue \in {"backlog", "running", "review", "completed"}
    BY DEF TypeOK, CmdType, IssueStatuses
  <1>2. repo.tree \in BOOLEAN /\ repo.branch \in BOOLEAN /\ repo.targetDirty \in BOOLEAN
    BY DEF TypeOK
  <1>3. /\ Project.forge \in BOOLEAN /\ Project.confirm \in BOOLEAN
        /\ Project.saved \in {"merge", "pr"} /\ Project.isolated \in BOOLEAN
    BY DEF FlowAssumption
  <1>4. FlowWorld(c).clean \in BOOLEAN
    BY <1>2 DEF FlowWorld
  <1> QED
    BY <1>1, <1>2, <1>3, <1>4 DEF FlowWorld, Worlds

\* The route is one of six steps.
LEMMA RouteTyped ==
    ASSUME NEW tr
    PROVE  Route(tr) \in {"persist", "commit", "publish", "inject", "discard", "rebase"}
  BY DEF Route

(***************************************************************************)
(* The invariant.                                                          *)
(***************************************************************************)

\* What is known of one command: it never waits for a cleanup answer, detect
\* decides in the phase it loads, and with a worktree it never goes from the
\* record of a commit straight to the completion.
CmdShape(r) ==
    /\ r.state.phase # "confirming_cleanup"
    /\ r.pc = "decide" /\ r.kind = "detect" => r.state.phase = "auto_committing"
    /\ r.pc = "record_commit" /\ Project.isolated => r.route # "commit"

Shape ==
    /\ flow.phase # "confirming_cleanup"
    /\ \A c \in Cmds : CmdShape(cmd[c])

IInv ==
    /\ TypeOK
    /\ Shape
    /\ WorkInv
    /\ CommittedWorkSafe

\* Command c gets to one of pcs, the other commands stay where they are.
Moved(c, pcs) ==
    /\ cmd' \in [Cmds -> CmdType]
    /\ \A d \in Cmds : d # c => cmd'[d] = cmd[d]
    /\ CmdShape(cmd'[c])
    /\ cmd'[c].pc \in pcs

(***************************************************************************)
(* The ways in which the steps move a command.                             *)
(***************************************************************************)
LEMMA IdleTyped == Idle \in CmdType /\ CmdShape(Idle) /\ Idle.pc = "idle"
  <1>1. PlainInput \in Inputs
    BY DEF PlainInput, Inputs
  <1>2. Detecting \in CompletionStates /\ Detecting.phase = "detecting"
    BY DEF Detecting, CompletionStates, Phases, Paths
  <1> QED
    BY <1>1, <1>2, FlowAssumption
       DEF Idle, CmdType, CmdShape, Pcs, Kinds, IssueStatuses, SessionStatuses

LEMMA Goes ==
    ASSUME TypeOK, Shape, NEW c \in Cmds, NEW pc \in Pcs \ {"decide", "record_commit"},
           Goto(c, pc)
    PROVE  Moved(c, {pc})
  <1> DEFINE r == [cmd[c] EXCEPT !.pc = pc]
  <1>1. cmd[c] \in CmdType /\ CmdShape(cmd[c])
    BY DEF TypeOK, Shape
  <1>2. r \in CmdType /\ CmdShape(r) /\ r.pc = pc
    BY <1>1 DEF CmdType, CmdShape
  <1>3. cmd' = [cmd EXCEPT ![c] = r]
    BY DEF Goto
  <1> HIDE DEF r
  <1> QED
    BY <1>2, <1>3 DEF TypeOK, Moved

LEMMA Returns ==
    ASSUME TypeOK, NEW c \in Cmds, Return(c)
    PROVE  Moved(c, {"idle"})
  BY IdleTyped DEF TypeOK, Return, Moved

LEMMA Blocks ==
    ASSUME TypeOK, NEW c \in Cmds, Block(c)
    PROVE  Moved(c, {"persist"})
  <1> DEFINE state == [cmd[c].state EXCEPT !.phase = "blocked"]
             r == [cmd[c] EXCEPT !.pc = "persist", !.state = state]
  <1>1. cmd[c] \in CmdType /\ cmd[c].state \in CompletionStates
    BY DEF TypeOK, CmdType
  <1>2. state \in CompletionStates /\ state.phase = "blocked"
    BY <1>1 DEF CompletionStates, Phases
  <1>3. cmd' = [cmd EXCEPT ![c] = r]
    BY DEF Block
  <1> HIDE DEF state
  <1>4. r \in CmdType /\ CmdShape(r) /\ r.pc = "persist"
    BY <1>1, <1>2 DEF CmdType, Pcs, CmdShape
  <1> HIDE DEF r
  <1> QED
    BY <1>3, <1>4 DEF TypeOK, Moved

LEMMA GivesUp ==
    ASSUME TypeOK, NEW c \in Cmds, GiveUp(c)
    PROVE  Moved(c, {"idle", "persist"})
  BY Returns, Blocks DEF GiveUp, Moved

LEMMA Enters ==
    ASSUME TypeOK, NEW c \in Cmds, NEW kind \in Kinds, NEW in \in Inputs,
           NEW pc \in {"load", "update", "remove_worktree"}, Enter(c, kind, in, pc)
    PROVE  Moved(c, {pc})
  <1> DEFINE r == [Idle EXCEPT !.pc = pc, !.kind = kind, !.input = in,
                               !.issue = issue, !.session = session]
  <1>1. r \in CmdType /\ CmdShape(r) /\ r.pc = pc
    BY IdleTyped DEF TypeOK, CmdType, Pcs, CmdShape
  <1>2. cmd' = [cmd EXCEPT ![c] = r]
    BY DEF Enter
  <1> HIDE DEF r
  <1> QED
    BY <1>1, <1>2 DEF TypeOK, Moved

LEMMA Decides ==
    ASSUME TypeOK, NEW c \in Cmds, NEW tr \in TransitionType,
           tr.state.phase # "confirming_cleanup", Decided(c, tr, Route(tr))
    PROVE  Moved(c, {Route(tr)})
  <1> DEFINE route == Route(tr)
             r == [cmd[c] EXCEPT !.pc = route, !.state = tr.state,
                                 !.route = route, !.head = work.branch]
  <1>1. tr.state \in CompletionStates /\ cmd[c] \in CmdType /\ work.branch \in SUBSET Edits
    BY DEF TransitionType, TypeOK, WorkType
  <1>2. route \in {"persist", "commit", "publish", "inject", "discard", "rebase"}
    BY RouteTyped
  <1>3. cmd' = [cmd EXCEPT ![c] = r]
    BY DEF Decided
  <1> HIDE DEF route
  <1>4. r \in CmdType /\ CmdShape(r) /\ r.pc = route
    BY <1>1, <1>2 DEF CmdType, Pcs, CmdShape
  <1> HIDE DEF r
  <1>5. Moved(c, {route})
    BY <1>3, <1>4 DEF TypeOK, Moved
  <1> QED
    BY <1>5 DEF route

(***************************************************************************)
(* What a step has to show.                                                *)
(***************************************************************************)
RemovingPcs == {"remove_worktree", "delete_branch", "commit"}

\* A step of command c keeps the invariant if it keeps the types, and
\* establishes Safe where it begins to be needed.
LEMMA StepInv ==
    ASSUME IInv, NEW c \in Cmds, NEW pcs, Moved(c, pcs), TypeOK',
           flow'.phase # "confirming_cleanup", CommittedWorkSafe',
           Home', Safe => Safe', pcs \cap RemovingPcs = {} \/ Safe',
           repo'.tree = repo.tree \/ Safe',
           issue' = "completed" => issue = "completed" \/ Safe'
    PROVE  IInv'
  <1>1. Shape'
    BY DEF IInv, Shape, Moved
  <1>2. WorkInv'
    <2>1. issue' = "completed" => Safe'
      BY DEF IInv, WorkInv
    <2>2. ~repo'.tree => Safe'
      BY DEF IInv, WorkInv
    <2>3. ASSUME NEW d \in Cmds, Removing(d)'
          PROVE  Safe'
      <3>1. CASE d = c
        BY <2>3, <3>1 DEF Moved, Removing, RemovingPcs
      <3>2. CASE d # c
        <4>1. Removing(d)
          BY <2>3, <3>2 DEF Moved, Removing
        <4> QED
          BY <4>1 DEF IInv, WorkInv
      <3> QED
        BY <3>1, <3>2
    <2> QED
      BY <2>1, <2>2, <2>3 DEF WorkInv
  <1> QED
    BY <1>1, <1>2 DEF IInv

\* Most steps leave the work alone.
LEMMA QuietInv ==
    ASSUME IInv, NEW c \in Cmds, NEW pcs, Moved(c, pcs), TypeOK',
           flow'.phase # "confirming_cleanup", UNCHANGED <<work, repo>>,
           past'.lateCommits = past.lateCommits, past'.waived = past.waived,
           pcs \cap RemovingPcs = {} \/ Safe,
           issue' = "completed" => issue = "completed" \/ Safe
    PROVE  IInv'
  <1>1. Safe' = Safe /\ Home'
    BY DEF Safe, Home, IInv, WorkInv
  <1>2. CommittedWorkSafe'
    BY DEF IInv, CommittedWorkSafe
  <1> QED
    BY <1>1, <1>2, StepInv

\* A disturbance is counted.
LEMMA Disturbs ==
    ASSUME TypeOK, Disturb
    PROVE  past' \in PastType /\ past'.lateCommits = past.lateCommits /\ past'.waived = past.waived
  BY FlowAssumption DEF TypeOK, PastType, Disturb

\* Steps that change nothing but the place of the command and the count.
LEMMA PlaceInv ==
    ASSUME IInv, NEW c \in Cmds, NEW pcs, Moved(c, pcs), pcs \cap RemovingPcs = {} \/ Safe,
           Disturb \/ UNCHANGED past,
           UNCHANGED <<issue, session, live, flow, prompts, work, repo>>
    PROVE  IInv'
  <1>1. past' \in PastType /\ past'.lateCommits = past.lateCommits /\ past'.waived = past.waived
    BY Disturbs DEF IInv, TypeOK
  <1>2. TypeOK'
    BY <1>1 DEF IInv, TypeOK, Moved
  <1>3. flow'.phase # "confirming_cleanup"
    BY DEF IInv, Shape
  <1> QED
    BY <1>1, <1>2, <1>3, QuietInv

(***************************************************************************)
(* The steps of the commands.                                              *)
(***************************************************************************)

\* Commands begin; a deletion of the worktree gives its work up.
LEMMA CallsInv ==
    ASSUME IInv, NEW c \in Cmds, Calls(c)
    PROVE  IInv'
  <1> USE DEF IInv
  <1>1. PlainInput \in Inputs
    BY DEF PlainInput, Inputs
  <1>2. ASSUME NEW in \in Requests, Drive(c, in)
        PROVE  IInv'
    <2>1. in \in Inputs /\ "drive" \in Kinds
      BY FlowAssumption DEF Kinds
    <2>2. Moved(c, {"load"})
      BY <1>2, <2>1, Enters DEF Drive
    <2>3. past' \in PastType /\ past'.lateCommits = past.lateCommits /\ past'.waived = past.waived
      <3> DEFINE over == /\ flow.phase \in {"prompting_dirty", "prompting_closeout"}
                         /\ in = PlainInput
                 said == past.said \/ Skips(in)
                 faults == IF over THEN past.faults + 1 ELSE past.faults
      <3>1. /\ over => past.faults < MaxFaults
            /\ past' = [past EXCEPT !.said = said, !.faults = faults]
        BY <1>2 DEF Drive
      <3>2. past \in PastType /\ work.dirty \in SUBSET Edits
        BY DEF TypeOK, WorkType
      <3>3. said \in BOOLEAN
        OBVIOUS
      <3>4. faults \in 0..MaxFaults
        <4> HIDE DEF over
        <4> QED
          BY <3>1, <3>2, FlowAssumption DEF PastType
      <3> HIDE DEF over, said, faults
      <3> QED
        BY <3>1, <3>2, <3>3, <3>4 DEF PastType
    <2>4. UNCHANGED <<issue, session, live, flow, prompts, work, repo>>
      BY <1>2 DEF Drive
    <2>5. TypeOK'
      BY <2>2, <2>3, <2>4 DEF TypeOK, Moved
    <2> QED
      BY <2>2, <2>3, <2>4, <2>5, QuietInv DEF RemovingPcs, Shape
  <1>3. CASE Detect(c)
    <2>1. Moved(c, {"load"})
      BY <1>1, <1>3, Enters DEF Detect, Kinds
    <2> QED
      BY <1>3, <2>1, PlaceInv DEF Detect, RemovingPcs
  <1>4. ASSUME NEW kind \in {"rollback", "to_running", "to_review"}, Advances(c, kind)
        PROVE  IInv'
    <2>1. Moved(c, {"update"})
      BY <1>1, <1>4, Enters DEF Advances, Kinds
    <2> QED
      BY <1>4, <2>1, PlaceInv DEF Advances, RemovingPcs
  <1>5. CASE DeleteWorktree(c)
    <2>1. Moved(c, {"remove_worktree"})
      BY <1>1, <1>5, Enters DEF DeleteWorktree, Kinds
    <2>2. /\ past' = [past EXCEPT !.waived = @ \cup work.dirty \cup work.branch]
          /\ UNCHANGED <<issue, session, live, flow, prompts, work, repo>>
      BY <1>5 DEF DeleteWorktree
    <2>3. /\ past' \in PastType /\ past'.lateCommits = past.lateCommits
          /\ past'.waived = past.waived \cup work.dirty \cup work.branch
      BY <2>2 DEF TypeOK, PastType, WorkType
    <2>4. TypeOK'
      BY <2>1, <2>2, <2>3 DEF TypeOK, Moved
    <2>5. Safe' /\ CommittedWorkSafe' /\ Home'
      BY <2>2, <2>3 DEF Safe, CommittedWorkSafe, Home, WorkInv
    <2> QED
      BY <2>1, <2>2, <2>4, <2>5, StepInv DEF Shape
  <1> QED
    BY <1>2, <1>3, <1>4, <1>5 DEF Calls

\* On the current branch nothing has to be merged.
LEMMA AtHome ==
    ASSUME IInv, ~Project.isolated
    PROVE  Safe
  BY DEF IInv, WorkInv, Home, Safe

\* Loading and deciding.  A decision goes straight to the completion only when
\* the worktree is gone.
LEMMA LoadInv ==
    ASSUME IInv, NEW c \in Cmds, Load(c)
    PROVE  IInv'
  <1> USE DEF IInv
  <1>1. Moved(c, {"idle", "decide"})
    <2>1. CASE cmd[c].kind = "detect" /\ flow.phase # "auto_committing"
      BY <2>1, Returns DEF Load, Moved
    <2>2. CASE ~(cmd[c].kind = "detect" /\ flow.phase # "auto_committing")
      <3> DEFINE state == FoldInput(flow, cmd[c].input)
                 r == [cmd[c] EXCEPT !.pc = "decide", !.state = state]
      <3>1. cmd[c] \in CmdType /\ cmd[c].input \in Inputs /\ flow \in CompletionStates
        BY DEF TypeOK, CmdType
      <3>2. state \in CompletionStates /\ state.phase = flow.phase
        BY <3>1, FoldTyped
      <3>3. cmd' = [cmd EXCEPT ![c] = r]
        BY <2>2 DEF Load
      <3> HIDE DEF state
      <3>4. r \in CmdType /\ CmdShape(r) /\ r.pc = "decide"
        BY <2>2, <3>1, <3>2 DEF CmdType, Pcs, CmdShape, Shape
      <3> HIDE DEF r
      <3> QED
        BY <3>3, <3>4 DEF TypeOK, Moved
    <2> QED
      BY <2>1, <2>2
  <1> QED
    BY <1>1, PlaceInv DEF Load, RemovingPcs

LEMMA DecideDriveInv ==
    ASSUME IInv, NEW c \in Cmds, DecideDrive(c)
    PROVE  IInv'
  <1> USE DEF IInv
  <1> DEFINE s == cmd[c].state
             in == cmd[c].input
             w == FlowWorld(c)
             e == DeriveEvent(s, in)
             tr == Advance(s, w, e)
  <1>1. /\ s \in CompletionStates /\ s.phase # "confirming_cleanup"
        /\ in \in Inputs /\ e \in Events
    BY DerivedTyped DEF TypeOK, CmdType, Shape, CmdShape
  <1>2. /\ w \in Worlds /\ (~w.external \/ ~w.isolated) /\ (w.mismatch => w.isolated)
        /\ Project.isolated => w.mismatch = repo.tree /\ w.missing = ~repo.tree
    BY FlowWorldTyped, FlowAssumption
  <1>3. IF Legal(s.phase, e) THEN Decided(c, tr, Route(tr)) ELSE Return(c)
    BY DEF DecideDrive
  <1>4. UNCHANGED <<issue, session, live, flow, prompts, work, repo, past>>
    BY DEF DecideDrive
  <1> HIDE DEF s, in, w, e
  <1>5. CASE ~Legal(s.phase, e)
    <2>1. Moved(c, {"idle"})
      BY <1>3, <1>5, Returns
    <2> QED
      BY <2>1, <1>4, PlaceInv DEF RemovingPcs
  <1>6. CASE Legal(s.phase, e)
    <2>1. tr \in TransitionType /\ Own(tr, w)
      BY <1>1, <1>2, <1>6, AdvanceTyped, OwnDecision
    <2> HIDE DEF tr
    <2>2. Moved(c, {Route(tr)})
      BY <1>3, <1>6, <2>1, Decides DEF Own
    <2>3. Route(tr) = "commit" => Safe
      <3>1. repo.tree \in BOOLEAN
        BY DEF TypeOK
      <3>2. CASE Project.isolated
        BY <1>2, <2>1, <3>1, <3>2 DEF Own, WorkInv
      <3>3. CASE ~Project.isolated
        BY <3>3, AtHome
      <3> QED
        BY <3>2, <3>3
    <2>4. {Route(tr)} \cap RemovingPcs = {} \/ Safe
      BY <2>3, RouteTyped DEF RemovingPcs
    <2> QED
      BY <1>4, <2>2, <2>4, PlaceInv
  <1> QED
    BY <1>5, <1>6

LEMMA DecideDetectInv ==
    ASSUME IInv, NEW c \in Cmds, DecideDetect(c)
    PROVE  IInv'
  <1> USE DEF IInv
  <1> DEFINE s == cmd[c].state
             w == FlowWorld(c)
             tr == Advance(s, w, CommitDetected)
             r(i) == [cmd[c] EXCEPT !.pc = "record_commit", !.state = tr.state,
                                    !.route = Route(tr), !.head = work.branch,
                                    !.attempt = i]
  <1>1. UNCHANGED <<issue, session, live, flow, prompts, work, repo, past>>
    BY DEF DecideDetect
  <1>2. ASSUME NEW i \in DOMAIN prompts, Commits(i), cmd' = [cmd EXCEPT ![c] = r(i)]
        PROVE  Moved(c, {"record_commit"})
    <2>1. cmd[c] \in CmdType /\ s \in CompletionStates /\ work.branch \in SUBSET Edits
      BY DEF TypeOK, CmdType, WorkType
    <2>2. s.phase = "auto_committing" /\ CommitDetected \in Events
            /\ Legal(s.phase, CommitDetected)
      BY DEF DecideDetect, Shape, CmdShape, Events, CommitDetected, Event, Legal
    <2>3. /\ w \in Worlds /\ (~w.external \/ ~w.isolated) /\ (w.mismatch => w.isolated)
          /\ Project.isolated => w.mismatch /\ ~w.missing
      BY <1>2, FlowWorldTyped, FlowAssumption DEF Commits
    <2> HIDE DEF s, w
    <2>4. tr \in TransitionType /\ Own(tr, w)
      BY <2>1, <2>2, <2>3, AdvanceTyped, OwnDecision
    <2>5. i \in 0..MaxPrompts
      BY FlowAssumption DEF TypeOK
    <2> HIDE DEF tr
    <2>6. /\ tr.state \in CompletionStates /\ tr.state.phase # "confirming_cleanup"
          /\ Project.isolated => Route(tr) # "commit"
          /\ Route(tr) \in {"persist", "commit", "publish", "inject", "discard", "rebase"}
      BY <2>3, <2>4, RouteTyped DEF Own, TransitionType
    <2>7. r(i) \in CmdType /\ CmdShape(r(i)) /\ r(i).pc = "record_commit"
      BY <2>1, <2>5, <2>6 DEF CmdType, Pcs, CmdShape
    <2> HIDE DEF r
    <2> QED
      BY <1>2, <2>7 DEF TypeOK, Moved
  <1>3. Moved(c, {"record_commit", "idle"})
    <2>1. CASE \E i \in DOMAIN prompts : Commits(i) /\ cmd' = [cmd EXCEPT ![c] = r(i)]
      <3> HIDE DEF r
      <3> QED
        BY <1>2, <2>1 DEF Moved
    <2>2. CASE Return(c)
      BY <2>2, Returns DEF Moved
    <2> QED
      BY <2>1, <2>2 DEF DecideDetect
  <1> QED
    BY <1>1, <1>3, PlaceInv DEF RemovingPcs

\* The effects that do not touch the worktree.
LEMMA PromptsInv ==
    ASSUME IInv, NEW c \in Cmds, Inject(c) \/ RecordPrompt(c) \/ RecordCommit(c)
    PROVE  IInv'
  <1> USE DEF IInv
  <1> DEFINE P == [head : SUBSET Edits, done : BOOLEAN]
  <1>1. CASE Inject(c)
    <2>1. Moved(c, {"record_prompt"})
      BY <1>1, Goes DEF Inject, Pcs
    <2> QED
      BY <1>1, <2>1, PlaceInv DEF Inject, RemovingPcs
  <1>2. CASE RecordPrompt(c)
    <2>1. Moved(c, {"persist"})
      BY <1>2, Goes DEF RecordPrompt, Pcs
    <2>2. [head |-> cmd[c].head, done |-> FALSE] \in P
      BY DEF TypeOK, CmdType
    <2>3. prompts' \in Seq(P) /\ Len(prompts') = Len(prompts) + 1
      <3> HIDE DEF P
      <3>1. prompts \in Seq(P)
        BY DEF TypeOK, P
      <3> QED
        BY <1>2, <2>2, <3>1, AppendProperties DEF RecordPrompt
    <2>4. TypeOK'
      BY <1>2, <2>1, <2>3, FlowAssumption DEF RecordPrompt, TypeOK, Moved
    <2> QED
      BY <1>2, <2>1, <2>4, QuietInv DEF RecordPrompt, RemovingPcs, Shape
  <1>3. CASE RecordCommit(c)
    <2>1. /\ cmd[c].route \in {"persist", "commit", "publish", "inject", "discard", "rebase"}
          /\ cmd[c].route = "commit" => Safe
      BY <1>3, AtHome DEF RecordCommit, TypeOK, CmdType, Shape, CmdShape
    <2>2. Moved(c, {cmd[c].route})
      BY <1>3, <2>1, Goes DEF RecordCommit, Pcs
    <2>3. prompts' \in Seq(P) /\ Len(prompts') = Len(prompts)
      <3> DEFINE i == cmd[c].attempt
                 p == [prompts[i] EXCEPT !.done = TRUE]
      <3>1. prompts \in Seq(P) /\ prompts' = [prompts EXCEPT ![i] = p]
        BY <1>3 DEF TypeOK, RecordCommit
      <3>2. CASE i \in 1..Len(prompts)
        <4>1. prompts[i] \in P
          <5> HIDE DEF P, p, i
          <5> QED
            BY <3>1, <3>2
        <4>2. p \in P
          BY <4>1
        <4> HIDE DEF P, p, i
        <4> QED
          BY <3>1, <3>2, <4>2, ExceptSeq
      <3>3. CASE i \notin 1..Len(prompts)
        <4> HIDE DEF P, p, i
        <4>1. prompts' = prompts
          BY <3>1, <3>3
        <4> QED
          BY <3>1, <4>1
      <3> QED
        BY <3>2, <3>3
    <2>4. TypeOK'
      BY <1>3, <2>2, <2>3, FlowAssumption DEF RecordCommit, TypeOK, Moved
    <2> QED
      BY <1>3, <2>1, <2>2, <2>4, QuietInv DEF RecordCommit, RemovingPcs, Shape
  <1> QED
    BY <1>1, <1>2, <1>3

\* Publishing puts the branch in a request; edits are discarded before the
\* rebase, which is passed over only when the worktree is gone.
LEMMA PublishInv ==
    ASSUME IInv, NEW c \in Cmds, Publish(c) \/ PublishFails(c)
    PROVE  IInv'
  <1> USE DEF IInv
  <1> DEFINE published == work' = [work EXCEPT !.remote = @ \cup work.branch]
  <1>1. (Moved(c, {"commit"}) /\ Safe') \/ Moved(c, {"persist"})
    <2>1. CASE Publish(c)
      <3>1. Moved(c, {"commit"})
        BY <2>1, Goes DEF Publish, Pcs
      <3>2. Safe'
        BY <2>1 DEF Publish, Safe, TypeOK, WorkType
      <3> QED
        BY <3>1, <3>2
    <2>2. CASE PublishFails(c)
      BY <2>2, Blocks DEF PublishFails
    <2> QED
      BY <2>1, <2>2
  <1>2. published \/ UNCHANGED work
    BY DEF Publish, PublishFails
  <1>3. Disturb \/ UNCHANGED past
    BY DEF Publish, PublishFails
  <1>4. UNCHANGED <<issue, session, live, flow, prompts, repo>>
    BY DEF Publish, PublishFails
  <1>5. past' \in PastType /\ past'.lateCommits = past.lateCommits /\ past'.waived = past.waived
    BY <1>3, Disturbs DEF TypeOK
  <1>6. /\ work' \in WorkType /\ work'.branch = work.branch /\ work'.lost = work.lost
        /\ work'.target = work.target /\ work.remote \subseteq work'.remote
    BY <1>2 DEF TypeOK, WorkType
  <1>7. cmd' \in [Cmds -> CmdType]
    BY <1>1 DEF Moved
  <1>8. TypeOK'
    BY <1>4, <1>5, <1>6, <1>7 DEF TypeOK
  <1>9. CommittedWorkSafe' /\ (Safe => Safe') /\ Home'
    BY <1>5, <1>6 DEF CommittedWorkSafe, Safe, Home, WorkInv
  <1>10. flow'.phase # "confirming_cleanup"
    BY <1>4 DEF Shape
  <1>11. CASE Moved(c, {"commit"}) /\ Safe'
    BY <1>4, <1>8, <1>9, <1>10, <1>11, StepInv
  <1>12. CASE Moved(c, {"persist"})
    BY <1>4, <1>8, <1>9, <1>10, <1>12, StepInv DEF RemovingPcs
  <1> QED
    BY <1>1, <1>11, <1>12

LEMMA DiscardInv ==
    ASSUME IInv, NEW c \in Cmds, Discard(c)
    PROVE  IInv'
  <1> USE DEF IInv
  <1>1. Moved(c, {"rebase"})
    BY Goes DEF Discard, Pcs
  <1>2. /\ work' \in WorkType /\ work'.branch = work.branch /\ work'.lost = work.lost
        /\ work'.target = work.target /\ work'.remote = work.remote
    BY DEF Discard, TypeOK, WorkType
  <1>3. past' \in PastType /\ past'.lateCommits = past.lateCommits /\ past'.waived = past.waived
    BY DEF Discard, TypeOK, WorkType, PastType
  <1>4. UNCHANGED <<issue, session, live, flow, prompts, repo>>
    BY DEF Discard
  <1>5. TypeOK'
    BY <1>1, <1>2, <1>3, <1>4 DEF TypeOK, Moved
  <1>6. CommittedWorkSafe' /\ (Safe => Safe') /\ Home'
    BY <1>2, <1>3 DEF CommittedWorkSafe, Safe, Home, WorkInv
  <1> QED
    BY <1>1, <1>4, <1>5, <1>6, StepInv DEF RemovingPcs, Shape

LEMMA RebaseInv ==
    ASSUME IInv, NEW c \in Cmds, Rebase(c)
    PROVE  IInv'
  <1> USE DEF IInv
  <1>1. \/ Moved(c, {"commit"}) /\ Safe
        \/ Moved(c, {"fast_forward"})
        \/ Moved(c, {"persist"})
    <2>1. CASE ~repo.tree
      <3>1. Goto(c, "commit")
        BY <2>1 DEF Rebase
      <3> QED
        BY <2>1, <3>1, Goes DEF Pcs, WorkInv
    <2>2. CASE repo.tree /\ TargetClean(c) /\ work.dirty = {}
      <3>1. Goto(c, "fast_forward")
        BY <2>2 DEF Rebase
      <3> QED
        BY <3>1, Goes DEF Pcs
    <2>3. CASE repo.tree /\ ~(TargetClean(c) /\ work.dirty = {})
      <3>1. Block(c)
        BY <2>3 DEF Rebase
      <3> QED
        BY <3>1, Blocks
    <2> QED
      BY <2>1, <2>2, <2>3
  <1>2. UNCHANGED <<issue, session, live, flow, prompts, work, repo, past>>
    BY DEF Rebase
  <1> QED
    BY <1>1, <1>2, PlaceInv DEF RemovingPcs

\* The fast forward merges what is on the branch at that moment.
LEMMA FastForwardInv ==
    ASSUME IInv, NEW c \in Cmds, FastForward(c)
    PROVE  IInv'
  <1> USE DEF IInv
  <1>1. UNCHANGED <<issue, session, live, flow, prompts, repo, past>>
    BY DEF FastForward
  <1>2. CASE repo.branch /\ TargetUsable(c)
    <2>1. /\ work' = [work EXCEPT !.target = @ \cup work.branch]
          /\ Goto(c, "remove_worktree")
      BY <1>2 DEF FastForward
    <2>2. Moved(c, {"remove_worktree"})
      BY <2>1, Goes DEF Pcs
    <2>3. /\ work' \in WorkType /\ work'.branch = work.branch /\ work'.lost = work.lost
          /\ work'.target = work.target \cup work.branch
      BY <2>1 DEF TypeOK, WorkType
    <2>4. TypeOK'
      BY <1>1, <2>2, <2>3 DEF TypeOK, Moved
    <2>5. CommittedWorkSafe' /\ Safe' /\ Home'
      BY <1>1, <2>3 DEF CommittedWorkSafe, Safe, Home
    <2> QED
      BY <1>1, <2>2, <2>4, <2>5, StepInv DEF Shape
  <1>3. CASE ~(repo.branch /\ TargetUsable(c))
    <2>1. Block(c) /\ UNCHANGED work
      BY <1>3 DEF FastForward
    <2> QED
      BY <1>1, <2>1, Blocks, PlaceInv DEF RemovingPcs
  <1> QED
    BY <1>2, <1>3

\* The worktree and the branch are removed once Safe holds.
LEMMA RemoveWorktreeInv ==
    ASSUME IInv, NEW c \in Cmds, RemoveWorktree(c)
    PROVE  IInv'
  <1> USE DEF IInv
  <1>1. UNCHANGED <<issue, session, live, flow, prompts, past>>
    BY DEF RemoveWorktree
  <1>2. Safe
    BY DEF WorkInv, Removing, RemoveWorktree
  <1>3. CASE repo.tree
    <2>1. /\ work' = [work EXCEPT !.discarded = @ \cup work.dirty, !.dirty = {}]
          /\ repo' = [repo EXCEPT !.tree = FALSE]
          /\ Goto(c, "delete_branch")
      BY <1>3 DEF RemoveWorktree
    <2>2. Moved(c, {"delete_branch"})
      BY <2>1, Goes DEF Pcs
    <2>3. /\ work' \in WorkType /\ work'.branch = work.branch /\ work'.lost = work.lost
          /\ work'.target = work.target /\ work'.remote = work.remote
          /\ repo' \in [tree : BOOLEAN, branch : BOOLEAN, targetDirty : BOOLEAN]
      BY <2>1 DEF TypeOK, WorkType
    <2>4. TypeOK'
      BY <1>1, <2>2, <2>3 DEF TypeOK, Moved
    <2>5. CommittedWorkSafe' /\ Safe' /\ Home'
      BY <1>1, <1>2, <2>3 DEF CommittedWorkSafe, Safe, Home, WorkInv
    <2> QED
      BY <1>1, <2>2, <2>4, <2>5, StepInv DEF Shape
  <1>4. CASE ~repo.tree
    <2>1. GiveUp(c) /\ UNCHANGED <<work, repo>>
      BY <1>4 DEF RemoveWorktree
    <2> QED
      BY <1>1, <2>1, GivesUp, PlaceInv DEF RemovingPcs
  <1> QED
    BY <1>3, <1>4

LEMMA DeleteBranchInv ==
    ASSUME IInv, NEW c \in Cmds, DeleteBranch(c)
    PROVE  IInv'
  <1> USE DEF IInv
  <1>1. UNCHANGED <<issue, session, live, flow, prompts, past>>
    BY DEF DeleteBranch
  <1>2. Safe
    BY DEF WorkInv, Removing, DeleteBranch
  <1>3. CASE repo.branch /\ cmd[c].kind # "detect"
    <2>1. /\ work' = [work EXCEPT !.lost = @ \cup (work.branch \ (work.target \cup work.remote)),
                                  !.branch = {}]
          /\ repo' = [repo EXCEPT !.branch = FALSE]
          /\ IF cmd[c].kind = "delete_worktree" THEN Return(c) ELSE Goto(c, "commit")
      BY <1>3 DEF DeleteBranch
    <2>2. Moved(c, {"idle", "commit"})
      <3>1. CASE Return(c)
        BY <3>1, Returns DEF Moved
      <3>2. CASE Goto(c, "commit")
        BY <3>2, Goes DEF Moved, Pcs
      <3> QED
        BY <2>1, <3>1, <3>2
    <2>3. /\ work' \in WorkType /\ work'.branch = {}
          /\ work'.lost = work.lost \cup (work.branch \ (work.target \cup work.remote))
          /\ repo' \in [tree : BOOLEAN, branch : BOOLEAN, targetDirty : BOOLEAN]
          /\ repo'.tree = repo.tree
      BY <2>1 DEF TypeOK, WorkType
    <2>4. TypeOK'
      BY <1>1, <2>2, <2>3 DEF TypeOK, Moved
    <2>5. CommittedWorkSafe' /\ Safe' /\ Home'
      BY <1>1, <1>2, <2>3 DEF CommittedWorkSafe, Safe, Home, WorkInv
    <2> QED
      BY <1>1, <2>2, <2>3, <2>4, <2>5, StepInv DEF Shape
  <1>4. CASE ~(repo.branch /\ cmd[c].kind # "detect")
    <2>1. GiveUp(c) /\ UNCHANGED <<work, repo>>
      BY <1>4 DEF DeleteBranch
    <2> QED
      BY <1>1, <2>1, GivesUp, PlaceInv DEF RemovingPcs
  <1> QED
    BY <1>3, <1>4

\* The completion, the end of the agent and the record of the flow.
LEMMA CommitInv ==
    ASSUME IInv, NEW c \in Cmds, Commit(c)
    PROVE  IInv'
  <1> USE DEF IInv
  <1>1. UNCHANGED <<live, prompts, work, repo>>
    BY DEF Commit
  <1>2. Safe
    BY DEF WorkInv, Removing, Commit
  <1>3. CASE Guarded(c) => issue = "review" /\ session # "deleted"
    <2>1. /\ issue' = "completed"
          /\ session' \in {"closed", session}
          /\ flow' = Detecting
          /\ UNCHANGED past
          /\ Goto(c, "shutdown") \/ Return(c)
      BY <1>3 DEF Commit
    <2>2. Moved(c, {"shutdown", "idle"})
      <3>1. CASE Goto(c, "shutdown")
        BY <3>1, Goes DEF Moved, Pcs
      <3>2. CASE Return(c)
        BY <3>2, Returns DEF Moved
      <3> QED
        BY <2>1, <3>1, <3>2
    <2>3. past' \in PastType /\ past'.lateCommits = past.lateCommits /\ past'.waived = past.waived
      BY <2>1 DEF TypeOK, PastType
    <2>4. flow' \in CompletionStates /\ flow'.phase = "detecting"
      BY <2>1 DEF Detecting, CompletionStates, Phases, Paths
    <2>5. TypeOK'
      BY <1>1, <2>1, <2>2, <2>3, <2>4 DEF TypeOK, Moved, IssueStatuses, SessionStatuses
    <2> QED
      BY <1>1, <1>2, <2>2, <2>3, <2>4, <2>5, QuietInv
  <1>4. CASE ~(Guarded(c) => issue = "review" /\ session # "deleted")
    <2>1. Return(c) /\ UNCHANGED <<issue, session, flow, past>>
      BY <1>4 DEF Commit
    <2> QED
      BY <1>1, <2>1, Returns, PlaceInv DEF RemovingPcs
  <1> QED
    BY <1>3, <1>4

LEMMA EndInv ==
    ASSUME IInv, NEW c \in Cmds, Shutdown(c) \/ Persist(c)
    PROVE  IInv'
  <1> USE DEF IInv
  <1>1. Return(c) /\ UNCHANGED <<issue, session, prompts, work, repo, past>>
    BY DEF Shutdown, Persist
  <1>2. Moved(c, {"idle"})
    BY <1>1, Returns
  <1>3. live' \in BOOLEAN
    BY DEF Shutdown, Persist, TypeOK
  <1>4. flow' \in CompletionStates /\ flow'.phase # "confirming_cleanup"
    <2>1. cmd[c].state \in CompletionStates /\ cmd[c].state.phase # "confirming_cleanup"
      BY DEF TypeOK, CmdType, Shape, CmdShape
    <2>2. CASE Shutdown(c)
      BY <2>2 DEF Shutdown, TypeOK, Shape
    <2>3. CASE Persist(c)
      <3>1. flow' = Persisted(cmd[c].state)
        BY <2>3 DEF Persist
      <3> QED
        BY <2>1, <3>1 DEF Persisted, CompletionStates
    <2> QED
      BY <2>2, <2>3
  <1>5. TypeOK'
    BY <1>1, <1>2, <1>3, <1>4 DEF TypeOK, Moved
  <1> QED
    BY <1>1, <1>2, <1>4, <1>5, QuietInv DEF RemovingPcs

\* Failures end the command or its effects, wherever it is.
LEMMA FailureInv ==
    ASSUME IInv, NEW c \in Cmds, Failure(c)
    PROVE  IInv'
  <1> USE DEF IInv
  <1>1. CASE PublishFails(c)
    BY <1>1, PublishInv
  <1>2. CASE DecideRefused(c) \/ GitFails(c) \/ ReturnsError(c)
    <2>1. /\ Return(c) \/ Block(c) \/ GiveUp(c)
          /\ Disturb
          /\ UNCHANGED <<issue, session, live, flow, prompts, work, repo>>
      BY <1>2 DEF DecideRefused, GitFails, ReturnsError
    <2>2. Moved(c, {"idle", "persist"})
      <3>1. CASE Return(c)
        BY <3>1, Returns DEF Moved
      <3>2. CASE Block(c)
        BY <3>2, Blocks DEF Moved
      <3>3. CASE GiveUp(c)
        BY <3>3, GivesUp
      <3> QED
        BY <2>1, <3>1, <3>2, <3>3
    <2> QED
      BY <2>1, <2>2, PlaceInv DEF RemovingPcs
  <1> QED
    BY <1>1, <1>2 DEF Failure

\* advance_issue_status never completes an issue.
LEMMA AdvanceStatusInv ==
    ASSUME IInv, NEW c \in Cmds, UpdateStatus(c) \/ Rollback(c)
    PROVE  IInv'
  <1> USE DEF IInv
  <1>1. UNCHANGED <<live, flow, prompts, work, repo, past>>
    BY DEF UpdateStatus, Rollback
  <1>2. issue' \in {issue, "backlog", "running", "review"}
    <2>1. CASE UpdateStatus(c)
      <3>1. Target(cmd[c].kind) \in {"running", "review"}
        BY <2>1 DEF UpdateStatus, Target
      <3> QED
        BY <2>1, <3>1 DEF UpdateStatus
    <2>2. CASE Rollback(c)
      BY <2>2 DEF Rollback
    <2> QED
      BY <2>1, <2>2
  <1>3. session' \in {session, "deleted"}
    BY DEF UpdateStatus, Rollback
  <1>4. Moved(c, {"idle", "shutdown"})
    <2>1. CASE Return(c)
      BY <2>1, Returns DEF Moved
    <2>2. CASE Goto(c, "shutdown")
      BY <2>2, Goes DEF Moved, Pcs
    <2> QED
      BY <2>1, <2>2 DEF UpdateStatus, Rollback
  <1>5. TypeOK'
    BY <1>1, <1>2, <1>3, <1>4 DEF TypeOK, Moved, IssueStatuses, SessionStatuses
  <1> QED
    BY <1>1, <1>2, <1>4, <1>5, QuietInv DEF RemovingPcs, Shape

LEMMA StepsInv ==
    ASSUME IInv, NEW c \in Cmds, Step(c)
    PROVE  IInv'
  BY LoadInv, DecideDriveInv, DecideDetectInv, PromptsInv, PublishInv, DiscardInv,
     RebaseInv, FastForwardInv, RemoveWorktreeInv, DeleteBranchInv, CommitInv,
     EndInv, AdvanceStatusInv DEF Step

(***************************************************************************)
(* The agent, the user and the machine.                                    *)
(***************************************************************************)

\* The environment moves no command, and keeps Safe: what is committed while
\* Safe is needed is late.
LEMMA EnvironmentInv ==
    ASSUME IInv, Environment
    PROVE  IInv'
  <1> USE DEF IInv
  <1>1. ASSUME NEW e \in Edits, Edit(e)
        PROVE  IInv'
    <2>1. UNCHANGED <<issue, session, live, flow, prompts, repo, cmd>>
      BY <1>1 DEF Edit
    <2>2. /\ work' \in WorkType /\ work'.branch = work.branch /\ work'.lost = work.lost
          /\ work'.target = work.target /\ work'.remote = work.remote
      BY <1>1 DEF Edit, TypeOK, WorkType
    <2>3. past' \in PastType /\ past.lateCommits \subseteq past'.lateCommits /\ past'.waived = past.waived
      BY <1>1 DEF Edit, TypeOK, PastType
    <2>4. CommittedWorkSafe' /\ (Safe => Safe') /\ Home'
      BY <2>2, <2>3 DEF CommittedWorkSafe, Safe, Home, WorkInv
    <2> QED
      BY <2>1, <2>2, <2>3, <2>4 DEF TypeOK, Shape, WorkInv, Removing
  <1>2. CASE CommitEdits
    <2> DEFINE TooLate == issue = "completed" \/ \E c \in Cmds : Removing(c)
    <2>1. UNCHANGED <<issue, session, live, flow, prompts, repo, cmd>> /\ repo.tree
      BY <1>2 DEF CommitEdits
    <2>2. /\ work' \in WorkType /\ work'.branch = work.branch \cup work.dirty
          /\ work'.lost = work.lost /\ work'.remote = work.remote
          /\ work.target \subseteq work'.target
          /\ ~Project.isolated => work'.target = work.target \cup work.dirty
      BY <1>2 DEF CommitEdits, TypeOK, WorkType
    <2>3. /\ past' \in PastType /\ past'.waived = past.waived
          /\ past.lateCommits \subseteq past'.lateCommits
          /\ TooLate => work.dirty \subseteq past'.lateCommits
      BY <1>2 DEF CommitEdits, TypeOK, PastType, WorkType
    <2>4. CommittedWorkSafe'
      BY <2>2, <2>3 DEF CommittedWorkSafe
    <2>5. TooLate /\ Safe => Safe'
      BY <2>2, <2>3 DEF Safe
    <2>6. WorkInv'
      <3>1. Home'
        BY <2>2 DEF WorkInv, Home
      <3> QED
        BY <2>1, <2>5, <3>1 DEF WorkInv, Removing
    <2> QED
      BY <2>1, <2>2, <2>3, <2>4, <2>6 DEF TypeOK, Shape
  <1>3. CASE SoilTarget \/ CleanTarget
    <2>1. UNCHANGED <<issue, session, live, flow, prompts, work, cmd>>
      BY <1>3 DEF SoilTarget, CleanTarget
    <2>2. /\ repo' \in [tree : BOOLEAN, branch : BOOLEAN, targetDirty : BOOLEAN]
          /\ repo'.tree = repo.tree
      BY <1>3 DEF SoilTarget, CleanTarget, TypeOK
    <2>3. past' \in PastType /\ past'.lateCommits = past.lateCommits /\ past'.waived = past.waived
      BY <1>3, Disturbs DEF SoilTarget, CleanTarget, TypeOK
    <2> QED
      BY <2>1, <2>2, <2>3
         DEF TypeOK, Shape, WorkInv, Home, Removing, CommittedWorkSafe, Safe
  <1>4. CASE MarkReview
    <2>1. issue' = "review" /\ UNCHANGED <<session, live, flow, prompts, work, repo, cmd, past>>
      BY <1>4 DEF MarkReview
    <2> QED
      BY <2>1 DEF TypeOK, Shape, WorkInv, Home, Removing, CommittedWorkSafe, Safe, IssueStatuses
  <1>5. CASE SessionExits \/ Crash
    <2>1. /\ UNCHANGED <<issue, flow, prompts, work, repo>>
          /\ live' \in BOOLEAN /\ session' \in {session, "stopped"}
          /\ UNCHANGED cmd \/ cmd' = [c \in Cmds |-> Idle]
      BY <1>5 DEF SessionExits, Crash
    <2>2. past' \in PastType /\ past'.lateCommits = past.lateCommits /\ past'.waived = past.waived
      BY <1>5, Disturbs DEF SessionExits, Crash
    <2>3. TypeOK'
      BY <2>1, <2>2, IdleTyped DEF TypeOK, SessionStatuses
    <2>4. Safe' = Safe /\ Home' = Home /\ CommittedWorkSafe'
      BY <2>1, <2>2 DEF Safe, Home, CommittedWorkSafe
    <2>5. Shape' /\ WorkInv'
      BY <2>1, <2>4, IdleTyped DEF Shape, WorkInv, Removing
    <2> QED
      BY <2>3, <2>4, <2>5
  <1> QED
    BY <1>1, <1>2, <1>3, <1>4, <1>5 DEF Environment

(***************************************************************************)
(* The invariant holds, and what it implies.                               *)
(***************************************************************************)
LEMMA InitInv == Init => IInv
  <1> SUFFICES ASSUME Init PROVE IInv
    OBVIOUS
  <1>1. Detecting \in CompletionStates /\ Detecting.phase = "detecting"
    BY DEF Detecting, CompletionStates, Phases, Paths
  <1>2. prompts \in Seq([head : SUBSET Edits, done : BOOLEAN]) /\ Len(prompts) = 0
    BY DEF Init
  <1>3. TypeOK
    BY <1>1, <1>2, IdleTyped, FlowAssumption
       DEF Init, TypeOK, WorkType, PastType, IssueStatuses, SessionStatuses
  <1>4. Shape
    BY <1>1, IdleTyped DEF Init, Shape
  <1>5. WorkInv /\ CommittedWorkSafe
    BY DEF Init, WorkInv, Home, Safe, CommittedWorkSafe
  <1> QED
    BY <1>3, <1>4, <1>5 DEF IInv

LEMMA NextInv == IInv /\ [Next]_vars => IInv'
  <1> SUFFICES ASSUME IInv, [Next]_vars PROVE IInv'
    OBVIOUS
  <1>1. CASE UNCHANGED vars
    BY <1>1 DEF vars, IInv, TypeOK, Shape, WorkInv, Home, Removing, Safe, CommittedWorkSafe
  <1>2. CASE Next
    BY <1>2, CallsInv, StepsInv, FailureInv, EnvironmentInv DEF Next
  <1> QED
    BY <1>1, <1>2

LEMMA IInvHolds == Spec => []IInv
  BY InitInv, NextInv, PTL DEF Spec

\* The type invariant of CompletionFlow: every command, failure and disturbance
\* keeps the rows, the work and the commands well-formed.
THEOREM FlowTyped == Spec => []TypeOK
  <1>1. IInv => TypeOK
    BY DEF IInv
  <1> QED
    BY <1>1, IInvHolds, PTL

\* No commit is lost with its branch: for any number of overlapping commands,
\* edits, failures and crashes, what branch -D takes with it was committed
\* after a rebase or given up with the worktree.
THEOREM CommitsKept == Spec => []CommittedWorkSafe
  <1>1. IInv => CommittedWorkSafe
    BY DEF IInv
  <1> QED
    BY <1>1, IInvHolds, PTL

\* Whenever the issue is completed, the commits still on its branch are on the
\* target or in a request, or were made late or given up.
THEOREM CompletionDelivers == Spec => []DeliveredWhenCompleted
  <1>1. IInv => DeliveredWhenCompleted
    BY DEF IInv, WorkInv, Safe, DeliveredWhenCompleted
  <1> QED
    BY <1>1, IInvHolds, PTL

(***************************************************************************)
(* Uncommitted edits.  Unless the user has said so, no command and no      *)
(* stored flow skips them, so none discards; and whatever lies uncommitted *)
(* in the worktree of a command that is about to remove it came late or    *)
(* was given up.                                                           *)
(***************************************************************************)
Unskipped(r) ==
    /\ ~Skips(r.input) /\ ~DirtyAlreadySkipped(r.state)
    /\ r.pc # "discard" /\ r.route # "discard"

Unasked ==
    ~past.said =>
        /\ ~DirtyAlreadySkipped(flow)
        /\ \A c \in Cmds : Unskipped(cmd[c])

Marked == work.dirty \subseteq past.lateEdits \cup past.waived

Checked == {"fast_forward", "remove_worktree"}

EditInv ==
    /\ Unasked
    /\ UncommittedWorkSafe
    /\ \A c \in Cmds : cmd[c].pc \in Checked => Marked

\* Command c gets to one of pcs, and skips only if it did or is to discard.
Keeps(c, pcs) ==
    /\ \A d \in Cmds \ {c} : cmd'[d] = cmd[d]
    /\ Unskipped(cmd[c]) /\ "discard" \notin pcs => Unskipped(cmd'[c])
    /\ cmd'[c].pc \in pcs

LEMMA IdleUnskipped == Unskipped(Idle) /\ Idle.pc = "idle" /\ ~DirtyAlreadySkipped(Detecting)
  BY DEF Unskipped, Idle, PlainInput, Detecting, Skips, DirtyAlreadySkipped

LEMMA GoesKeeping ==
    ASSUME TypeOK, NEW c \in Cmds, NEW pc \in Pcs, Goto(c, pc)
    PROVE  Keeps(c, {pc})
  <1>1. cmd[c] \in CmdType /\ cmd' = [cmd EXCEPT ![c] = [cmd[c] EXCEPT !.pc = pc]]
    BY DEF TypeOK, Goto
  <1> QED
    BY <1>1 DEF TypeOK, Keeps, Unskipped, CmdType

LEMMA EndsKeeping ==
    ASSUME TypeOK, NEW c \in Cmds, Return(c) \/ Block(c) \/ GiveUp(c)
    PROVE  Keeps(c, {"idle", "persist"})
  <1>1. CASE Return(c)
    BY <1>1, IdleUnskipped DEF TypeOK, Return, Keeps
  <1>2. CASE Block(c)
    <2> DEFINE state == [cmd[c].state EXCEPT !.phase = "blocked"]
               r == [cmd[c] EXCEPT !.pc = "persist", !.state = state]
    <2>1. cmd[c] \in CmdType /\ cmd[c].state \in CompletionStates
      BY DEF TypeOK, CmdType
    <2>2. SameDirty(state, cmd[c].state)
      BY <2>1 DEF CompletionStates, SameDirty
    <2>3. cmd' = [cmd EXCEPT ![c] = r]
      BY <1>2 DEF Block
    <2> HIDE DEF state
    <2>4. r.pc = "persist" /\ (Unskipped(cmd[c]) => Unskipped(r))
      BY <2>1, <2>2 DEF CmdType, Unskipped, SameDirty, DirtyAlreadySkipped
    <2> HIDE DEF r
    <2> QED
      BY <2>3, <2>4 DEF TypeOK, Keeps
  <1> QED
    BY <1>1, <1>2 DEF GiveUp

\* A command enters without skipping when its input does not.
LEMMA EntersKeeping ==
    ASSUME TypeOK, NEW c \in Cmds, NEW kind \in Kinds, NEW in \in Inputs,
           NEW pc \in {"load", "update", "remove_worktree"}, Enter(c, kind, in, pc)
    PROVE  /\ \A d \in Cmds \ {c} : cmd'[d] = cmd[d]
           /\ ~Skips(in) => Unskipped(cmd'[c])
           /\ cmd'[c].pc = pc
  <1> DEFINE r == [Idle EXCEPT !.pc = pc, !.kind = kind, !.input = in,
                               !.issue = issue, !.session = session]
  <1>1. cmd' = [cmd EXCEPT ![c] = r]
    BY DEF Enter
  <1>2. r.pc = pc /\ (~Skips(in) => Unskipped(r))
    BY IdleUnskipped DEF Unskipped, Idle
  <1> HIDE DEF r
  <1> QED
    BY <1>1, <1>2 DEF TypeOK

\* What a step of one command has to show.
LEMMA EditStep ==
    ASSUME EditInv, NEW c \in Cmds,
           \A d \in Cmds \ {c} : cmd'[d] = cmd[d],
           past.said => past'.said,
           past.lateEdits \subseteq past'.lateEdits, past.waived \subseteq past'.waived,
           ~past'.said => Unskipped(cmd'[c]) /\ ~DirtyAlreadySkipped(flow'),
           work'.dirty \subseteq work.dirty, UncommittedWorkSafe',
           cmd'[c].pc \in Checked => Marked'
    PROVE  EditInv'
  <1>1. Unasked'
    <2> SUFFICES ASSUME ~past'.said, NEW d \in Cmds
                 PROVE  Unskipped(cmd'[d])
      BY DEF Unasked
    <2> QED
      BY DEF EditInv, Unasked
  <1>2. Marked => Marked'
    BY DEF Marked
  <1> QED
    BY <1>1, <1>2 DEF EditInv

\* Most steps leave the edits and the stored flow alone.
LEMMA EditPlace ==
    ASSUME TypeOK, EditInv, NEW c \in Cmds, NEW pcs, Keeps(c, pcs),
           Disturb \/ UNCHANGED past, UNCHANGED flow,
           work'.dirty = work.dirty, work'.discarded = work.discarded,
           past.said \/ "discard" \notin pcs,
           pcs \cap Checked = {} \/ Marked
    PROVE  EditInv'
  <1>1. /\ past'.said = past.said /\ past'.lateEdits = past.lateEdits
        /\ past'.waived = past.waived
    BY DEF Disturb, TypeOK, PastType
  <1>2. ~past.said => Unskipped(cmd'[c]) /\ ~DirtyAlreadySkipped(flow')
    BY DEF EditInv, Unasked, Keeps
  <1>3. UncommittedWorkSafe' /\ Marked' = Marked
    BY <1>1 DEF EditInv, UncommittedWorkSafe, Marked
  <1>4. \A d \in Cmds \ {c} : cmd'[d] = cmd[d]
    BY DEF Keeps
  <1>5. cmd'[c].pc \in Checked => Marked'
    BY <1>3 DEF Keeps
  <1> QED
    BY <1>1, <1>2, <1>3, <1>4, <1>5, EditStep

\* The calls: only a request that skips is taken as saying so, and a deletion
\* of the worktree gives up what lies in it.
LEMMA CallsEdits ==
    ASSUME IInv, EditInv, NEW c \in Cmds, Calls(c)
    PROVE  EditInv'
  <1> USE DEF IInv
  <1>1. PlainInput \in Inputs /\ ~Skips(PlainInput)
    BY DEF PlainInput, Inputs, Skips
  <1>2. past \in PastType /\ UNCHANGED <<flow, work>>
    BY DEF TypeOK, Calls, Drive, Detect, DeleteWorktree, Advances
  <1>3. ASSUME NEW in \in Requests, Drive(c, in)
        PROVE  EditInv'
    <2> DEFINE faults == IF /\ flow.phase \in {"prompting_dirty", "prompting_closeout"}
                            /\ in = PlainInput
                         THEN past.faults + 1 ELSE past.faults
               said == past.said \/ Skips(in)
    <2>1. /\ \A d \in Cmds \ {c} : cmd'[d] = cmd[d]
          /\ ~Skips(in) => Unskipped(cmd'[c])
          /\ cmd'[c].pc = "load"
      <3>1. in \in Inputs /\ "drive" \in Kinds
        BY FlowAssumption DEF Kinds
      <3> QED
        BY <1>3, <3>1, EntersKeeping DEF Drive
    <2>2. past' = [past EXCEPT !.said = said, !.faults = faults]
      BY <1>3 DEF Drive
    <2> HIDE DEF faults, said
    <2>3. /\ past'.said = said /\ past'.lateEdits = past.lateEdits
          /\ past'.waived = past.waived
      BY <1>2, <2>2 DEF PastType
    <2>4. /\ past.said => past'.said
          /\ ~past'.said => Unskipped(cmd'[c]) /\ ~DirtyAlreadySkipped(flow')
      BY <1>2, <2>1, <2>3 DEF said, EditInv, Unasked
    <2>5. UncommittedWorkSafe'
      BY <1>2, <2>3, <2>4 DEF EditInv, UncommittedWorkSafe
    <2> QED
      BY <1>2, <2>1, <2>3, <2>4, <2>5, EditStep DEF Checked
  <1>4. ASSUME NEW kind \in Kinds, NEW pc \in {"load", "update"},
               Enter(c, kind, PlainInput, pc), UNCHANGED past
        PROVE  EditInv'
    <2>1. /\ \A d \in Cmds \ {c} : cmd'[d] = cmd[d]
          /\ Unskipped(cmd'[c]) /\ cmd'[c].pc = pc
      BY <1>1, <1>4, EntersKeeping
    <2>2. UncommittedWorkSafe' /\ (~past'.said => ~DirtyAlreadySkipped(flow'))
      BY <1>2, <1>4 DEF EditInv, Unasked, UncommittedWorkSafe
    <2> QED
      BY <1>2, <1>4, <2>1, <2>2, EditStep DEF Checked
  <1>5. CASE Detect(c)
    BY <1>4, <1>5 DEF Detect, Kinds
  <1>6. ASSUME NEW kind \in {"rollback", "to_running", "to_review"}, Advances(c, kind)
        PROVE  EditInv'
    BY <1>4, <1>6 DEF Advances, Kinds
  <1>7. CASE DeleteWorktree(c)
    <2>1. /\ \A d \in Cmds \ {c} : cmd'[d] = cmd[d]
          /\ Unskipped(cmd'[c]) /\ cmd'[c].pc = "remove_worktree"
      BY <1>1, <1>7, EntersKeeping DEF DeleteWorktree, Kinds
    <2>2. /\ past'.waived = past.waived \cup work.dirty \cup work.branch
          /\ past'.said = past.said /\ past'.lateEdits = past.lateEdits
      BY <1>2, <1>7 DEF DeleteWorktree, PastType
    <2>3. Marked' /\ UncommittedWorkSafe' /\ (~past'.said => ~DirtyAlreadySkipped(flow'))
      BY <1>2, <2>2 DEF Marked, EditInv, Unasked, UncommittedWorkSafe
    <2> QED
      BY <1>2, <2>1, <2>2, <2>3, EditStep
  <1> QED
    BY <1>3, <1>5, <1>6, <1>7 DEF Calls

\* A flow is loaded with the answers it has, and those of the call.
LEMMA LoadEdits ==
    ASSUME IInv, EditInv, NEW c \in Cmds, Load(c)
    PROVE  EditInv'
  <1> USE DEF IInv
  <1>1. UNCHANGED <<flow, work, past>>
    BY DEF Load
  <1>2. CASE Return(c)
    BY <1>1, <1>2, EndsKeeping, EditPlace DEF Checked
  <1>3. CASE ~Return(c)
    <2> DEFINE state == FoldInput(flow, cmd[c].input)
               r == [cmd[c] EXCEPT !.pc = "decide", !.state = state]
    <2>1. cmd[c] \in CmdType /\ cmd[c].input \in Inputs /\ flow \in CompletionStates
      BY DEF TypeOK, CmdType
    <2>2. cmd' = [cmd EXCEPT ![c] = r]
      BY <1>3 DEF Load
    <2>3. ~DirtyAlreadySkipped(flow) /\ ~Skips(cmd[c].input) => ~DirtyAlreadySkipped(state)
      BY <2>1, FoldKeeps DEF DirtyAlreadySkipped, Skips
    <2> HIDE DEF state
    <2>4. /\ r.pc = "decide"
          /\ Unskipped(cmd[c]) /\ ~DirtyAlreadySkipped(flow) => Unskipped(r)
      BY <2>1, <2>3 DEF CmdType, Unskipped
    <2> HIDE DEF r
    <2>5. /\ \A d \in Cmds \ {c} : cmd'[d] = cmd[d]
          /\ cmd'[c] = r
      BY <2>2 DEF TypeOK
    <2>6. /\ ~past.said => Unskipped(cmd'[c]) /\ ~DirtyAlreadySkipped(flow')
          /\ UncommittedWorkSafe'
      BY <1>1, <2>4, <2>5 DEF EditInv, Unasked, UncommittedWorkSafe
    <2> QED
      BY <1>1, <2>4, <2>5, <2>6, EditStep DEF Checked
  <1> QED
    BY <1>2, <1>3

\* A decision skips only what was skipped before or is skipped by its event.
LEMMA DecisionEdits ==
    ASSUME TypeOK, EditInv, NEW c \in Cmds, NEW tr \in TransitionType,
           NEW pc \in {Route(tr), "record_commit"}, NEW r,
           r.pc = pc, r.state = tr.state, r.route = Route(tr), r.input = cmd[c].input,
           cmd' = [cmd EXCEPT ![c] = r],
           ~past.said => ~DirtyAlreadySkipped(tr.state),
           UNCHANGED <<flow, work, past>>
    PROVE  EditInv'
  <1>1. pc \notin Checked /\ (~past.said => pc # "discard" /\ Route(tr) # "discard")
    BY RouteTyped DEF Checked, Route
  <1>2. /\ \A d \in Cmds \ {c} : cmd'[d] = cmd[d]
        /\ cmd'[c] = r
    BY DEF TypeOK
  <1>3. ~past.said => Unskipped(r) /\ ~DirtyAlreadySkipped(flow)
    BY <1>1 DEF EditInv, Unasked, Unskipped
  <1>4. UncommittedWorkSafe'
    BY DEF EditInv, UncommittedWorkSafe
  <1> QED
    BY <1>1, <1>2, <1>3, <1>4, EditStep

LEMMA DecideEdits ==
    ASSUME IInv, EditInv, NEW c \in Cmds, DecideDrive(c) \/ DecideDetect(c)
    PROVE  EditInv'
  <1> USE DEF IInv
  <1> DEFINE s == cmd[c].state
             in == cmd[c].input
             w == FlowWorld(c)
  <1>1. s \in CompletionStates /\ in \in Inputs /\ cmd[c] \in CmdType
    BY DEF TypeOK, CmdType
  <1>2. w \in Worlds
    BY FlowWorldTyped, FlowAssumption
  <1>3. UNCHANGED <<flow, work, past>>
    BY DEF DecideDrive, DecideDetect
  <1>4. ~past.said => ~Skips(in) /\ ~DirtyAlreadySkipped(s)
    BY DEF EditInv, Unasked, Unskipped
  <1> HIDE DEF w
  <1>5. ASSUME NEW e \in Events, Legal(s.phase, e),
               e = Event("dirty", "skip") => Skips(in)
        PROVE  /\ Advance(s, w, e) \in TransitionType
               /\ ~past.said => ~DirtyAlreadySkipped(Advance(s, w, e).state)
    <2> HIDE DEF s, in
    <2> QED
      BY <1>1, <1>2, <1>4, <1>5, AdvanceTyped, AdvanceKeepsDirty DEF DirtyAlreadySkipped
  <1>6. CASE Return(c)
    BY <1>3, <1>6, EndsKeeping, EditPlace DEF Checked
  <1>7. CASE DecideDrive(c) /\ ~Return(c)
    <2> DEFINE e == DeriveEvent(s, in)
               tr == Advance(s, w, e)
               r == [cmd[c] EXCEPT !.pc = Route(tr), !.state = tr.state,
                                   !.route = Route(tr), !.head = work.branch]
    <2>1. e \in Events /\ (e = Event("dirty", "skip") => Skips(in))
      BY <1>1, DerivedTyped, DerivedDirty DEF Skips
    <2>2. Legal(s.phase, e) /\ Decided(c, tr, Route(tr))
      BY <1>7 DEF DecideDrive, w
    <2>3. tr \in TransitionType /\ (~past.said => ~DirtyAlreadySkipped(tr.state))
      BY <1>5, <2>1, <2>2
    <2>4. cmd' = [cmd EXCEPT ![c] = r]
      BY <2>2 DEF Decided
    <2> HIDE DEF tr
    <2>5. r.pc = Route(tr) /\ r.state = tr.state /\ r.route = Route(tr) /\ r.input = in
      BY <1>1 DEF CmdType
    <2> HIDE DEF r
    <2> QED
      BY <1>3, <2>3, <2>4, <2>5, DecisionEdits
  <1>8. CASE DecideDetect(c)
    <2> DEFINE tr == Advance(s, w, CommitDetected)
               r(i) == [cmd[c] EXCEPT !.pc = "record_commit", !.state = tr.state,
                                      !.route = Route(tr), !.head = work.branch,
                                      !.attempt = i]
    <2>1. /\ CommitDetected \in Events /\ Legal(s.phase, CommitDetected)
          /\ CommitDetected # Event("dirty", "skip")
      BY <1>8 DEF DecideDetect, Shape, CmdShape, Events, CommitDetected, Event, Legal
    <2>2. tr \in TransitionType /\ (~past.said => ~DirtyAlreadySkipped(tr.state))
      BY <1>5, <2>1
    <2>3. ASSUME NEW i \in DOMAIN prompts, cmd' = [cmd EXCEPT ![c] = r(i)]
          PROVE  EditInv'
      <3> HIDE DEF tr
      <3>1. /\ r(i).pc = "record_commit" /\ r(i).state = tr.state
            /\ r(i).route = Route(tr) /\ r(i).input = in
        BY <1>1 DEF CmdType
      <3> HIDE DEF r
      <3> QED
        BY <1>3, <2>2, <2>3, <3>1, DecisionEdits
    <2>4. CASE \E i \in DOMAIN prompts : Commits(i) /\ cmd' = [cmd EXCEPT ![c] = r(i)]
      <3> HIDE DEF tr, r
      <3> QED
        BY <2>3, <2>4
    <2> QED
      BY <1>6, <1>8, <2>4 DEF DecideDetect, w
  <1> QED
    BY <1>6, <1>7, <1>8

\* Only a command that was told to skip gets to discard, and the rebase is
\* passed with a clean worktree.
LEMMA EffectEdits ==
    ASSUME IInv, EditInv, NEW c \in Cmds,
           \/ Inject(c) \/ RecordPrompt(c) \/ RecordCommit(c)
           \/ Publish(c) \/ PublishFails(c) \/ Rebase(c) \/ FastForward(c)
    PROVE  EditInv'
  <1> USE DEF IInv
  <1>1. CASE Inject(c) \/ RecordPrompt(c)
    <2>1. Keeps(c, {"record_prompt"}) \/ Keeps(c, {"persist"})
      BY <1>1, GoesKeeping DEF Inject, RecordPrompt, Pcs
    <2> QED
      BY <1>1, <2>1, EditPlace DEF Inject, RecordPrompt, Checked
  <1>2. CASE RecordCommit(c)
    <2>1. /\ cmd[c].route \in {"persist", "commit", "publish", "inject", "discard", "rebase"}
          /\ past.said \/ cmd[c].route # "discard"
      BY DEF TypeOK, CmdType, EditInv, Unasked, Unskipped
    <2>2. Keeps(c, {cmd[c].route})
      BY <1>2, <2>1, GoesKeeping DEF RecordCommit, Pcs
    <2> QED
      BY <1>2, <2>1, <2>2, EditPlace DEF RecordCommit, Checked
  <1>3. CASE Publish(c) \/ PublishFails(c)
    <2>1. Keeps(c, {"commit"}) \/ Keeps(c, {"idle", "persist"})
      BY <1>3, GoesKeeping, EndsKeeping DEF Publish, PublishFails, Pcs
    <2>2. /\ work'.dirty = work.dirty /\ work'.discarded = work.discarded
          /\ Disturb \/ UNCHANGED past
          /\ UNCHANGED flow
      BY <1>3 DEF Publish, PublishFails, TypeOK, WorkType
    <2> QED
      BY <2>1, <2>2, EditPlace DEF Checked
  <1>4. CASE Rebase(c)
    <2>1. Keeps(c, {"commit"}) \/ Keeps(c, {"idle", "persist"})
            \/ (Keeps(c, {"fast_forward"}) /\ Marked)
      <3>1. CASE ~repo.tree
        BY <1>4, <3>1, GoesKeeping DEF Rebase, Pcs
      <3>2. CASE repo.tree /\ TargetClean(c) /\ work.dirty = {}
        BY <1>4, <3>2, GoesKeeping DEF Rebase, Pcs, Marked
      <3>3. CASE repo.tree /\ ~(TargetClean(c) /\ work.dirty = {})
        BY <1>4, <3>3, EndsKeeping DEF Rebase
      <3> QED
        BY <3>1, <3>2, <3>3
    <2> QED
      BY <1>4, <2>1, EditPlace DEF Rebase, Checked
  <1>5. CASE FastForward(c)
    <2>1. Keeps(c, {"remove_worktree"}) \/ Keeps(c, {"idle", "persist"})
      BY <1>5, GoesKeeping, EndsKeeping DEF FastForward, Pcs
    <2>2. Marked
      BY <1>5 DEF FastForward, EditInv, Checked
    <2>3. work'.dirty = work.dirty /\ work'.discarded = work.discarded
      BY <1>5 DEF FastForward, TypeOK, WorkType
    <2> QED
      BY <1>5, <2>1, <2>2, <2>3, EditPlace DEF FastForward, Checked
  <1> QED
    BY <1>1, <1>2, <1>3, <1>4, <1>5

\* What is discarded was skipped by the user, or came late or was given up.
LEMMA DiscardEdits ==
    ASSUME IInv, EditInv, NEW c \in Cmds, Discard(c)
    PROVE  EditInv'
  <1> USE DEF IInv
  <1>1. past.said /\ UNCHANGED <<flow, past>>
    BY DEF Discard, EditInv, Unasked, Unskipped
  <1>2. Keeps(c, {"rebase"})
    BY GoesKeeping DEF Discard, Pcs
  <1>3. work'.dirty \subseteq work.dirty
    BY DEF Discard, TypeOK, WorkType
  <1>4. UncommittedWorkSafe'
    BY <1>1 DEF UncommittedWorkSafe
  <1> QED
    BY <1>1, <1>2, <1>3, <1>4, EditStep DEF Keeps, Checked

LEMMA RemoveWorktreeEdits ==
    ASSUME IInv, EditInv, NEW c \in Cmds, RemoveWorktree(c)
    PROVE  EditInv'
  <1> USE DEF IInv
  <1>1. UNCHANGED <<flow, past>>
    BY DEF RemoveWorktree
  <1>2. CASE repo.tree
    <2>1. Keeps(c, {"delete_branch"})
      BY <1>2, GoesKeeping DEF RemoveWorktree, Pcs
    <2>2. work'.dirty = {} /\ work'.discarded = work.discarded \cup work.dirty
      BY <1>2 DEF RemoveWorktree, TypeOK, WorkType
    <2>3. Marked
      BY DEF RemoveWorktree, EditInv, Checked
    <2>4. UncommittedWorkSafe'
      BY <1>1, <2>2, <2>3 DEF EditInv, UncommittedWorkSafe, Marked
    <2>5. ~past'.said => Unskipped(cmd'[c]) /\ ~DirtyAlreadySkipped(flow')
      BY <1>1, <2>1 DEF EditInv, Unasked, Keeps
    <2> QED
      BY <1>1, <2>1, <2>2, <2>4, <2>5, EditStep DEF Keeps, Checked
  <1>3. CASE ~repo.tree
    <2>1. Keeps(c, {"idle", "persist"}) /\ UNCHANGED work
      BY <1>3, EndsKeeping DEF RemoveWorktree
    <2> QED
      BY <1>1, <2>1, EditPlace DEF Checked
  <1> QED
    BY <1>2, <1>3

\* The remaining steps discard nothing; what is stored skips no more than the
\* command that stores it.
LEMMA OtherEdits ==
    ASSUME IInv, EditInv, NEW c \in Cmds,
           \/ DeleteBranch(c) \/ Commit(c) \/ Persist(c) \/ Shutdown(c)
           \/ UpdateStatus(c) \/ Rollback(c)
    PROVE  EditInv'
  <1> USE DEF IInv
  <1>1. Keeps(c, {"idle", "persist"}) \/ Keeps(c, {"commit"}) \/ Keeps(c, {"shutdown"})
    <2>1. Return(c) \/ GiveUp(c) \/ Goto(c, "commit") \/ Goto(c, "shutdown")
      BY DEF DeleteBranch, Commit, Persist, Shutdown, UpdateStatus, Rollback
    <2> QED
      BY <2>1, GoesKeeping, EndsKeeping DEF Pcs
  <1>2. /\ work'.dirty = work.dirty /\ work'.discarded = work.discarded
        /\ UNCHANGED past
    BY DEF DeleteBranch, Commit, Persist, Shutdown, UpdateStatus, Rollback,
           TypeOK, WorkType
  <1>3. ~past.said => ~DirtyAlreadySkipped(flow')
    <2>1. CASE Persist(c)
      <3>1. cmd[c].state \in CompletionStates /\ flow' = Persisted(cmd[c].state)
        BY <2>1 DEF Persist, TypeOK, CmdType
      <3>2. SameDirty(flow', cmd[c].state)
        BY <3>1 DEF Persisted, CompletionStates, SameDirty
      <3> QED
        BY <3>2 DEF SameDirty, DirtyAlreadySkipped, EditInv, Unasked, Unskipped
    <2>2. CASE ~Persist(c)
      <3>1. flow' \in {flow, Detecting}
        BY <2>2 DEF DeleteBranch, Commit, Shutdown, UpdateStatus, Rollback
      <3> QED
        BY <3>1, IdleUnskipped DEF EditInv, Unasked
    <2> QED
      BY <2>1, <2>2
  <1>4. UncommittedWorkSafe'
    BY <1>2 DEF EditInv, UncommittedWorkSafe
  <1>5. ~past.said => Unskipped(cmd'[c])
    BY <1>1 DEF EditInv, Unasked, Keeps
  <1> QED
    BY <1>1, <1>2, <1>3, <1>4, <1>5, EditStep DEF Keeps, Checked

LEMMA FailureEdits ==
    ASSUME IInv, EditInv, NEW c \in Cmds, DecideRefused(c) \/ GitFails(c) \/ ReturnsError(c)
    PROVE  EditInv'
  <1>1. /\ Return(c) \/ Block(c) \/ GiveUp(c)
        /\ Disturb
        /\ UNCHANGED <<flow, work>>
    BY DEF DecideRefused, GitFails, ReturnsError
  <1> QED
    BY <1>1, EndsKeeping, EditPlace DEF IInv, Checked

\* The agent and the user: an edit next to a command that has checked is late.
LEMMA EnvironmentEdits ==
    ASSUME IInv, EditInv, Environment
    PROVE  EditInv'
  <1> USE DEF IInv
  <1>1. past \in PastType /\ work \in WorkType
    BY DEF TypeOK
  <1>2. ASSUME NEW e \in Edits, Edit(e)
        PROVE  EditInv'
    <2>1. /\ work'.dirty = work.dirty \cup {e} /\ work'.discarded = work.discarded
          /\ UNCHANGED <<flow, cmd>>
      BY <1>1, <1>2 DEF Edit, WorkType
    <2>2. /\ past'.said = past.said /\ past'.waived = past.waived
          /\ past.lateEdits \subseteq past'.lateEdits
          /\ (\E c \in Cmds : PastRebase(c)) => e \in past'.lateEdits
      BY <1>1, <1>2 DEF Edit, PastType
    <2>3. \A c \in Cmds : cmd[c].pc \in Checked => PastRebase(c)
      BY DEF Checked, PastRebase, Removing
    <2>4. UncommittedWorkSafe' /\ Unasked'
      BY <2>1, <2>2 DEF EditInv, UncommittedWorkSafe, Unasked
    <2>5. \A c \in Cmds : cmd'[c].pc \in Checked => Marked'
      BY <2>1, <2>2, <2>3 DEF EditInv, Marked
    <2> QED
      BY <2>4, <2>5 DEF EditInv
  <1>3. CASE CommitEdits
    <2>1. /\ work'.dirty = {} /\ work'.discarded = work.discarded
          /\ UNCHANGED <<flow, cmd>>
      BY <1>1, <1>3 DEF CommitEdits, WorkType
    <2>2. /\ past'.said = past.said /\ past'.waived = past.waived
          /\ past'.lateEdits = past.lateEdits
      BY <1>1, <1>3 DEF CommitEdits, PastType
    <2> QED
      BY <2>1, <2>2 DEF EditInv, UncommittedWorkSafe, Unasked, Marked
  <1>4. CASE SoilTarget \/ CleanTarget \/ MarkReview \/ SessionExits \/ Crash
    <2>1. /\ UNCHANGED <<flow, work>>
          /\ UNCHANGED cmd \/ cmd' = [c \in Cmds |-> Idle]
          /\ Disturb \/ UNCHANGED past
      BY <1>4 DEF SoilTarget, CleanTarget, MarkReview, SessionExits, Crash
    <2>2. /\ past'.said = past.said /\ past'.waived = past.waived
          /\ past'.lateEdits = past.lateEdits
      BY <1>1, <2>1 DEF Disturb, PastType
    <2> QED
      BY <2>1, <2>2, IdleUnskipped
         DEF EditInv, UncommittedWorkSafe, Unasked, Marked, Checked
  <1> QED
    BY <1>2, <1>3, <1>4 DEF Environment

LEMMA InitEdits == Init => EditInv
  BY IdleUnskipped DEF Init, EditInv, Unasked, UncommittedWorkSafe, Checked

LEMMA NextEdits == IInv /\ EditInv /\ [Next]_vars => EditInv'
  <1> SUFFICES ASSUME IInv, EditInv, [Next]_vars PROVE EditInv'
    OBVIOUS
  <1>1. CASE UNCHANGED vars
    BY <1>1 DEF vars, EditInv, Unasked, UncommittedWorkSafe, Marked
  <1>2. ASSUME NEW c \in Cmds, Step(c)
        PROVE  EditInv'
    BY <1>2, LoadEdits, DecideEdits, EffectEdits, DiscardEdits, RemoveWorktreeEdits,
       OtherEdits DEF Step
  <1>3. ASSUME NEW c \in Cmds, Failure(c)
        PROVE  EditInv'
    BY <1>3, EffectEdits, FailureEdits DEF Failure
  <1> QED
    BY <1>1, <1>2, <1>3, CallsEdits, EnvironmentEdits DEF Next

LEMMA EditInvHolds == Spec => []EditInv
  BY InitEdits, NextEdits, IInvHolds, PTL DEF Spec

\* Unless the user chose to leave them, no uncommitted edit is discarded: for
\* any number of overlapping commands, edits, failures and crashes, what a
\* reset or a worktree removal takes with it was made after a command had
\* found the worktree clean, or given up with the worktree.
THEOREM EditsKept == Spec => []UncommittedWorkSafe
  <1>1. EditInv => UncommittedWorkSafe
    BY DEF EditInv
  <1> QED
    BY <1>1, EditInvHolds, PTL

(***************************************************************************)
(* One command at a time.  Once the issue is completed the row of the flow *)
(* is gone and no command is under way that would write it again.  When    *)
(* the agent has a worktree of its own, a process whose session has ended  *)
(* is left only until the command shuts it down, and a detection, which    *)
(* shuts none down, never gets to the completion.  (Two commands break     *)
(* each of these: one reads the issue, the other completes it.)            *)
(***************************************************************************)
Ended == issue = "completed" => session # "running"

\* The session a command has read is running as long as the session is.
Recent(c) == session = "running" => cmd[c].session = "running"

Watched(c) ==
    Project.isolated /\ live => session = "running" \/ cmd[c].pc = "shutdown"

\* Which steps the kinds of command other than drive get to, and that a
\* detection finds the worktree it looked at until it removes it.
Places(c) ==
    /\ cmd[c].kind \in {"rollback", "to_running", "to_review"} =>
           cmd[c].pc \in {"update", "shutdown"}
    /\ cmd[c].kind = "delete_worktree" => cmd[c].pc \in {"remove_worktree", "delete_branch"}
    /\ cmd[c].kind = "detect" => cmd[c].pc \notin {"update", "shutdown"}
    /\ cmd[c].kind = "detect" /\ Project.isolated =>
           /\ cmd[c].pc # "commit"
           /\ cmd[c].pc \in {"record_commit", "discard", "rebase"} => repo.tree

Cleared(c) ==
    issue = "completed" =>
        /\ flow = Detecting
        /\ \/ cmd[c].pc \in {"idle", "shutdown"}
           \/ cmd[c].pc = "update" /\ cmd[c].kind = "rollback"
           \/ /\ cmd[c].pc \in {"remove_worktree", "delete_branch"}
              /\ cmd[c].kind = "delete_worktree"

SoleInv(c) == Ended /\ Recent(c) /\ Watched(c) /\ Places(c) /\ Cleared(c)

\* Command c gets to one of pcs with what it has read, or is idle.
Continues(c, pcs) ==
    /\ cmd'[c].pc \in pcs
    /\ cmd'[c].session \in {cmd[c].session, "running"}
    /\ cmd'[c].kind = IF cmd'[c].pc = "idle" THEN "drive" ELSE cmd[c].kind

LEMMA GoesOn ==
    ASSUME TypeOK, NEW c \in Cmds, NEW pc \in Pcs \ {"idle"}, Goto(c, pc)
    PROVE  Continues(c, {pc})
  BY DEF TypeOK, CmdType, Goto, Continues

LEMMA ComesBack ==
    ASSUME TypeOK, NEW c \in Cmds, Return(c)
    PROVE  Continues(c, {"idle"})
  <1>1. Idle.pc = "idle" /\ Idle.session = "running" /\ Idle.kind = "drive"
    BY DEF Idle
  <1>2. cmd'[c] = Idle
    BY DEF TypeOK, Return
  <1> QED
    BY <1>1, <1>2 DEF Continues

LEMMA Stops ==
    ASSUME TypeOK, NEW c \in Cmds, Block(c)
    PROVE  Continues(c, {"persist"})
  BY DEF TypeOK, CmdType, Block, Continues

LEMMA Abandons ==
    ASSUME TypeOK, NEW c \in Cmds, GiveUp(c)
    PROVE  \/ Continues(c, {"idle"})
           \/ cmd[c].kind # "delete_worktree" /\ Continues(c, {"persist"})
  <1>1. CASE cmd[c].kind = "delete_worktree"
    BY <1>1, ComesBack DEF GiveUp
  <1>2. CASE cmd[c].kind # "delete_worktree"
    BY <1>2, Stops DEF GiveUp
  <1> QED
    BY <1>1, <1>2

\* A step that leaves the issue, the session, the process and the stored flow
\* alone.
LEMMA SoleQuiet ==
    ASSUME NEW c \in Cmds, SoleInv(c), NEW pcs, Continues(c, pcs),
           UNCHANGED <<issue, session, live, flow>>, cmd[c].pc # "shutdown",
           Places(c)', Cleared(c)'
    PROVE  SoleInv(c)'
  BY DEF SoleInv, Ended, Recent, Watched, Continues

\* Such a step before the worktree is removed: no completed issue is under it.
LEMMA SoleDeciding ==
    ASSUME NEW c \in Cmds, SoleInv(c), NEW pcs, Continues(c, pcs),
           UNCHANGED <<issue, session, live, flow>>,
           cmd[c].pc \notin {"idle", "shutdown", "update", "remove_worktree", "delete_branch"},
           Places(c)'
    PROVE  SoleInv(c)'
  <1>1. Cleared(c)'
    BY DEF SoleInv, Cleared
  <1> QED
    BY <1>1, SoleQuiet

LEMMA SoleDecides ==
    ASSUME IInv, NEW c \in Cmds, SoleInv(c),
           Load(c) \/ DecideDrive(c) \/ DecideDetect(c)
    PROVE  SoleInv(c)'
  <1> USE DEF IInv
  <1>1. /\ UNCHANGED <<issue, session, live, flow, repo>>
        /\ cmd[c] \in CmdType
        /\ cmd[c].pc \in {"load", "decide"}
    BY DEF Load, DecideDrive, DecideDetect, TypeOK
  <1>2. CASE Return(c)
    <2>1. Continues(c, {"idle"})
      BY <1>2, ComesBack
    <2>2. Places(c)'
      BY <2>1 DEF Places, Continues
    <2> QED
      BY <1>1, <2>1, <2>2, SoleDeciding
  <1>3. CASE Load(c) /\ ~Return(c)
    <2> DEFINE state == FoldInput(flow, cmd[c].input)
    <2>1. cmd' = [cmd EXCEPT ![c].pc = "decide", ![c].state = state]
      BY <1>3 DEF Load
    <2> HIDE DEF state
    <2>2. Continues(c, {"decide"}) /\ cmd'[c].pc = "decide"
      BY <1>1, <2>1 DEF TypeOK, CmdType, Continues
    <2>3. Places(c)'
      BY <1>1, <2>2 DEF SoleInv, Places, Continues
    <2> QED
      BY <1>1, <2>2, <2>3, SoleDeciding
  <1>4. CASE DecideDrive(c) /\ ~Return(c)
    <2> DEFINE tr == Advance(cmd[c].state, FlowWorld(c),
                             DeriveEvent(cmd[c].state, cmd[c].input))
    <2>1. cmd[c].kind = "drive" /\ Decided(c, tr, Route(tr))
      BY <1>4 DEF DecideDrive
    <2> HIDE DEF tr
    <2>2. Continues(c, {Route(tr)}) /\ cmd'[c].kind = "drive"
      BY <1>1, <2>1 DEF Decided, TypeOK, CmdType, Continues
    <2>3. Places(c)'
      BY <1>1, <2>2 DEF SoleInv, Places, Continues
    <2> QED
      BY <1>1, <2>2, <2>3, SoleDeciding
  <1>5. CASE DecideDetect(c)
    <2> DEFINE s == cmd[c].state
               w == FlowWorld(c)
               tr == Advance(s, w, CommitDetected)
               r(i) == [cmd[c] EXCEPT !.pc = "record_commit", !.state = tr.state,
                                      !.route = Route(tr), !.head = work.branch,
                                      !.attempt = i]
    <2>1. ASSUME NEW i \in DOMAIN prompts, Commits(i), cmd' = [cmd EXCEPT ![c] = r(i)]
          PROVE  SoleInv(c)'
      <3> HIDE DEF tr
      <3>1. /\ r(i).pc = "record_commit" /\ r(i).kind = cmd[c].kind
            /\ r(i).session = cmd[c].session
        BY <1>1 DEF CmdType
      <3> HIDE DEF r
      <3>2. Continues(c, {"record_commit"}) /\ cmd'[c].pc = "record_commit"
        BY <2>1, <3>1 DEF TypeOK, Continues
      <3>3. Places(c)'
        BY <1>1, <2>1, <3>2 DEF SoleInv, Places, Commits, Continues
      <3> QED
        BY <1>1, <3>2, <3>3, SoleDeciding
    <2>2. CASE \E i \in DOMAIN prompts : Commits(i) /\ cmd' = [cmd EXCEPT ![c] = r(i)]
      <3> HIDE DEF tr, r
      <3> QED
        BY <2>1, <2>2
    <2> DEFINE Kept == SoleInv(c)'
    <2>3. Return(c) => Kept
      BY <1>2
    <2>4. (\E i \in DOMAIN prompts : Commits(i) /\ cmd' = [cmd EXCEPT ![c] = r(i)]) => Kept
      <3> HIDE DEF tr, r
      <3> QED
        BY <2>2
    <2> HIDE DEF Kept
    <2>5. Kept
      BY <1>5, <2>3, <2>4, ZenonT(60) DEF DecideDetect
    <2> QED
      BY <2>5 DEF Kept
  <1> QED
    BY <1>2, <1>3, <1>4, <1>5

\* A detection records the commit while the worktree is there, and no step of
\* its effects but the last of them removes it.
LEMMA SoleEffects ==
    ASSUME IInv, NEW c \in Cmds, SoleInv(c),
           \/ Inject(c) \/ RecordPrompt(c) \/ RecordCommit(c)
           \/ Publish(c) \/ PublishFails(c)
           \/ Discard(c) \/ Rebase(c) \/ FastForward(c)
    PROVE  SoleInv(c)'
  <1> USE DEF IInv
  <1> DEFINE from == cmd[c].pc
  <1>1. /\ UNCHANGED <<issue, session, live, flow, repo>>
        /\ from \notin {"idle", "shutdown", "update", "remove_worktree", "delete_branch"}
    BY DEF Inject, RecordPrompt, RecordCommit, Publish, PublishFails, Discard, Rebase,
           FastForward
  <1>2. PICK pc \in {"record_prompt", "persist", "commit", "rebase", "fast_forward",
                     "remove_worktree", "publish", "inject", "discard"} :
          /\ Continues(c, {pc})
          /\ pc \in {"discard", "rebase"} => from \in {"record_commit", "discard"}
          /\ pc = "commit" => \/ from = "publish" /\ cmd[c].kind = "drive"
                              \/ from = "rebase" /\ ~repo.tree
                              \/ ~Project.isolated
    <2>1. CASE Inject(c) \/ RecordPrompt(c)
      <3>1. Continues(c, {"record_prompt"}) \/ Continues(c, {"persist"})
        BY <2>1, GoesOn DEF Inject, RecordPrompt, Pcs
      <3> QED
        BY <3>1
    <2>2. CASE RecordCommit(c)
      <3>1. /\ cmd[c].route \in {"persist", "commit", "publish", "inject", "discard", "rebase"}
            /\ cmd[c].route = "commit" => ~Project.isolated
        BY <2>2 DEF RecordCommit, TypeOK, CmdType, Shape, CmdShape
      <3>2. Continues(c, {cmd[c].route})
        BY <2>2, <3>1, GoesOn DEF RecordCommit, Pcs
      <3> QED
        BY <2>2, <3>1, <3>2 DEF RecordCommit
    <2>3. CASE Publish(c)
      <3>1. Continues(c, {"commit"})
        BY <2>3, GoesOn DEF Publish, Pcs
      <3> QED
        BY <2>3, <3>1 DEF Publish
    <2>4. CASE PublishFails(c)
      BY <2>4, Stops DEF PublishFails
    <2>5. CASE Discard(c)
      <3>1. Continues(c, {"rebase"})
        BY <2>5, GoesOn DEF Discard, Pcs
      <3> QED
        BY <2>5, <3>1 DEF Discard
    <2>6. CASE Rebase(c)
      <3>1. \/ Continues(c, {"commit"}) /\ ~repo.tree
            \/ Continues(c, {"fast_forward"})
            \/ Continues(c, {"persist"})
        <4>1. CASE ~repo.tree
          BY <2>6, <4>1, GoesOn DEF Rebase, Pcs
        <4>2. CASE repo.tree /\ TargetClean(c) /\ work.dirty = {}
          BY <2>6, <4>2, GoesOn DEF Rebase, Pcs
        <4>3. CASE repo.tree /\ ~(TargetClean(c) /\ work.dirty = {})
          BY <2>6, <4>3, Stops DEF Rebase
        <4> QED
          BY <4>1, <4>2, <4>3
      <3> QED
        BY <2>6, <3>1 DEF Rebase
    <2>7. CASE FastForward(c)
      <3>1. Continues(c, {"remove_worktree"}) \/ Continues(c, {"persist"})
        BY <2>7, GoesOn, Stops DEF FastForward, Pcs
      <3> QED
        BY <3>1
    <2> QED
      BY <2>1, <2>2, <2>3, <2>4, <2>5, <2>6, <2>7
  <1>3. Places(c)'
    BY <1>1, <1>2 DEF SoleInv, Places, Continues
  <1> QED
    BY <1>1, <1>2, <1>3, SoleDeciding

\* The removal of the worktree and of the branch.
LEMMA SoleRemoves ==
    ASSUME IInv, NEW c \in Cmds, SoleInv(c), RemoveWorktree(c) \/ DeleteBranch(c)
    PROVE  SoleInv(c)'
  <1> USE DEF IInv
  <1>1. /\ UNCHANGED <<issue, session, live, flow>>
        /\ cmd[c].pc \in {"remove_worktree", "delete_branch"}
    BY DEF RemoveWorktree, DeleteBranch
  <1>2. PICK pc \in {"idle", "persist", "delete_branch", "commit"} :
          /\ Continues(c, {pc})
          /\ pc \in {"persist", "commit"} => cmd[c].kind # "delete_worktree"
          /\ pc = "commit" => cmd[c].kind # "detect"
    <2>1. CASE GiveUp(c)
      <3>1. \/ Continues(c, {"idle"})
            \/ cmd[c].kind # "delete_worktree" /\ Continues(c, {"persist"})
        BY <2>1, Abandons
      <3> QED
        BY <3>1
    <2>2. CASE RemoveWorktree(c) /\ ~GiveUp(c)
      <3>1. Goto(c, "delete_branch")
        BY <2>2 DEF RemoveWorktree
      <3>2. Continues(c, {"delete_branch"})
        BY <3>1, GoesOn DEF Pcs
      <3> QED
        BY <3>2
    <2>3. CASE DeleteBranch(c) /\ ~GiveUp(c)
      <3>1. /\ cmd[c].kind # "detect"
            /\ Return(c) \/ (cmd[c].kind # "delete_worktree" /\ Goto(c, "commit"))
        BY <2>3 DEF DeleteBranch
      <3>2. \/ Continues(c, {"idle"})
            \/ cmd[c].kind # "delete_worktree" /\ Continues(c, {"commit"})
        BY <3>1, GoesOn, ComesBack DEF Pcs
      <3> QED
        BY <3>1, <3>2
    <2> QED
      BY <2>1, <2>2, <2>3
  <1>3. cmd'[c].pc = pc /\ cmd'[c].kind = (IF pc = "idle" THEN "drive" ELSE cmd[c].kind)
    BY <1>2 DEF Continues
  <1>4. Places(c)'
    BY <1>1, <1>2, <1>3 DEF SoleInv, Places
  <1>5. Cleared(c)'
    BY <1>1, <1>2, <1>3 DEF SoleInv, Cleared
  <1> QED
    BY <1>1, <1>2, <1>4, <1>5, SoleQuiet

\* The completion ends a session that runs, and drive goes on to shut its
\* process down.
LEMMA SoleCommits ==
    ASSUME IInv, NEW c \in Cmds, SoleInv(c), Commit(c)
    PROVE  SoleInv(c)'
  <1> USE DEF IInv
  <1>1. /\ cmd[c].pc = "commit" /\ UNCHANGED <<live, repo>> /\ issue # "completed"
        /\ cmd[c].kind \in {"drive", "detect"}
        /\ Project.isolated => cmd[c].kind = "drive" /\ (live => session = "running")
        /\ session = "running" => cmd[c].session = "running"
    BY DEF Commit, SoleInv, Watched, Places, Recent, Cleared, TypeOK, CmdType, Kinds
  <1>2. CASE Guarded(c) => issue = "review" /\ session # "deleted"
    <2>1. /\ issue' = "completed" /\ flow' = Detecting
          /\ session' = IF session = "running" THEN "closed" ELSE session
          /\ IF cmd[c].kind = "drive" /\ session' = "closed"
             THEN Goto(c, "shutdown") ELSE Return(c)
      BY <1>1, <1>2 DEF Commit
    <2>2. session' # "running" /\ (Project.isolated /\ live' => session' = "closed")
      BY <1>1, <2>1
    <2>3. Continues(c, IF cmd[c].kind = "drive" /\ session' = "closed"
                       THEN {"shutdown"} ELSE {"idle"})
      <3>1. CASE cmd[c].kind = "drive" /\ session' = "closed"
        BY <2>1, <3>1, GoesOn DEF Pcs
      <3>2. CASE ~(cmd[c].kind = "drive" /\ session' = "closed")
        BY <2>1, <3>2, ComesBack
      <3> QED
        BY <3>1, <3>2
    <2>4. Places(c)' /\ Cleared(c)' /\ Watched(c)'
      BY <1>1, <2>1, <2>2, <2>3 DEF Places, Cleared, Watched, Continues
    <2> QED
      BY <2>2, <2>4 DEF SoleInv, Ended, Recent
  <1>3. CASE ~(Guarded(c) => issue = "review" /\ session # "deleted")
    <2>1. Return(c) /\ UNCHANGED <<issue, session, flow>>
      BY <1>3 DEF Commit
    <2>2. Continues(c, {"idle"})
      BY <2>1, ComesBack
    <2>3. Places(c)'
      BY <2>2 DEF Places, Continues
    <2> QED
      BY <1>1, <2>1, <2>2, <2>3, SoleDeciding
  <1> QED
    BY <1>2, <1>3

\* The process is shut down, the flow stored, the status written.
LEMMA SoleFinishes ==
    ASSUME IInv, NEW c \in Cmds, SoleInv(c),
           Shutdown(c) \/ Persist(c) \/ UpdateStatus(c) \/ Rollback(c)
    PROVE  SoleInv(c)'
  <1> USE DEF IInv
  <1>1. CASE Shutdown(c)
    <2>1. Continues(c, {"idle"})
      BY <1>1, ComesBack DEF Shutdown
    <2>2. live' = FALSE /\ UNCHANGED <<issue, session, flow, repo>>
      BY <1>1 DEF Shutdown
    <2> QED
      BY <2>1, <2>2 DEF SoleInv, Ended, Recent, Watched, Places, Cleared, Continues
  <1>2. CASE Persist(c)
    <2>1. Continues(c, {"idle"})
      BY <1>2, ComesBack DEF Persist
    <2>2. cmd[c].pc = "persist" /\ UNCHANGED <<issue, session, live, repo>>
      BY <1>2 DEF Persist
    <2>3. issue # "completed"
      BY <2>2 DEF SoleInv, Cleared
    <2> QED
      BY <2>1, <2>2, <2>3 DEF SoleInv, Ended, Recent, Watched, Places, Cleared, Continues
  <1>3. CASE UpdateStatus(c)
    <2>1. /\ cmd[c].pc = "update" /\ cmd[c].kind \in {"to_running", "to_review"}
          /\ UNCHANGED <<session, live, flow, repo>>
          /\ Return(c) \/ Goto(c, "shutdown")
      BY <1>3 DEF UpdateStatus
    <2>2. Continues(c, {"idle"}) \/ Continues(c, {"shutdown"})
      BY <2>1, GoesOn, ComesBack DEF Pcs
    <2>3. issue # "completed"
      BY <2>1 DEF SoleInv, Cleared
    <2>4. issue' # "completed"
      <3>1. Target(cmd[c].kind) # "completed"
        BY <2>1 DEF Target
      <3> QED
        BY <1>3, <2>3, <3>1 DEF UpdateStatus
    <2> QED
      BY <2>1, <2>2, <2>4 DEF SoleInv, Ended, Recent, Watched, Places, Cleared, Continues
  <1>4. CASE Rollback(c)
    <2>1. /\ cmd[c].pc = "update" /\ cmd[c].kind = "rollback"
          /\ UNCHANGED <<live, flow, repo>>
          /\ Project.isolated /\ live => session = "running" /\ cmd[c].session = "running"
      BY <1>4 DEF Rollback, SoleInv, Watched, Recent
    <2>2. \/ /\ issue' = "backlog" /\ (Project.isolated => ~live)
             /\ session' \in {session, "deleted"} /\ Return(c)
          \/ issue' = "backlog" /\ session' = "deleted" /\ Goto(c, "shutdown")
          \/ UNCHANGED <<issue, session>> /\ Return(c)
      BY <1>4, <2>1 DEF Rollback
    <2>3. /\ Return(c) => Continues(c, {"idle"})
          /\ Goto(c, "shutdown") => Continues(c, {"shutdown"})
      BY GoesOn, ComesBack DEF Pcs
    <2>4. \/ /\ issue' = "backlog" /\ (Project.isolated => ~live)
             /\ session' \in {session, "deleted"} /\ Continues(c, {"idle"})
          \/ issue' = "backlog" /\ session' = "deleted" /\ Continues(c, {"shutdown"})
          \/ UNCHANGED <<issue, session>> /\ Continues(c, {"idle"})
      BY <2>2, <2>3
    <2>5. Ended' /\ Recent(c)' /\ Cleared(c)'
      BY <2>1, <2>4 DEF SoleInv, Ended, Recent, Cleared, Continues
    <2>6. Watched(c)' /\ Places(c)'
      BY <2>1, <2>4 DEF SoleInv, Watched, Places, Continues
    <2> QED
      BY <2>5, <2>6 DEF SoleInv
  <1> QED
    BY <1>1, <1>2, <1>3, <1>4

\* A step that fails ends the command, or its effects before the completion.
LEMMA SoleFails ==
    ASSUME IInv, NEW c \in Cmds, SoleInv(c), DecideRefused(c) \/ GitFails(c) \/ ReturnsError(c)
    PROVE  SoleInv(c)'
  <1> USE DEF IInv
  <1>1. /\ UNCHANGED <<issue, session, live, flow, repo>>
        /\ cmd[c].pc \notin {"idle", "shutdown"}
    BY DEF DecideRefused, GitFails, ReturnsError
  <1>2. \/ Return(c)
        \/ cmd[c].pc \in {"discard", "rebase", "fast_forward"} /\ Block(c)
        \/ cmd[c].pc \in {"remove_worktree", "delete_branch"} /\ GiveUp(c)
    BY DEF DecideRefused, GitFails, ReturnsError
  <1>3. PICK pc \in {"idle", "persist"} :
          /\ Continues(c, {pc})
          /\ pc = "persist" => /\ cmd[c].kind # "delete_worktree"
                               /\ cmd[c].pc # "update"
    <2>1. CASE Return(c)
      <3>1. Continues(c, {"idle"})
        BY <2>1, ComesBack
      <3> QED
        BY <3>1
    <2>2. CASE cmd[c].pc \in {"discard", "rebase", "fast_forward"} /\ Block(c)
      <3>1. Continues(c, {"persist"})
        BY <2>2, Stops
      <3> QED
        BY <2>2, <3>1 DEF SoleInv, Places
    <2>3. CASE cmd[c].pc \in {"remove_worktree", "delete_branch"} /\ GiveUp(c)
      <3>1. \/ Continues(c, {"idle"})
            \/ cmd[c].kind # "delete_worktree" /\ Continues(c, {"persist"})
        BY <2>3, Abandons
      <3> QED
        BY <2>3, <3>1
    <2> QED
      BY <1>2, <2>1, <2>2, <2>3
  <1>4. cmd'[c].pc = pc /\ cmd'[c].kind = (IF pc = "idle" THEN "drive" ELSE cmd[c].kind)
    BY <1>3 DEF Continues
  <1>5. pc = "persist" => cmd[c].kind \notin {"rollback", "to_running", "to_review"}
    BY <1>1, <1>3 DEF SoleInv, Places
  <1>6. Places(c)'
    BY <1>3, <1>4, <1>5 DEF Places
  <1>7. Cleared(c)'
    BY <1>1, <1>3, <1>4 DEF SoleInv, Cleared
  <1> QED
    BY <1>1, <1>3, <1>6, <1>7, SoleQuiet

\* A completed issue is left to a return to the backlog and to the deletion of
\* the worktree.
LEMMA SoleCalls ==
    ASSUME IInv, NEW c \in Cmds, SoleInv(c), Calls(c)
    PROVE  SoleInv(c)'
  <1> USE DEF IInv
  <1>1. /\ UNCHANGED <<issue, session, live, flow, repo>>
        /\ cmd[c].pc = "idle"
    BY DEF Calls, Drive, Detect, Advances, DeleteWorktree, Enter
  <1>2. ASSUME NEW kind \in Kinds, NEW in, NEW pc, Enter(c, kind, in, pc)
        PROVE  cmd'[c].pc = pc /\ cmd'[c].kind = kind /\ cmd'[c].session = session
    <2> DEFINE r == [Idle EXCEPT !.pc = pc, !.kind = kind, !.input = in,
                                 !.issue = issue, !.session = session]
    <2>1. cmd' = [cmd EXCEPT ![c] = r]
      BY <1>2 DEF Enter
    <2>2. r.pc = pc /\ r.kind = kind /\ r.session = session
      BY DEF Idle
    <2> HIDE DEF r
    <2> QED
      BY <2>1, <2>2 DEF TypeOK
  <1>3. /\ cmd'[c].session = session
        /\ \/ cmd'[c].pc = "load" /\ cmd'[c].kind \in {"drive", "detect"} /\ issue # "completed"
           \/ /\ cmd'[c].pc = "update" /\ cmd'[c].kind \in {"rollback", "to_running", "to_review"}
              /\ issue = "completed" => cmd'[c].kind = "rollback"
           \/ cmd'[c].pc = "remove_worktree" /\ cmd'[c].kind = "delete_worktree"
    <2>1. ASSUME NEW in \in Requests, Drive(c, in)
          PROVE  /\ cmd'[c].session = session /\ issue # "completed"
                 /\ cmd'[c].pc = "load" /\ cmd'[c].kind = "drive"
      BY <1>2, <2>1 DEF Drive, Kinds
    <2>2. CASE Detect(c)
      <3>1. flow # Detecting
        BY <2>2 DEF Detect, Detecting
      <3>2. issue # "completed"
        BY <3>1 DEF SoleInv, Cleared
      <3>3. /\ cmd'[c].session = session
            /\ cmd'[c].pc = "load" /\ cmd'[c].kind = "detect"
        BY <1>2, <2>2 DEF Detect, Kinds
      <3> QED
        BY <3>2, <3>3
    <2>3. ASSUME NEW kind \in {"rollback", "to_running", "to_review"}, Advances(c, kind)
          PROVE  /\ cmd'[c].session = session
                 /\ cmd'[c].pc = "update" /\ cmd'[c].kind = kind
                 /\ issue = "completed" => kind = "rollback"
      BY <1>2, <2>3 DEF Advances, Kinds
    <2>4. CASE DeleteWorktree(c)
      BY <1>2, <2>4 DEF DeleteWorktree, Kinds
    <2> QED
      BY <2>1, <2>2, <2>3, <2>4 DEF Calls
  <1>4. Ended' /\ Recent(c)' /\ Watched(c)'
    BY <1>1, <1>3 DEF SoleInv, Ended, Recent, Watched
  <1>5. Places(c)' /\ Cleared(c)'
    BY <1>1, <1>3 DEF SoleInv, Places, Cleared
  <1> QED
    BY <1>4, <1>5 DEF SoleInv

\* Nothing around the command starts a session or a process again.
LEMMA SoleEnvironment ==
    ASSUME IInv, NEW c \in Cmds, SoleInv(c), Environment
    PROVE  SoleInv(c)'
  <1>1. /\ UNCHANGED flow /\ repo'.tree = repo.tree
        /\ issue' = issue \/ issue' = "review"
    BY DEF Environment, Edit, CommitEdits, SoilTarget, CleanTarget, MarkReview,
           SessionExits, Crash, IInv, TypeOK
  <1>2. CASE ~Crash
    <2>1. /\ UNCHANGED cmd
          /\ \/ UNCHANGED <<live, session>>
             \/ ~live' /\ session' = IF session = "running" THEN "stopped" ELSE session
      BY <1>2 DEF Environment, Edit, CommitEdits, SoilTarget, CleanTarget, MarkReview,
                  SessionExits
    <2> QED
      BY <1>1, <2>1 DEF SoleInv, Ended, Recent, Watched, Places, Cleared
  <1>3. CASE Crash
    <2>1. /\ cmd'[c] = Idle /\ ~live' /\ UNCHANGED issue
          /\ session' = IF session = "running" THEN "stopped" ELSE session
      BY <1>3 DEF Crash
    <2>2. Idle.pc = "idle" /\ Idle.kind = "drive" /\ Idle.session = "running"
      BY DEF Idle
    <2> QED
      BY <1>1, <2>1, <2>2 DEF SoleInv, Ended, Recent, Watched, Places, Cleared
  <1> QED
    BY <1>2, <1>3

LEMMA SoleInit ==
    ASSUME NEW c \in Cmds, Init
    PROVE  SoleInv(c)
  <1>1. Idle.pc = "idle" /\ Idle.kind = "drive" /\ Idle.session = "running"
    BY DEF Idle
  <1> QED
    BY <1>1 DEF Init, SoleInv, Ended, Recent, Watched, Places, Cleared

LEMMA SoleNext ==
    ASSUME NEW c \in Cmds, Cmds = {c}, IInv, SoleInv(c), [Next]_vars
    PROVE  SoleInv(c)'
  <1>1. CASE UNCHANGED vars
    BY <1>1 DEF vars, SoleInv, Ended, Recent, Watched, Places, Cleared
  <1>2. CASE Step(c)
    BY <1>2, SoleDecides, SoleEffects, SoleRemoves, SoleCommits, SoleFinishes DEF Step
  <1>3. CASE Failure(c)
    BY <1>3, SoleEffects, SoleFails DEF Failure
  <1>4. CASE Next
    <2>1. Calls(c) \/ Step(c) \/ Failure(c) \/ Environment
      BY <1>4 DEF Next
    <2> QED
      BY <1>2, <1>3, <2>1, SoleCalls, SoleEnvironment
  <1> QED
    BY <1>1, <1>4

\* With one command at a time, and a worktree of its own, completing an issue
\* ends its agent: whatever failed on the way, no process is left in the
\* registry once the command is over.
THEOREM AgentEnded ==
    ASSUME NEW c, Cmds = {c}, Project.isolated
    PROVE  Spec => []AgentEndsWithIssue
  <1>1. Init => SoleInv(c)
    BY SoleInit
  <1>2. IInv /\ SoleInv(c) /\ [Next]_vars => SoleInv(c)'
    BY SoleNext
  <1>3. SoleInv(c) => AgentEndsWithIssue
    BY DEF SoleInv, Ended, Watched, AgentEndsWithIssue, AllIdle
  <1> QED
    BY <1>1, <1>2, <1>3, IInvHolds, PTL DEF Spec

\* With one command at a time, no half-way flow is left for a completed issue:
\* a later completion starts from no answers.
THEOREM RowCleared ==
    ASSUME NEW c, Cmds = {c}
    PROVE  Spec => []RowClearedWhenCompleted
  <1>1. Init => SoleInv(c)
    BY SoleInit
  <1>2. IInv /\ SoleInv(c) /\ [Next]_vars => SoleInv(c)'
    BY SoleNext
  <1>3. SoleInv(c) => RowClearedWhenCompleted
    BY DEF SoleInv, Cleared, RowClearedWhenCompleted
  <1> QED
    BY <1>1, <1>2, <1>3, IInvHolds, PTL DEF Spec

(***************************************************************************)
(* One step on the board.  The session a command completes is still there, *)
(* what a return to the backlog found is too, and an issue in the backlog  *)
(* has no session.                                                         *)
(***************************************************************************)
Assigned(c) ==
    /\ cmd[c].kind \in {"drive", "detect"} /\ cmd[c].pc \notin {"idle", "shutdown"} =>
           session # "deleted"
    /\ cmd[c].session = "deleted" => session = "deleted"
    /\ cmd[c].kind = "rollback" /\ cmd[c].pc = "update" => issue # "backlog"
    /\ session # "deleted" => issue # "backlog"

Later == Pcs \ {"load", "update"}

\* No step of a command takes it back to where it entered.
LEMMA Proceeds ==
    ASSUME IInv, NEW c \in Cmds, Step(c) \/ Failure(c)
    PROVE  Continues(c, Later)
  <1> USE DEF IInv
  <1>1. ASSUME NEW pc \in Later \ {"idle"}, Goto(c, pc)
        PROVE  Continues(c, Later)
    <2>1. Continues(c, {pc})
      BY <1>1, GoesOn DEF Later
    <2> QED
      BY <2>1 DEF Continues
  <1>2. Return(c) => Continues(c, Later)
    <2> SUFFICES ASSUME Return(c)
                 PROVE  Continues(c, Later)
      OBVIOUS
    <2>1. Continues(c, {"idle"})
      BY ComesBack
    <2> QED
      BY <2>1 DEF Continues, Later, Pcs
  <1>3. Block(c) => Continues(c, Later)
    <2> SUFFICES ASSUME Block(c)
                 PROVE  Continues(c, Later)
      OBVIOUS
    <2>1. Continues(c, {"persist"})
      BY Stops
    <2> QED
      BY <2>1 DEF Continues, Later, Pcs
  <1>4. GiveUp(c) => Continues(c, Later)
    BY <1>2, <1>3 DEF GiveUp
  <1>5. CASE Load(c) \/ DecideDrive(c) \/ DecideDetect(c)
    <2>1. cmd[c] \in CmdType /\ cmd[c].pc \in {"load", "decide"}
      BY <1>5 DEF Load, DecideDrive, DecideDetect, TypeOK
    <2>2. ASSUME NEW r, cmd' = [cmd EXCEPT ![c] = r], r.pc \in Later \ {"idle"},
                 r.session = cmd[c].session, r.kind = cmd[c].kind
          PROVE  Continues(c, Later)
      BY <2>2 DEF TypeOK, Continues
    <2>3. CASE Load(c)
      <3> DEFINE state == FoldInput(flow, cmd[c].input)
                 r == [cmd[c] EXCEPT !.pc = "decide", !.state = state]
      <3>1. Return(c) \/ cmd' = [cmd EXCEPT ![c] = r]
        BY <2>3 DEF Load
      <3> HIDE DEF state
      <3>2. r.pc = "decide" /\ r.session = cmd[c].session /\ r.kind = cmd[c].kind
        BY <2>1 DEF CmdType
      <3> HIDE DEF r
      <3> QED
        BY <1>2, <2>2, <3>1, <3>2 DEF Later, Pcs
    <2>4. CASE DecideDrive(c)
      <3> DEFINE tr == Advance(cmd[c].state, FlowWorld(c),
                               DeriveEvent(cmd[c].state, cmd[c].input))
                 r == [cmd[c] EXCEPT !.pc = Route(tr), !.state = tr.state,
                                     !.route = Route(tr), !.head = work.branch]
      <3>1. Return(c) \/ cmd' = [cmd EXCEPT ![c] = r]
        BY <2>4 DEF DecideDrive, Decided
      <3> HIDE DEF tr
      <3>2. Route(tr) \in {"inject", "publish", "discard", "rebase", "commit", "persist"}
        BY DEF Route
      <3>3. r.pc = Route(tr) /\ r.session = cmd[c].session /\ r.kind = cmd[c].kind
        BY <2>1 DEF CmdType
      <3> HIDE DEF r
      <3> QED
        BY <1>2, <2>2, <3>1, <3>2, <3>3 DEF Later, Pcs
    <2>5. CASE DecideDetect(c)
      <3> DEFINE tr == Advance(cmd[c].state, FlowWorld(c), CommitDetected)
                 r(i) == [cmd[c] EXCEPT !.pc = "record_commit", !.state = tr.state,
                                        !.route = Route(tr), !.head = work.branch,
                                        !.attempt = i]
      <3>1. Return(c) \/ \E i \in DOMAIN prompts : cmd' = [cmd EXCEPT ![c] = r(i)]
        BY <2>5, ZenonT(60) DEF DecideDetect
      <3> HIDE DEF tr
      <3>2. ASSUME NEW i
            PROVE  /\ r(i).pc = "record_commit" /\ r(i).session = cmd[c].session
                   /\ r(i).kind = cmd[c].kind
        BY <2>1 DEF CmdType
      <3> HIDE DEF r
      <3> QED
        BY <1>2, <2>2, <3>1, <3>2 DEF Later, Pcs
    <2> QED
      BY <1>5, <2>3, <2>4, <2>5
  <1>6. CASE Inject(c) \/ RecordPrompt(c) \/ RecordCommit(c) \/ Publish(c) \/ PublishFails(c)
    <2>1. RecordCommit(c) => cmd[c].route \in Later \ {"idle"}
      BY DEF RecordCommit, TypeOK, CmdType, Later, Pcs
    <2> QED
      BY <1>1, <1>3, <1>6, <2>1
      DEF Inject, RecordPrompt, RecordCommit, Publish, PublishFails, Later, Pcs
  <1>7. CASE Discard(c) \/ Rebase(c) \/ FastForward(c) \/ RemoveWorktree(c) \/ DeleteBranch(c)
    BY <1>1, <1>2, <1>3, <1>4, <1>7
    DEF Discard, Rebase, FastForward, RemoveWorktree, DeleteBranch, Later, Pcs
  <1>8. CASE Commit(c) \/ Persist(c) \/ Shutdown(c) \/ UpdateStatus(c) \/ Rollback(c)
    <2>1. Return(c) \/ Goto(c, "shutdown")
      BY <1>8 DEF Commit, Persist, Shutdown, UpdateStatus, Rollback
    <2> QED
      BY <1>1, <1>2, <2>1 DEF Later, Pcs
  <1>9. CASE DecideRefused(c) \/ GitFails(c) \/ ReturnsError(c)
    BY <1>2, <1>3, <1>4, <1>9 DEF DecideRefused, GitFails, ReturnsError
  <1> QED
    BY <1>5, <1>6, <1>7, <1>8, <1>9 DEF Step, Failure

\* The steps of a command that write the issue or its session.
LEMMA OnlyTheseWrite ==
    ASSUME NEW c \in Cmds, Step(c) \/ Failure(c)
    PROVE  \/ Commit(c) \/ UpdateStatus(c) \/ Rollback(c)
           \/ UNCHANGED <<issue, session>> /\ cmd[c].pc # "idle"
  <1>1. CASE Step(c)
    BY <1>1 DEF Step, Load, DecideDrive, DecideDetect, Inject, RecordPrompt, RecordCommit,
                Publish, Discard, Rebase, FastForward, RemoveWorktree, DeleteBranch,
                Persist, Shutdown
  <1>2. CASE Failure(c)
    BY <1>2 DEF Failure, DecideRefused, PublishFails, GitFails, ReturnsError
  <1> QED
    BY <1>1, <1>2

\* What each of them does, by what the command has read and what is there.
LEMMA Writes ==
    ASSUME IInv, NEW c \in Cmds, SoleInv(c), Assigned(c),
           Commit(c) \/ UpdateStatus(c) \/ Rollback(c)
    PROVE  \/ /\ issue \in {"running", "review"} /\ issue' = "completed"
              /\ session # "deleted"
              /\ session' = IF session = "running" THEN "closed" ELSE session
           \/ /\ issue # "completed" /\ issue' \in {"running", "review"}
              /\ UNCHANGED session
           \/ issue # "backlog" /\ issue' = "backlog" /\ session' = "deleted"
           \/ UNCHANGED <<issue, session>>
  <1>1. CASE Commit(c)
    <2>1. /\ cmd[c].pc = "commit" /\ cmd[c].kind \in {"drive", "detect"}
          /\ issue # "completed"
          /\ session = "running" => cmd[c].session = "running"
      BY <1>1 DEF Commit, SoleInv, Places, Recent, Cleared, IInv, TypeOK, CmdType, Kinds
    <2>2. session # "deleted" /\ issue \in {"running", "review"}
      BY <2>1 DEF Assigned, IInv, TypeOK, IssueStatuses
    <2> QED
      BY <1>1, <2>1, <2>2 DEF Commit
  <1>2. CASE UpdateStatus(c)
    <2>1. /\ cmd[c].kind \in {"to_running", "to_review"} /\ issue # "completed"
          /\ UNCHANGED session
          /\ UNCHANGED issue \/ issue' = Target(cmd[c].kind)
      BY <1>2 DEF UpdateStatus, SoleInv, Cleared
    <2>2. Target(cmd[c].kind) \in {"running", "review"}
      BY <2>1 DEF Target
    <2> QED
      BY <2>1, <2>2
  <1>3. CASE Rollback(c)
    <2>1. issue # "backlog" /\ (cmd[c].session = "deleted" => session = "deleted")
      BY <1>3 DEF Rollback, Assigned
    <2> QED
      BY <1>3, <2>1 DEF Rollback
  <1> QED
    BY <1>1, <1>2, <1>3

LEMMA AssignedByCommand ==
    ASSUME IInv, NEW c \in Cmds, SoleInv(c), Assigned(c), Step(c) \/ Failure(c)
    PROVE  Assigned(c)'
  <1>1. Continues(c, Later)
    BY Proceeds
  <1>2. /\ cmd'[c].pc \notin {"load", "update"}
        /\ cmd'[c].session \in {cmd[c].session, "running"}
        /\ cmd'[c].kind = IF cmd'[c].pc = "idle" THEN "drive" ELSE cmd[c].kind
    BY <1>1 DEF Continues, Later
  <1>3. CASE UNCHANGED <<issue, session>> /\ cmd[c].pc \notin {"idle", "shutdown"}
    BY <1>2, <1>3 DEF Assigned
  <1>4. CASE cmd[c].pc = "shutdown"
    <2>1. Shutdown(c)
      BY <1>4 DEF Step, Failure, Load, DecideDrive, DecideDetect, Inject, RecordPrompt,
                  RecordCommit, Publish, Discard, Rebase, FastForward, RemoveWorktree,
                  DeleteBranch, Commit, Persist, UpdateStatus, Rollback, DecideRefused,
                  PublishFails, GitFails, ReturnsError
    <2>2. Continues(c, {"idle"}) /\ UNCHANGED <<issue, session>>
      BY <2>1, ComesBack DEF Shutdown, IInv
    <2> QED
      BY <1>2, <2>2 DEF Assigned, Continues
  <1>5. CASE Commit(c)
    <2>1. cmd[c].pc = "commit" /\ cmd[c].kind \in {"drive", "detect"}
      BY <1>5 DEF Commit, SoleInv, Places, IInv, TypeOK, CmdType, Kinds
    <2>2. session # "deleted" /\ cmd[c].session # "deleted"
      BY <2>1 DEF Assigned
    <2>3. session' # "deleted" /\ (issue' = "completed" \/ UNCHANGED <<issue, session>>)
      BY <1>5, <2>2 DEF Commit
    <2> QED
      BY <1>2, <2>2, <2>3 DEF Assigned
  <1>6. CASE UpdateStatus(c) \/ Rollback(c)
    <2>1. /\ cmd[c].kind \notin {"drive", "detect"} /\ cmd[c].pc = "update"
          /\ cmd'[c].pc \in {"idle", "shutdown"}
      <3>1. Return(c) \/ Goto(c, "shutdown")
        BY <1>6 DEF UpdateStatus, Rollback
      <3>2. Continues(c, {"idle"}) \/ Continues(c, {"shutdown"})
        BY <3>1, GoesOn, ComesBack DEF IInv, Pcs
      <3> QED
        BY <1>6, <3>2 DEF UpdateStatus, Rollback, Continues
    <2>2. /\ session = "deleted" => session' = "deleted"
          /\ session' # "deleted" => issue' # "backlog"
      BY <1>6, Writes DEF Assigned
    <2> QED
      BY <1>2, <2>1, <2>2 DEF Assigned
  <1> QED
    BY <1>3, <1>4, <1>5, <1>6, OnlyTheseWrite

LEMMA AssignedByCall ==
    ASSUME IInv, NEW c \in Cmds, Assigned(c), Calls(c)
    PROVE  Assigned(c)' /\ UNCHANGED <<issue, session>>
  <1>1. UNCHANGED <<issue, session>>
    BY DEF Calls, Drive, Detect, Advances, DeleteWorktree
  <1>2. ASSUME NEW kind \in Kinds, NEW in, NEW pc, Enter(c, kind, in, pc)
        PROVE  cmd'[c].pc = pc /\ cmd'[c].kind = kind /\ cmd'[c].session = session
    <2> DEFINE r == [Idle EXCEPT !.pc = pc, !.kind = kind, !.input = in,
                                 !.issue = issue, !.session = session]
    <2>1. cmd' = [cmd EXCEPT ![c] = r]
      BY <1>2 DEF Enter
    <2>2. r.pc = pc /\ r.kind = kind /\ r.session = session
      BY DEF Idle
    <2> HIDE DEF r
    <2> QED
      BY <2>1, <2>2 DEF IInv, TypeOK
  <1> DEFINE Entered == /\ cmd'[c].session = session
                        /\ cmd'[c].kind \in {"drive", "detect"} => session # "deleted"
                        /\ cmd'[c].kind = "rollback" => issue # "backlog"
  <1>3. Entered
    <2>1. ASSUME NEW in \in Requests, Drive(c, in)
          PROVE  Entered
      BY <1>2, <2>1 DEF Drive, Kinds
    <2>2. CASE Detect(c)
      BY <1>2, <2>2 DEF Detect, Kinds
    <2>3. ASSUME NEW kind \in {"rollback", "to_running", "to_review"}, Advances(c, kind)
          PROVE  Entered
      BY <1>2, <2>3 DEF Advances, Kinds, Target
    <2>4. CASE DeleteWorktree(c)
      BY <1>2, <2>4 DEF DeleteWorktree, Kinds
    <2> QED
      BY <2>1, <2>2, <2>3, <2>4 DEF Calls
  <1> QED
    BY <1>1, <1>3 DEF Assigned

\* The environment ends a session that runs, or puts a running issue in review.
LEMMA EnvironmentWrites ==
    ASSUME Environment
    PROVE  \/ UNCHANGED <<issue, session>>
           \/ issue = "running" /\ issue' = "review" /\ UNCHANGED session
           \/ session = "running" /\ session' = "stopped" /\ UNCHANGED issue
  BY DEF Environment, Edit, CommitEdits, SoilTarget, CleanTarget, MarkReview,
         SessionExits, Crash

LEMMA AssignedByEnvironment ==
    ASSUME IInv, NEW c \in Cmds, Assigned(c), Environment
    PROVE  Assigned(c)'
  <1>1. cmd'[c] = cmd[c] \/ cmd'[c] = Idle
    BY DEF Environment, Edit, CommitEdits, SoilTarget, CleanTarget, MarkReview,
           SessionExits, Crash
  <1>2. Idle.pc = "idle" /\ Idle.kind = "drive" /\ Idle.session = "running"
    BY DEF Idle
  <1>3. /\ cmd'[c].session \in {cmd[c].session, "running"}
        /\ \/ cmd'[c].pc = cmd[c].pc /\ cmd'[c].kind = cmd[c].kind
           \/ cmd'[c].pc = "idle"
    BY <1>1, <1>2
  <1> QED
    BY <1>3, EnvironmentWrites DEF Assigned

LEMMA AssignedNext ==
    ASSUME NEW c \in Cmds, Cmds = {c}, IInv, SoleInv(c), Assigned(c), [Next]_vars
    PROVE  Assigned(c)' /\ [Board!Next]_<<issue, session>>
  <1>1. CASE UNCHANGED vars
    BY <1>1 DEF vars, Assigned
  <1>2. CASE Calls(c)
    BY <1>2, AssignedByCall
  <1>3. CASE Step(c) \/ Failure(c)
    <2>1. Assigned(c)'
      BY <1>3, AssignedByCommand
    <2>2. CASE UNCHANGED <<issue, session>>
      BY <2>1, <2>2
    <2>3. CASE Commit(c) \/ UpdateStatus(c) \/ Rollback(c)
      BY <2>1, <2>3, Writes
      DEF Board!Next, Board!Move, Board!Complete, Board!ReturnToBacklog
    <2> QED
      BY <1>3, <2>2, <2>3, OnlyTheseWrite
  <1>4. CASE Environment
    <2>1. Assigned(c)'
      BY <1>4, AssignedByEnvironment
    <2> QED
      BY <1>4, <2>1, EnvironmentWrites DEF Board!Next, Board!Move, Board!SessionEnds
  <1> QED
    BY <1>1, <1>2, <1>3, <1>4 DEF Next

\* Commands that do not overlap implement the board: whatever they have read on
\* entry, and whatever happens meanwhile, they change the issue and its session
\* in one step that is allowed from what is there.
THEOREM BoardIsFollowed ==
    ASSUME NEW c, Cmds = {c}
    PROVE  Spec => ActsInOneStep
  <1>1. Init => SoleInv(c) /\ Assigned(c) /\ Board!Init
    <2>1. Idle.pc = "idle" /\ Idle.kind = "drive" /\ Idle.session = "running"
      BY DEF Idle
    <2> QED
      BY <2>1, SoleInit DEF Init, Assigned, Board!Init
  <1>2. IInv /\ SoleInv(c) /\ Assigned(c) /\ [Next]_vars
          => SoleInv(c)' /\ Assigned(c)' /\ [Board!Next]_<<issue, session>>
    BY SoleNext, AssignedNext
  <1> QED
    BY <1>1, <1>2, IInvHolds, PTL DEF Spec, ActsInOneStep, Board!Spec
=============================================================================
