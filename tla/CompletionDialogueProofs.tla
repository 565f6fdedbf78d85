---------------------- MODULE CompletionDialogueProofs ----------------------
(***************************************************************************)
(* First the decision machine, for every state, world and event: the       *)
(* states and effects it produces, what it takes to remove a worktree that *)
(* is not RedWhisk's, to leave uncommitted changes and to complete an      *)
(* issue whose branch was read as differing from its target, and that no   *)
(* call of the client is ever illegal.                                     *)
(*                                                                         *)
(* Then the safety of the completion dialogue, for every set of projects   *)
(* and every bound: the type invariant; no call of the client is rejected  *)
(* by the decision machine; no worktree that is not RedWhisk's is removed  *)
(* without the user's consent; every answer but the one whether to go on   *)
(* is taken for what it is; uncommitted changes are left only with         *)
(* consent; the branch of a worktree that is there is merged, published or *)
(* given up.                                                               *)
(*                                                                         *)
(* The strengthening says where an answer is between being given and being *)
(* acted on: in the input of the next call, then in the persisted flow     *)
(* (ConsentKept, AnswersSaid); that the question which is open is the one  *)
(* of the persisted phase (QuestionOpen); and that no phase waits for the  *)
(* answer whether to go on (ContinueUnasked).                              *)
(***************************************************************************)
EXTENDS CompletionDialogue, TLAPS

(***************************************************************************)
(* The four transitions that finish a flow or stop it.                     *)
(***************************************************************************)
TransitionType == [state : CompletionStates, effects : Seq(Effects)]

\* Every way to leave a branch of advance is a well-formed transition.
LEMMA ExitsTyped ==
    ASSUME NEW s \in CompletionStates
    PROVE  /\ Complete(s) \in TransitionType
           /\ RebaseThenComplete(s) \in TransitionType
           /\ OpenPullRequest(s) \in TransitionType
           /\ Cancelled(s) \in TransitionType
  <1>1. [s EXCEPT !.phase = "completed"] \in CompletionStates
    BY DEF CompletionStates, Phases
  <1>2. [s EXCEPT !.phase = "cancelled"] \in CompletionStates
    BY DEF CompletionStates, Phases
  <1>3. /\ <<"commit">> \in Seq(Effects) /\ <<"reconcile", "commit">> \in Seq(Effects)
        /\ <<"publish", "commit">> \in Seq(Effects) /\ <<>> \in Seq(Effects)
    BY DEF Effects
  <1> QED
    BY <1>1, <1>2, <1>3 DEF TransitionType, Transition, Complete,
       RebaseThenComplete, OpenPullRequest, Cancelled

\* A prompt is a well-formed transition without effects.
LEMMA PromptTyped ==
    ASSUME NEW s \in CompletionStates, NEW w \in Worlds, NEW phase \in Phases
    PROVE  Prompt(s, w, phase) \in TransitionType
  <1>1. [s EXCEPT !.phase = phase, !.path = w.path] \in CompletionStates
    BY DEF CompletionStates, Worlds, Paths
  <1> QED
    BY <1>1 DEF TransitionType, Transition, Prompt

\* The closeout route is one of four, and the action it is computed from is
\* the user's or the one saved in the project.
LEMMA RoutesTyped ==
    ASSUME NEW w \in Worlds, NEW action \in {"none", "merge", "pr"}
    PROVE  RouteCloseout(w, action) \in {"complete", "reconcile", "prompt", "pr"}
  BY DEF Worlds, RouteCloseout

LEMMA AppliedTyped ==
    ASSUME NEW s \in CompletionStates, NEW w \in Worlds
    PROVE  AppliedCloseout(s, w) \in {"none", "merge", "pr"}
  BY DEF Worlds, CompletionStates, AppliedCloseout

\* Reconciling is a well-formed transition.
LEMMA ReconcileTyped ==
    ASSUME NEW s \in CompletionStates, NEW w \in Worlds
    PROVE  Reconcile(s, w) \in TransitionType
  <1>1. Transition([s EXCEPT !.phase = "blocked"], <<>>) \in TransitionType
    BY DEF TransitionType, Transition, CompletionStates, Phases
  <1>2. s.cleanup \in {"none", "yes", "no"} /\ w.external \in BOOLEAN
    BY DEF CompletionStates, Worlds
  <1>3. "confirming_cleanup" \in Phases
    BY DEF Phases
  <1> QED
    BY <1>1, <1>2, <1>3, ExitsTyped, PromptTyped DEF Reconcile

\* What follows the handling of uncommitted changes is well-formed.
LEMMA AfterDirtyTyped ==
    ASSUME NEW s \in CompletionStates, NEW w \in Worlds
    PROVE  AfterDirty(s, w) \in TransitionType
  <1> DEFINE next == [s EXCEPT !.closeout = AppliedCloseout(s, w)]
             route == RouteCloseout(w, next.closeout)
  <1>1. next \in CompletionStates
    BY AppliedTyped DEF CompletionStates
  <1>2. route \in {"complete", "reconcile", "prompt", "pr"}
    BY <1>1, RoutesTyped DEF CompletionStates
  <1>3. "prompting_closeout" \in Phases
    BY DEF Phases
  <1> QED
    BY <1>1, <1>2, <1>3, ExitsTyped, PromptTyped, ReconcileTyped DEF AfterDirty

\* advance maps states, worlds and legal events to states and effects.
THEOREM AdvanceTyped ==
    ASSUME NEW s \in CompletionStates, NEW w \in Worlds, NEW e \in Events,
           Legal(s.phase, e)
    PROVE  Advance(s, w, e) \in TransitionType
  <1>1. CASE e.kind = "begin"
    <2>1. BeginDetection(s, w) \in TransitionType
      BY ExitsTyped, PromptTyped, AfterDirtyTyped DEF BeginDetection, Phases
    <2> QED
      BY <1>1, <2>1 DEF Advance
  <1>2. CASE e.kind = "dirty"
    <2>1. e.choice \in {"auto_commit", "skip", "cancel"}
      BY <1>2 DEF Events, Event, Begin, CommitDetected
    <2>2. AutoCommitting(s, w) \in TransitionType
      <3>1. [s EXCEPT !.phase = "auto_committing", !.dirty = "auto_commit",
                      !.path = w.path] \in CompletionStates
        BY DEF CompletionStates, Worlds, Phases, Paths
      <3>2. <<"inject", "record_prompt">> \in Seq(Effects)
        BY DEF Effects
      <3> QED
        BY <3>1, <3>2 DEF AutoCommitting, Transition, TransitionType
    <2>3. [s EXCEPT !.phase = "reconciling", !.dirty = "skip", !.path = w.path]
            \in CompletionStates
      BY DEF CompletionStates, Worlds, Phases, Paths
    <2>4. DecideDirty(s, w, e.choice) \in TransitionType
      BY <2>1, <2>2, <2>3, ExitsTyped, AfterDirtyTyped DEF DecideDirty
    <2> QED
      BY <1>2, <2>4 DEF Advance
  <1>3. CASE e.kind = "commit_detected"
    <2> DEFINE routed == AfterDirty(s, w)
    <2>1. routed.state \in CompletionStates /\ routed.effects \in Seq(Effects)
      BY AfterDirtyTyped DEF TransitionType
    <2>2. [routed.state EXCEPT !.path = w.path] \in CompletionStates
      BY <2>1 DEF CompletionStates, Worlds, Paths
    <2>3. <<"record_commit">> \o routed.effects \in Seq(Effects)
      BY <2>1 DEF Effects
    <2> QED
      BY <1>3, <2>2, <2>3 DEF Advance, DetectCommit, Transition, TransitionType
  <1>4. CASE e.kind = "continue"
    <2>1. [s EXCEPT !.phase = "reconciling"] \in CompletionStates
      BY DEF CompletionStates, Phases
    <2> QED
      BY <1>4, <2>1, ExitsTyped, AfterDirtyTyped DEF Advance, ConfirmContinue
  <1>5. CASE e.kind = "cleanup"
    <2>1. e.choice \in {"yes", "no"}
      BY <1>5 DEF Events, Event, Begin, CommitDetected
    <2>2. [s EXCEPT !.cleanup = e.choice] \in CompletionStates
      BY <2>1 DEF CompletionStates
    <2> QED
      BY <1>5, <2>2, ExitsTyped DEF Advance, DecideCleanup
  <1>6. CASE e.kind = "closeout"
    <2>1. e.choice \in {"merge", "pr"}
      BY <1>6 DEF Events, Event, Begin, CommitDetected
    <2>2. [s EXCEPT !.closeout = e.choice] \in CompletionStates
      BY <2>1 DEF CompletionStates
    <2> QED
      BY <1>6, <2>2, AfterDirtyTyped DEF Advance
  <1> QED
    BY <1>1, <1>2, <1>3, <1>4, <1>5, <1>6
       DEF Events, Event, Begin, CommitDetected

\* Whatever the persisted phase and whatever the client sends, the event
\* derived from them is legal: completionStateMismatch cannot be returned.
THEOREM DerivedEventLegal ==
    ASSUME NEW s \in CompletionStates, NEW in \in Inputs, s.phase # "completed"
    PROVE  Legal(s.phase, DeriveEvent(s, in))
  BY DEF Legal, NotTerminal, DeriveEvent, Event, Begin, CompletionStates, Inputs

(***************************************************************************)
(* How a decision ends: a question, a stop, or a completion whose last     *)
(* effect is the commit.                                                   *)
(***************************************************************************)
Waits == {"prompting_dirty", "prompting_closeout", "confirming_cleanup",
          "blocked", "cancelled"}

Ends(tr) ==
    \/ tr.state.phase \in Waits /\ tr.effects = <<>>
    \/ /\ tr.state.phase = "completed"
       /\ tr.effects \in {<<"commit">>, <<"reconcile", "commit">>,
                          <<"publish", "commit">>}

\* A worktree that is not RedWhisk's is reconciled only with consent.
Consented(tr, w) ==
    tr.effects = <<"reconcile", "commit">> /\ w.external => tr.state.cleanup = "yes"

\* Every branch after the handling of uncommitted changes ends this way, with
\* consent and without touching the cleanup answer.
LEMMA AfterDirtyEnds ==
    ASSUME NEW s \in CompletionStates, NEW w \in Worlds
    PROVE  /\ Ends(AfterDirty(s, w))
           /\ Consented(AfterDirty(s, w), w)
           /\ AfterDirty(s, w).state.cleanup = s.cleanup
  <1> DEFINE next == [s EXCEPT !.closeout = AppliedCloseout(s, w)]
             route == RouteCloseout(w, next.closeout)
             Good(tr) == Ends(tr) /\ Consented(tr, w) /\ tr.state.cleanup = s.cleanup
  <1>1. next \in CompletionStates /\ next.cleanup = s.cleanup
    BY AppliedTyped DEF CompletionStates
  <1>2. route \in {"complete", "reconcile", "prompt", "pr"}
    BY <1>1, RoutesTyped DEF CompletionStates
  <1> HIDE DEF next
  <1>3. Good(Complete(next)) /\ Good(OpenPullRequest(next))
    BY <1>1 DEF Complete, OpenPullRequest, Transition, Ends, Consented, CompletionStates
  <1>4. ASSUME NEW phase \in Waits
        PROVE  Good(Prompt(next, w, phase))
    BY <1>1 DEF Prompt, Transition, Ends, Consented, CompletionStates
  <1>5. Good(Transition([next EXCEPT !.phase = "blocked"], <<>>))
    BY <1>1 DEF Transition, Ends, Consented, CompletionStates, Waits
  <1>6. ~w.external \/ next.cleanup = "yes" => Good(RebaseThenComplete(next))
    BY <1>1 DEF RebaseThenComplete, Transition, Ends, Consented, CompletionStates
  <1>7. Good(Reconcile(next, w))
    <2>1. next.cleanup \in {"none", "yes", "no"} /\ w.external \in BOOLEAN
      BY <1>1 DEF CompletionStates, Worlds
    <2>2. "confirming_cleanup" \in Waits
      BY DEF Waits
    <2> HIDE DEF Good
    <2> QED
      BY <1>3, <1>4, <1>5, <1>6, <2>1, <2>2 DEF Reconcile
  <1>8. "prompting_closeout" \in Waits
    BY DEF Waits
  <1>9. AfterDirty(s, w) = CASE route = "reconcile" -> Reconcile(next, w)
                             [] route = "complete" -> Complete(next)
                             [] route = "prompt" -> Prompt(next, w, "prompting_closeout")
                             [] route = "pr" -> OpenPullRequest(next)
    BY DEF AfterDirty, next
  <1>10. Good(AfterDirty(s, w))
    <2> HIDE DEF Good, route
    <2> QED
      BY <1>2, <1>3, <1>4, <1>7, <1>8, <1>9
  <1> QED
    BY <1>10

\* Every event but a detected commit leads to a question, a stop, a
\* completion, or to waiting for the agent's commit.  A worktree that is not
\* RedWhisk's is reconciled only with the answer yes, and that answer is only
\* ever set by the user: it was in the state already or is this event.
THEOREM AdvanceEnds ==
    ASSUME NEW s \in CompletionStates, NEW w \in Worlds, NEW e \in Events,
           Legal(s.phase, e), e.kind # "commit_detected"
    PROVE  LET tr == Advance(s, w, e)
           IN  /\ Ends(tr) \/ tr = AutoCommitting(s, w)
               /\ Consented(tr, w)
               /\ tr.state.cleanup = s.cleanup \/ e = Event("cleanup", tr.state.cleanup)
  <1> DEFINE Good(tr) == /\ Ends(tr) \/ tr = AutoCommitting(s, w)
                         /\ Consented(tr, w)
                         /\ \/ tr.state.cleanup = s.cleanup
                            \/ e = Event("cleanup", tr.state.cleanup)
             skipped == [s EXCEPT !.phase = "reconciling", !.dirty = "skip",
                                  !.path = w.path]
             agreed == [s EXCEPT !.phase = "reconciling"]
             closing == [s EXCEPT !.closeout = e.choice]
  <1> SUFFICES Good(Advance(s, w, e))
    OBVIOUS
  <1>1. Good(AfterDirty(s, w))
    BY AfterDirtyEnds
  <1>2. Good(Complete(s)) /\ Good(Cancelled(s)) /\ Good(Prompt(s, w, "prompting_dirty"))
    BY DEF Complete, Cancelled, Prompt, Transition, Ends, Consented, Waits, CompletionStates
  <1>3. CASE e.kind = "begin"
    <2> HIDE DEF Good
    <2> QED
      BY <1>1, <1>2, <1>3 DEF Advance, BeginDetection
  <1>4. CASE e.kind = "dirty"
    <2>1. e.choice \in {"auto_commit", "skip", "cancel"}
      BY <1>4 DEF Events, Event, Begin, CommitDetected
    <2>2. Good(AutoCommitting(s, w))
      <3>1. AutoCommitting(s, w).effects # <<"reconcile", "commit">>
        BY DEF AutoCommitting, Transition
      <3>2. AutoCommitting(s, w).state.cleanup = s.cleanup
        BY DEF AutoCommitting, Transition, CompletionStates
      <3> QED
        BY <3>1, <3>2 DEF Consented
    <2>3. skipped \in CompletionStates /\ skipped.cleanup = s.cleanup
      BY DEF CompletionStates, Worlds, Phases, Paths
    <2>4. Good(AfterDirty(skipped, w))
      <3> HIDE DEF skipped
      <3> QED
        BY <2>3, AfterDirtyEnds
    <2> HIDE DEF Good
    <2> QED
      BY <1>2, <1>4, <2>1, <2>2, <2>4 DEF Advance, DecideDirty
  <1>5. CASE e.kind = "continue"
    <2>1. agreed \in CompletionStates /\ agreed.cleanup = s.cleanup
      BY DEF CompletionStates, Phases
    <2>2. Good(AfterDirty(agreed, w))
      <3> HIDE DEF agreed
      <3> QED
        BY <2>1, AfterDirtyEnds
    <2> HIDE DEF Good
    <2> QED
      BY <1>2, <1>5, <2>2 DEF Advance, ConfirmContinue
  <1>6. CASE e.kind = "cleanup"
    <2>1. e = Event("cleanup", e.choice)
      BY <1>6 DEF Events, Event, Begin, CommitDetected
    <2> DEFINE next == [s EXCEPT !.cleanup = e.choice]
    <2>2. next \in CompletionStates /\ next.cleanup = e.choice
      <3>1. e.choice \in {"yes", "no"}
        BY <1>6 DEF Events, Event, Begin, CommitDetected
      <3> QED
        BY <3>1 DEF CompletionStates
    <2> HIDE DEF next
    <2>3. Good(Complete(next))
      BY <2>1, <2>2 DEF Complete, Transition, Ends, Consented, CompletionStates
    <2>4. e.choice = "yes" => Good(RebaseThenComplete(next))
      BY <2>1, <2>2 DEF RebaseThenComplete, Transition, Ends, Consented, CompletionStates
    <2> HIDE DEF Good
    <2> QED
      BY <1>6, <2>3, <2>4 DEF Advance, DecideCleanup, next
  <1>7. CASE e.kind = "closeout"
    <2>1. e.choice \in {"merge", "pr"}
      BY <1>7 DEF Events, Event, Begin, CommitDetected
    <2>2. closing \in CompletionStates /\ closing.cleanup = s.cleanup
      BY <2>1 DEF CompletionStates
    <2>3. Good(AfterDirty(closing, w))
      <3> HIDE DEF closing
      <3> QED
        BY <2>2, AfterDirtyEnds
    <2> HIDE DEF Good
    <2> QED
      BY <1>7, <2>3 DEF Advance
  <1>8. e.kind \in {"begin", "dirty", "continue", "cleanup", "closeout"}
    BY DEF Events, Event, Begin, CommitDetected
  <1> HIDE DEF Good
  <1> QED
    BY <1>3, <1>4, <1>5, <1>6, <1>7, <1>8

\* What the effects of a transition are, as a set.
LEMMA EffectSets ==
    ASSUME NEW tr
    PROVE  /\ tr.effects = <<>> => EffectSet(tr) = {}
           /\ tr.effects = <<"commit">> => EffectSet(tr) = {"commit"}
           /\ tr.effects = <<"reconcile", "commit">>
                => EffectSet(tr) = {"reconcile", "commit"}
           /\ tr.effects = <<"publish", "commit">>
                => EffectSet(tr) = {"publish", "commit"}
           /\ tr.effects = <<"inject", "record_prompt">>
                => EffectSet(tr) = {"inject", "record_prompt"}
  BY DEF EffectSet, Range

\* The effects of a well-formed transition are effects.
LEMMA EffectSetTyped ==
    ASSUME NEW tr \in TransitionType
    PROVE  EffectSet(tr) \subseteq Effects
  <1>1. tr.effects \in Seq(Effects)
    BY DEF TransitionType
  <1> QED
    BY <1>1 DEF EffectSet, Range

\* A detected commit runs its own effect and then those of the decision.
LEMMA DetectedEffects ==
    ASSUME NEW s \in CompletionStates, NEW w \in Worlds
    PROVE  LET tr == DetectCommit(s, w)
               routed == AfterDirty(s, w)
           IN  /\ EffectSet(tr) = {"record_commit"} \cup EffectSet(routed)
               /\ tr.state.phase = routed.state.phase
               /\ tr.state.cleanup = routed.state.cleanup
  <1> DEFINE routed == AfterDirty(s, w)
  <1>1. routed.state \in CompletionStates /\ routed.effects \in Seq(Effects)
    BY AfterDirtyTyped DEF TransitionType
  <1>2. DetectCommit(s, w).effects = <<"record_commit">> \o routed.effects
    BY DEF DetectCommit, Transition
  <1>3. DetectCommit(s, w).state = [routed.state EXCEPT !.path = w.path]
    BY DEF DetectCommit, Transition
  <1>4. \A q \in Seq(Effects) : Range(<<"record_commit">> \o q) = {"record_commit"} \cup Range(q)
    <2> SUFFICES ASSUME NEW q \in Seq(Effects)
                 PROVE  Range(<<"record_commit">> \o q) = {"record_commit"} \cup Range(q)
      OBVIOUS
    <2> DEFINE r == <<"record_commit">> \o q
    <2>1. r \in Seq(Effects) /\ Len(r) = Len(q) + 1 /\ Len(q) \in Nat
      BY DEF Effects
    <2>2. r[1] = "record_commit" /\ \A i \in 1..Len(q) : r[i + 1] = q[i]
      OBVIOUS
    <2>3. DOMAIN r = 1..(Len(q) + 1) /\ DOMAIN q = 1..Len(q)
      BY <2>1
    <2>4. \A i \in 1..(Len(q) + 1) : i = 1 \/ (i - 1 \in 1..Len(q) /\ r[i] = q[i - 1])
      BY <2>1, <2>2
    <2>5. Range(r) \subseteq {"record_commit"} \cup Range(q)
      BY <2>2, <2>3, <2>4 DEF Range
    <2>6. {"record_commit"} \cup Range(q) \subseteq Range(r)
      <3>1. "record_commit" \in Range(r)
        BY <2>1, <2>2, <2>3 DEF Range
      <3>2. ASSUME NEW i \in 1..Len(q)
            PROVE  q[i] \in Range(r)
        <4>1. i + 1 \in DOMAIN r /\ r[i + 1] = q[i]
          BY <2>1, <2>2, <2>3
        <4> QED
          BY <4>1 DEF Range
      <3> QED
        BY <2>3, <3>1, <3>2 DEF Range
    <2> QED
      BY <2>5, <2>6
  <1> QED
    BY <1>1, <1>2, <1>3, <1>4 DEF EffectSet, CompletionStates

\* Folding the input of a call into the persisted flow keeps it well-formed
\* and in its phase, and takes over a cleanup answer.
LEMMA FoldTyped ==
    ASSUME NEW s \in CompletionStates, NEW in \in Inputs
    PROVE  /\ FoldInput(s, in) \in CompletionStates
           /\ FoldInput(s, in).phase = s.phase
           /\ FoldInput(s, in).cleanup = "yes" => s.cleanup = "yes" \/ in.cleanup = "yes"
  BY DEF FoldInput, CompletionStates, Inputs

\* The event a call stands for is an event, not a detected commit, and a
\* cleanup event carries the cleanup answer of the call.
LEMMA DerivedTyped ==
    ASSUME NEW s \in CompletionStates, NEW in \in Inputs
    PROVE  /\ DeriveEvent(s, in) \in Events
           /\ DeriveEvent(s, in).kind # "commit_detected"
           /\ \A c : DeriveEvent(s, in) = Event("cleanup", c) => in.cleanup = c
  BY DEF DeriveEvent, Events, Event, Begin, CommitDetected, CompletionStates, Inputs

(***************************************************************************)
(* What a decision keeps of the user's earlier answers, and what it leaves *)
(* behind.                                                                 *)
(***************************************************************************)

\* The answers about uncommitted changes are the same in both states.
SameDirty(t, s) == t.ignoreDirty = s.ignoreDirty /\ t.dirty = s.dirty

\* No branch after the handling of uncommitted changes touches the answers
\* about them.
LEMMA AfterDirtyKeeps ==
    ASSUME NEW s \in CompletionStates, NEW w \in Worlds
    PROVE  SameDirty(AfterDirty(s, w).state, s)
  <1> DEFINE next == [s EXCEPT !.closeout = AppliedCloseout(s, w)]
             route == RouteCloseout(w, next.closeout)
             Good(tr) == SameDirty(tr.state, s)
  <1>1. next \in CompletionStates /\ SameDirty(next, s)
    BY AppliedTyped DEF CompletionStates, SameDirty
  <1>2. route \in {"complete", "reconcile", "prompt", "pr"}
    BY <1>1, RoutesTyped DEF CompletionStates
  <1> HIDE DEF next
  <1>3. /\ Good(Complete(next)) /\ Good(OpenPullRequest(next))
        /\ Good(RebaseThenComplete(next))
        /\ Good(Transition([next EXCEPT !.phase = "blocked"], <<>>))
    BY <1>1 DEF Complete, OpenPullRequest, RebaseThenComplete, Transition,
                CompletionStates, SameDirty
  <1>4. ASSUME NEW phase
        PROVE  Good(Prompt(next, w, phase))
    BY <1>1 DEF Prompt, Transition, CompletionStates, SameDirty
  <1>5. Good(Reconcile(next, w))
    <2>1. next.cleanup \in {"none", "yes", "no"} /\ w.external \in BOOLEAN
      BY <1>1 DEF CompletionStates, Worlds
    <2> HIDE DEF Good
    <2> QED
      BY <1>3, <1>4, <2>1 DEF Reconcile
  <1>6. AfterDirty(s, w) = CASE route = "reconcile" -> Reconcile(next, w)
                             [] route = "complete" -> Complete(next)
                             [] route = "prompt" -> Prompt(next, w, "prompting_closeout")
                             [] route = "pr" -> OpenPullRequest(next)
    BY DEF AfterDirty, next
  <1>7. Good(AfterDirty(s, w))
    <2> HIDE DEF Good, route
    <2> QED
      BY <1>2, <1>3, <1>4, <1>5, <1>6
  <1> QED
    BY <1>7

\* The consent to ignore uncommitted changes is never made up: a flow ignores
\* them because it did so before, and has the answer to leave them because it
\* had it before or this event is that answer.
THEOREM AdvanceKeepsDirty ==
    ASSUME NEW s \in CompletionStates, NEW w \in Worlds, NEW e \in Events,
           Legal(s.phase, e)
    PROVE  LET tr == Advance(s, w, e)
           IN  /\ tr.state.ignoreDirty = s.ignoreDirty
               /\ tr.state.dirty = "skip" => s.dirty = "skip" \/ e = Event("dirty", "skip")
  <1> DEFINE Good(tr) == /\ tr.state.ignoreDirty = s.ignoreDirty
                         /\ tr.state.dirty = "skip"
                              => s.dirty = "skip" \/ e = Event("dirty", "skip")
             skipped == [s EXCEPT !.phase = "reconciling", !.dirty = "skip",
                                  !.path = w.path]
             agreed == [s EXCEPT !.phase = "reconciling"]
             closing == [s EXCEPT !.closeout = e.choice]
  <1> SUFFICES Good(Advance(s, w, e))
    OBVIOUS
  <1>1. Good(AfterDirty(s, w))
    BY AfterDirtyKeeps DEF SameDirty
  <1>2. Good(Complete(s)) /\ Good(Cancelled(s)) /\ Good(Prompt(s, w, "prompting_dirty"))
    BY DEF Complete, Cancelled, Prompt, Transition, CompletionStates
  <1>3. CASE e.kind = "begin"
    <2> HIDE DEF Good
    <2> QED
      BY <1>1, <1>2, <1>3 DEF Advance, BeginDetection
  <1>4. CASE e.kind = "dirty"
    <2>1. e.choice \in {"auto_commit", "skip", "cancel"} /\ e = Event("dirty", e.choice)
      BY <1>4 DEF Events, Event, Begin, CommitDetected
    <2>2. Good(AutoCommitting(s, w))
      BY DEF AutoCommitting, Transition, CompletionStates
    <2>3. e.choice = "skip" => Good(AfterDirty(skipped, w))
      <3>1. skipped \in CompletionStates /\ skipped.ignoreDirty = s.ignoreDirty
        BY DEF CompletionStates, Worlds, Phases, Paths
      <3> HIDE DEF skipped
      <3> QED
        BY <2>1, <3>1, AfterDirtyKeeps DEF SameDirty
    <2> HIDE DEF Good
    <2> QED
      BY <1>2, <1>4, <2>1, <2>2, <2>3 DEF Advance, DecideDirty
  <1>5. CASE e.kind = "continue"
    <2>1. agreed \in CompletionStates /\ SameDirty(agreed, s)
      BY DEF CompletionStates, Phases, SameDirty
    <2>2. Good(AfterDirty(agreed, w))
      <3> HIDE DEF agreed
      <3> QED
        BY <2>1, AfterDirtyKeeps DEF SameDirty
    <2> HIDE DEF Good
    <2> QED
      BY <1>2, <1>5, <2>2 DEF Advance, ConfirmContinue
  <1>6. CASE e.kind = "cleanup"
    <2> DEFINE next == [s EXCEPT !.cleanup = e.choice]
    <2>1. next \in CompletionStates /\ SameDirty(next, s)
      <3>1. e.choice \in {"yes", "no"}
        BY <1>6 DEF Events, Event, Begin, CommitDetected
      <3> QED
        BY <3>1 DEF CompletionStates, SameDirty
    <2> HIDE DEF next
    <2>2. Good(Complete(next)) /\ Good(RebaseThenComplete(next))
      BY <2>1 DEF Complete, RebaseThenComplete, Transition, CompletionStates, SameDirty
    <2> HIDE DEF Good
    <2> QED
      BY <1>6, <2>2 DEF Advance, DecideCleanup, next
  <1>7. CASE e.kind = "closeout"
    <2>1. e.choice \in {"merge", "pr"}
      BY <1>7 DEF Events, Event, Begin, CommitDetected
    <2>2. closing \in CompletionStates /\ SameDirty(closing, s)
      BY <2>1 DEF CompletionStates, SameDirty
    <2>3. Good(AfterDirty(closing, w))
      <3> HIDE DEF closing
      <3> QED
        BY <2>2, AfterDirtyKeeps DEF SameDirty
    <2> HIDE DEF Good
    <2> QED
      BY <1>7, <2>3 DEF Advance
  <1>8. CASE e.kind = "commit_detected"
    <2> DEFINE routed == AfterDirty(s, w)
    <2>1. routed.state \in CompletionStates /\ SameDirty(routed.state, s)
      BY AfterDirtyTyped, AfterDirtyKeeps DEF TransitionType
    <2>2. Advance(s, w, e).state = [routed.state EXCEPT !.path = w.path]
      BY <1>8 DEF Advance, DetectCommit, Transition
    <2> HIDE DEF routed
    <2> QED
      BY <2>1, <2>2 DEF SameDirty, CompletionStates
  <1>9. e.kind \in {"begin", "dirty", "continue", "cleanup", "closeout", "commit_detected"}
    BY DEF Events, Event, Begin, CommitDetected
  <1> HIDE DEF Good
  <1> QED
    BY <1>3, <1>4, <1>5, <1>6, <1>7, <1>8, <1>9

\* A detection that completes although it found uncommitted changes was told
\* to leave them, or closes the session of a branch without its own worktree.
LEMMA DirtyCompletionSkips ==
    ASSUME NEW s \in CompletionStates, NEW w \in Worlds, ~w.clean,
           "commit" \in EffectSet(BeginDetection(s, w))
    PROVE  DirtyAlreadySkipped(s) \/ w.closedOut
  <1> SUFFICES ASSUME ~DirtyAlreadySkipped(s), ~w.closedOut
               PROVE  FALSE
    OBVIOUS
  <1>1. BeginDetection(s, w) = Prompt(s, w, "prompting_dirty")
    BY DEF BeginDetection
  <1>2. Prompt(s, w, "prompting_dirty").effects = <<>>
    BY DEF Prompt, Transition
  <1> QED
    BY <1>1, <1>2, EffectSets

\* An isolated session is read as being on another branch than its target, and
\* its worktree is there or RedWhisk's and missing with its branch unmerged.
Differs(w) ==
    /\ w.isolated /\ w.mismatch
    /\ w.missing => ~w.external /\ w.unmerged

\* A completion merges or publishes, or the user declined the removal.
Settles(tr) ==
    "commit" \in EffectSet(tr)
        => \/ EffectSet(tr) \cap {"reconcile", "publish"} # {}
           \/ tr.state.cleanup = "no"

\* After the handling of uncommitted changes, a branch that was read as differing
\* from its target is merged or published, left because the user wants to keep
\* it, or stops the completion.
LEMMA AfterDirtySettles ==
    ASSUME NEW s \in CompletionStates, NEW w \in Worlds, Differs(w)
    PROVE  Settles(AfterDirty(s, w))
  <1> DEFINE next == [s EXCEPT !.closeout = AppliedCloseout(s, w)]
             route == RouteCloseout(w, next.closeout)
  <1>1. next \in CompletionStates
    BY AppliedTyped DEF CompletionStates
  <1>2. route \in {"reconcile", "prompt", "pr"}
    <2>1. next.closeout \in {"none", "merge", "pr"}
      BY <1>1 DEF CompletionStates
    <2> HIDE DEF next
    <2> QED
      BY <2>1 DEF RouteCloseout, Differs, Worlds
  <1>3. AfterDirty(s, w) = CASE route = "reconcile" -> Reconcile(next, w)
                             [] route = "complete" -> Complete(next)
                             [] route = "prompt" -> Prompt(next, w, "prompting_closeout")
                             [] route = "pr" -> OpenPullRequest(next)
    BY DEF AfterDirty, next
  <1> HIDE DEF next, route
  <1>4. ASSUME NEW phase
        PROVE  Settles(Prompt(next, w, phase))
    BY EffectSets DEF Prompt, Transition, Settles
  <1>5. Settles(OpenPullRequest(next)) /\ Settles(RebaseThenComplete(next))
    BY EffectSets DEF OpenPullRequest, RebaseThenComplete, Transition, Settles
  <1>6. next.cleanup = "no" => Settles(Complete(next))
    BY <1>1 DEF Complete, Transition, Settles, CompletionStates
  <1>8. Settles(Transition([next EXCEPT !.phase = "blocked"], <<>>))
    BY EffectSets DEF Transition, Settles
  <1>7. Settles(Reconcile(next, w))
    <2>1. next.cleanup \in {"none", "yes", "no"} /\ w.external \in BOOLEAN
      BY <1>1 DEF CompletionStates, Worlds
    <2> QED
      BY <1>4, <1>5, <1>6, <1>8, <2>1 DEF Reconcile, Differs
  <1> QED
    BY <1>2, <1>3, <1>4, <1>5, <1>7

\* The same for every decision (advance): it rests on what was read. A missing
\* worktree with an unmerged branch would stop it as well if it were read as
\* differing from its target; gather_completion_world never reads it so, and then
\* nothing is said about it (MissingUnmergedBlocks).
THEOREM AdvanceSettles ==
    ASSUME NEW s \in CompletionStates, NEW w \in Worlds, NEW e \in Events,
           Legal(s.phase, e), Differs(w)
    PROVE  Settles(Advance(s, w, e))
  <1> DEFINE skipped == [s EXCEPT !.phase = "reconciling", !.dirty = "skip",
                                  !.path = w.path]
             agreed == [s EXCEPT !.phase = "reconciling"]
             closing == [s EXCEPT !.closeout = e.choice]
  <1>1. Settles(AfterDirty(s, w))
    BY AfterDirtySettles
  <1>2. Settles(Cancelled(s)) /\ Settles(Prompt(s, w, "prompting_dirty"))
    BY EffectSets DEF Cancelled, Prompt, Transition, Settles
  <1>3. CASE e.kind = "begin"
    BY <1>1, <1>2, <1>3 DEF Advance, BeginDetection, Differs
  <1>4. CASE e.kind = "dirty"
    <2>1. e.choice \in {"auto_commit", "skip", "cancel"}
      BY <1>4 DEF Events, Event, Begin, CommitDetected
    <2>2. Settles(AutoCommitting(s, w))
      BY EffectSets DEF AutoCommitting, Transition, Settles
    <2>3. skipped \in CompletionStates
      BY DEF CompletionStates, Worlds, Phases, Paths
    <2>4. Settles(AfterDirty(skipped, w))
      BY <2>3, AfterDirtySettles
    <2> QED
      BY <1>2, <1>4, <2>1, <2>2, <2>4 DEF Advance, DecideDirty
  <1>5. CASE e.kind = "continue"
    <2>1. agreed \in CompletionStates
      BY DEF CompletionStates, Phases
    <2>2. Settles(AfterDirty(agreed, w))
      BY <2>1, AfterDirtySettles
    <2> QED
      BY <1>2, <1>5, <2>2 DEF Advance, ConfirmContinue
  <1>6. CASE e.kind = "cleanup"
    <2> DEFINE next == [s EXCEPT !.cleanup = e.choice]
    <2>1. e.choice \in {"yes", "no"}
      BY <1>6 DEF Events, Event, Begin, CommitDetected
    <2>2. Settles(RebaseThenComplete(next))
      BY EffectSets DEF RebaseThenComplete, Transition, Settles
    <2>3. e.choice = "no" => Settles(Complete(next))
      BY DEF Complete, Transition, Settles, CompletionStates
    <2> QED
      BY <1>6, <2>1, <2>2, <2>3 DEF Advance, DecideCleanup
  <1>7. CASE e.kind = "closeout"
    <2>1. e.choice \in {"merge", "pr"}
      BY <1>7 DEF Events, Event, Begin, CommitDetected
    <2>2. closing \in CompletionStates
      BY <2>1 DEF CompletionStates
    <2>3. Settles(AfterDirty(closing, w))
      BY <2>2, AfterDirtySettles
    <2> QED
      BY <1>7, <2>3 DEF Advance
  <1>8. CASE e.kind = "commit_detected"
    <2>1. Advance(s, w, e) = DetectCommit(s, w)
      BY <1>8 DEF Advance
    <2> QED
      BY <1>1, <2>1, DetectedEffects DEF Settles
  <1>9. e.kind \in {"begin", "dirty", "continue", "cleanup", "closeout", "commit_detected"}
    BY DEF Events, Event, Begin, CommitDetected
  <1> QED
    BY <1>3, <1>4, <1>5, <1>6, <1>7, <1>8, <1>9

\* What folding the input of a call keeps of the answers given before.
LEMMA FoldKeeps ==
    ASSUME NEW s \in CompletionStates, NEW in \in Inputs
    PROVE  LET t == FoldInput(s, in)
           IN  /\ t.dirty = s.dirty
               /\ t.ignoreDirty = (s.ignoreDirty \/ in.ignoreDirty)
               /\ t.cleanup = "no" => s.cleanup = "no" \/ in.cleanup = "no"
  BY DEF FoldInput, CompletionStates, Inputs

\* A dirty event carries the dirty answer of the call.
LEMMA DerivedDirty ==
    ASSUME NEW s \in CompletionStates, NEW in \in Inputs
    PROVE  \A c : DeriveEvent(s, in) = Event("dirty", c) => in.dirty = c
  BY DEF DeriveEvent, Event, Begin, CompletionStates, Inputs

(***************************************************************************)
(* The dialogue.                                                           *)
(***************************************************************************)
ConsentKept ==
    /\ client.input.cleanup = "yes" => "cleanup_yes" \in said
    /\ flow.cleanup = "yes" => "cleanup_yes" \in said

IInv ==
    /\ TypeOK
    /\ flow.phase # "completed"
    /\ ConsentKept
    /\ ExternalCleanupNeedsConsent

(***************************************************************************)
(* Lemmas about a call.                                                    *)
(***************************************************************************)

\* The facts a call gathers make a world.
LEMMA WorldTyped ==
    ASSUME BoundsAssumption, NEW p \in Projects, NEW f \in Facts
    PROVE  World(p, f) \in Worlds
  <1>1. p \in [isolated : BOOLEAN, forge : BOOLEAN,
               confirm : BOOLEAN, saved : {"merge", "pr"}]
    BY DEF BoundsAssumption
  <1> QED
    BY <1>1 DEF World, Worlds, Facts

\* Only well-formed facts are gathered.
LEMMA GatheredTyped == GatheredFacts \subseteq Facts
  BY DEF GatheredFacts, WorktreeFacts, CurrentBranchFacts

\* Executing a well-formed transition whose completion commits keeps the flow
\* and the record of the transition well-formed and never persists a completed
\* flow; the persisted cleanup answer is the transition's.
LEMMA ExecuteTyped ==
    ASSUME TypeOK, NEW tr \in TransitionType, NEW w \in Worlds, NEW e \in Events,
           NEW ok \in BOOLEAN,
           tr.state.phase = "completed" => "commit" \in EffectSet(tr),
           Execute(tr, w, e, ok)
    PROVE  /\ completed' \in BOOLEAN
           /\ flow' \in CompletionStates
           /\ flow'.phase # "completed"
           /\ flow'.cleanup = "yes" => tr.state.cleanup = "yes"
           /\ last' \in [effects : SUBSET Effects, event : {"none"} \cup {x.kind : x \in Events},
                         external : BOOLEAN, mismatch : BOOLEAN, clean : BOOLEAN,
                         unmerged : BOOLEAN]
           /\ last'.effects \subseteq EffectSet(tr)
           /\ last'.external = w.external /\ last'.event = e.kind
  <1> DEFINE stops == ~ok /\ EffectSet(tr) \cap {"reconcile", "publish"} # {}
             done  == "commit" \in EffectSet(tr) /\ ~stops
             final == IF stops THEN [tr.state EXCEPT !.phase = "blocked"] ELSE tr.state
             E     == EffectSet(tr) \ (IF stops THEN {"commit"} ELSE {})
  <1>1. tr.state \in CompletionStates
    BY DEF TransitionType
  <1>2. final \in CompletionStates /\ final.cleanup = tr.state.cleanup
    BY <1>1 DEF CompletionStates, Phases
  <1>3. ~done => final.phase # "completed"
    BY <1>1 DEF CompletionStates
  <1>4. Persisted(final) \in CompletionStates /\ Persisted(final).phase = final.phase
          /\ Persisted(final).cleanup = final.cleanup
    <2> HIDE DEF final
    <2> QED
      BY <1>2 DEF Persisted, CompletionStates
  <1>5. Detecting \in CompletionStates /\ Detecting.phase # "completed"
          /\ Detecting.cleanup # "yes"
    BY DEF Detecting, CompletionStates, Phases, Paths
  <1>6. flow' = IF done THEN Detecting ELSE Persisted(final)
    BY DEF Execute
  <1>7. E \subseteq EffectSet(tr) /\ EffectSet(tr) \subseteq Effects
    BY EffectSetTyped
  <1>8. last' = [effects |-> E, event |-> e.kind, external |-> w.external,
                 mismatch |-> w.mismatch, clean |-> w.clean, unmerged |-> w.unmerged]
    BY DEF Execute
  <1>9. completed' \in BOOLEAN
    BY DEF Execute, TypeOK
  <1>10. e.kind \in {x.kind : x \in Events}
    OBVIOUS
  <1>11. /\ w.external \in BOOLEAN /\ w.mismatch \in BOOLEAN
         /\ w.clean \in BOOLEAN /\ w.unmerged \in BOOLEAN
    BY DEF Worlds
  <1> HIDE DEF done, final, E
  <1>12. /\ last' \in [effects : SUBSET Effects, event : {"none"} \cup {x.kind : x \in Events},
                       external : BOOLEAN, mismatch : BOOLEAN, clean : BOOLEAN,
                       unmerged : BOOLEAN]
         /\ last'.effects \subseteq EffectSet(tr)
         /\ last'.external = w.external /\ last'.event = e.kind
    <2>1. E \in SUBSET Effects /\ e.kind \in {"none"} \cup {x.kind : x \in Events}
      BY <1>7, <1>10
    <2> QED
      BY <1>7, <1>8, <1>11, <2>1
  <1> QED
    BY <1>2, <1>3, <1>4, <1>5, <1>6, <1>9, <1>12

\* Where the client goes after a call keeps it well-formed with no cleanup
\* answer left to send.
ClientType ==
    [pc : ClientPcs, input : Inputs, outcome : Outcomes,
     ignoreDirty : BOOLEAN, declined : BOOLEAN,
     polls : 0..(MaxPolls - 1), runs : 0..MaxRuns, autos : 0..MaxAuto]

LEMMA RestTyped ==
    ASSUME BoundsAssumption, TypeOK
    PROVE  /\ PlainInput \in Inputs
           /\ \A o \in Outcomes :
                Rest(o) \in ClientType /\ Rest(o).input.cleanup = "none"
           /\ \A pc \in ClientPcs :
                Ask(pc) \in ClientType /\ Ask(pc).input.cleanup = "none"
  <1>1. PlainInput \in Inputs /\ PlainInput.cleanup = "none"
    BY DEF PlainInput, Inputs
  <1>2. client \in ClientType
    BY DEF TypeOK, ClientType
  <1>3. ASSUME NEW o \in Outcomes
        PROVE  Rest(o) \in ClientType /\ Rest(o).input.cleanup = "none"
    BY <1>1, <1>2 DEF Rest, ClientType, ClientPcs
  <1>4. ASSUME NEW pc \in ClientPcs
        PROVE  Ask(pc) \in ClientType /\ Ask(pc).input.cleanup = "none"
    BY <1>1, <1>2 DEF Ask, ClientType
  <1> QED
    BY <1>1, <1>3, <1>4

LEMMA ClientAfterTyped ==
    ASSUME BoundsAssumption, TypeOK, NEW phase \in Phases
    PROVE  /\ ClientAfter(phase) \in ClientType
           /\ ClientAfter(phase).input.cleanup = "none"
  <1>1. {"completed", "cancelled", "blocked"} \subseteq Outcomes
          /\ {"ask_dirty", "waiting", "ask_continue", "ask_cleanup", "ask_closeout"}
               \subseteq ClientPcs
    BY DEF Outcomes, ClientPcs
  <1>2. /\ [Ask("waiting") EXCEPT !.polls = 0] \in ClientType
        /\ [Ask("waiting") EXCEPT !.polls = 0].input.cleanup = "none"
    BY <1>1, RestTyped DEF ClientType, BoundsAssumption
  <1> QED
    BY <1>1, <1>2, RestTyped DEF ClientAfter, Phases

(***************************************************************************)
(* The invariant.                                                          *)
(***************************************************************************)

\* Initially nothing has been answered and nothing done.
LEMMA InitIInv == BoundsAssumption /\ Init => IInv
  <1> SUFFICES ASSUME BoundsAssumption, Init
               PROVE  IInv
    OBVIOUS
  <1>1. Detecting \in CompletionStates /\ Detecting.phase # "completed"
          /\ Detecting.cleanup # "yes"
    BY DEF Detecting, CompletionStates, Phases, Paths
  <1>2. PlainInput \in Inputs /\ PlainInput.cleanup = "none"
    BY DEF PlainInput, Inputs
  <1>3. client \in ClientType
    BY <1>2 DEF Init, ClientType, ClientPcs, Outcomes, BoundsAssumption
  <1>4. TypeOK
    BY <1>1, <1>3 DEF Init, TypeOK, ClientType, Effects
  <1> QED
    BY <1>1, <1>2, <1>4 DEF Init, IInv, ConsentKept, ExternalCleanupNeedsConsent

\* A step of the client that only chooses what to send next.
LEMMA ClientStep ==
    ASSUME IInv, UNCHANGED <<project, flow, completed, last>>,
           client' \in ClientType,
           said' \subseteq {"skip", "cleanup_yes", "cleanup_no"}, said \subseteq said',
           client'.input.cleanup = "yes" => "cleanup_yes" \in said'
    PROVE  IInv'
  <1>1. TypeOK'
    BY DEF IInv, TypeOK, ClientType
  <1> QED
    BY <1>1 DEF IInv, ConsentKept, ExternalCleanupNeedsConsent

LEMMA NextIInv == BoundsAssumption /\ IInv /\ [Next]_vars => IInv'
  <1> SUFFICES ASSUME BoundsAssumption, IInv, [Next]_vars
               PROVE  IInv'
    OBVIOUS
  <1> USE DEF ConsentKept
  <1>0. /\ TypeOK /\ client \in ClientType /\ client.input \in Inputs
        /\ said \subseteq {"skip", "cleanup_yes", "cleanup_no"}
        /\ flow \in CompletionStates /\ project \in Projects
    BY DEF IInv, TypeOK, ClientType
  <1>1. ASSUME NEW ignoreDirty \in BOOLEAN, NEW dirty \in {"none", "auto_commit"},
               Start(ignoreDirty, dirty)
        PROVE  IInv'
    <2>1. [PlainInput EXCEPT !.dirty = dirty] \in Inputs
            /\ [PlainInput EXCEPT !.dirty = dirty].cleanup = "none"
      BY RestTyped, <1>0 DEF Inputs, PlainInput
    <2>2. client.runs + 1 \in 0..MaxRuns
            /\ (dirty # "none" => client.autos + 1 \in 0..MaxAuto)
      BY <1>0, <1>1 DEF Start, ClientType, BoundsAssumption
    <2>3. client' \in ClientType /\ client'.input.cleanup = "none"
      <3> DEFINE in == [PlainInput EXCEPT !.dirty = dirty]
      <3>1. client' = [client EXCEPT !.pc = "calling", !.runs = client.runs + 1,
                                !.outcome = "none", !.declined = FALSE,
                                !.ignoreDirty = ignoreDirty,
                                !.autos = IF dirty = "none" THEN client.autos
                                          ELSE client.autos + 1,
                                !.input = in]
        BY <1>1 DEF Start
      <3>2. in \in Inputs /\ in.cleanup = "none"
        BY <2>1
      <3> HIDE DEF in
      <3> QED
        BY <1>0, <2>2, <3>1, <3>2 DEF ClientType, ClientPcs, Outcomes
    <2> QED
      BY <1>0, <1>1, <2>3, ClientStep DEF Start
  <1>2. CASE CallRejected \/ CallGitOperation \/ CallForgeCliMissing \/ PollGivesUp
    <2>1. PICK o \in Outcomes : client' = Rest(o)
      BY <1>2 DEF CallRejected, CallGitOperation, CallForgeCliMissing, PollGivesUp, Outcomes
    <2> QED
      BY <1>0, <1>2, <2>1, RestTyped, ClientStep
         DEF CallRejected, CallGitOperation, CallForgeCliMissing, PollGivesUp
  <1>3. CASE PollNothing
    <2>1. CASE client.polls + 1 < MaxPolls
      <3>1. client.polls + 1 \in 0..(MaxPolls - 1)
        BY <1>0, <2>1 DEF ClientType, BoundsAssumption
      <3>2. client' \in ClientType /\ client'.input = client.input
        BY <1>0, <1>3, <2>1, <3>1 DEF PollNothing, ClientType
      <3> QED
        BY <1>0, <1>3, <3>2, ClientStep DEF PollNothing, IInv
    <2>2. CASE ~(client.polls + 1 < MaxPolls)
      BY <1>0, <1>3, <2>2, RestTyped, ClientStep DEF PollNothing, Outcomes
    <2> QED
      BY <2>1, <2>2
  <1>4. ASSUME NEW choice \in {"auto_commit", "skip", "cancel"}, AnswerDirty(choice)
        PROVE  IInv'
    <2> DEFINE in == [PlainInput EXCEPT !.dirty = choice]
    <2>1. in \in Inputs /\ in.cleanup = "none"
      BY DEF Inputs, PlainInput
    <2>2. choice = "auto_commit" => client.autos + 1 \in 0..MaxAuto
      BY <1>0, <1>4 DEF AnswerDirty, ClientType, BoundsAssumption
    <2>3. client' = [client EXCEPT !.pc = "calling", !.input = in,
                        !.autos = IF choice = "auto_commit" THEN client.autos + 1
                                  ELSE client.autos]
      BY <1>4 DEF AnswerDirty
    <2> HIDE DEF in
    <2>4. client' \in ClientType /\ client'.input.cleanup = "none"
      BY <1>0, <2>1, <2>2, <2>3 DEF ClientType, ClientPcs
    <2> QED
      BY <1>0, <1>4, <2>4, ClientStep DEF AnswerDirty
  <1>5. ASSUME NEW choice \in {"none", "merge", "pr"}, AnswerCloseout(choice)
        PROVE  IInv'
    <2> DEFINE in == IF choice = "none" THEN [PlainInput EXCEPT !.dirty = "cancel"]
                     ELSE [PlainInput EXCEPT !.closeout = choice]
    <2>1. in \in Inputs /\ in.cleanup = "none" /\ Send(in)
      BY <1>5 DEF AnswerCloseout, Inputs, PlainInput
    <2> HIDE DEF in
    <2>2. client' \in ClientType /\ client'.input.cleanup = "none"
      BY <1>0, <2>1 DEF Send, ClientType, ClientPcs
    <2> QED
      BY <1>0, <1>5, <2>2, ClientStep DEF AnswerCloseout
  <1>6. ASSUME NEW choice \in {"yes", "no"}, AnswerCleanup(choice)
        PROVE  IInv'
    <2> DEFINE in == [PlainInput EXCEPT !.cleanup = choice]
    <2>1. in \in Inputs /\ in.cleanup = choice /\ Send(in)
      BY <1>6 DEF AnswerCleanup, Inputs, PlainInput
    <2> HIDE DEF in
    <2>2. client' \in ClientType /\ client'.input.cleanup = choice
      BY <1>0, <2>1 DEF Send, ClientType, ClientPcs
    <2> QED
      BY <1>0, <1>6, <2>2, ClientStep DEF AnswerCleanup
  <1>7. ASSUME NEW choice \in {"yes", "no"}, AnswerContinue(choice)
        PROVE  IInv'
    <2> DEFINE in == [PlainInput EXCEPT !.continue = choice]
    <2>1. in \in Inputs /\ in.cleanup = "none"
      BY DEF Inputs, PlainInput
    <2>2. client' = [client EXCEPT !.pc = "calling", !.input = in,
                                   !.declined = (choice = "no")]
      BY <1>7 DEF AnswerContinue
    <2> HIDE DEF in
    <2>3. client' \in ClientType /\ client'.input.cleanup = "none"
      BY <1>0, <2>1, <2>2 DEF ClientType, ClientPcs
    <2> QED
      BY <1>0, <1>7, <2>3, ClientStep DEF AnswerContinue
  <1>8. ASSUME NEW f \in GatheredFacts, NEW ok \in BOOLEAN, Call(World(project, f), ok)
        PROVE  IInv'
    <2> DEFINE w == World(project, f)
               state == FoldInput(flow, CallInput)
               event == DeriveEvent(state, CallInput)
               tr == Advance(state, w, event)
    <2>1. w \in Worlds
      BY <1>0, WorldTyped, GatheredTyped
    <2>2. CallInput \in Inputs /\ CallInput.cleanup = client.input.cleanup
      BY <1>0 DEF CallInput, Inputs, ClientType
    <2>3. /\ state \in CompletionStates
          /\ state.cleanup = "yes" => "cleanup_yes" \in said
      BY <1>0, <2>2, FoldTyped DEF IInv
    <2>4. /\ event \in Events /\ event.kind # "commit_detected"
          /\ \A c : event = Event("cleanup", c) => CallInput.cleanup = c
      BY <2>2, <2>3, DerivedTyped
    <2>5. Legal(state.phase, event) /\ Execute(tr, w, event, ok)
            /\ client' = ClientAfter(IF completed' THEN "completed" ELSE flow'.phase)
            /\ UNCHANGED <<project, said>>
      BY <1>8 DEF Call
    <2> HIDE DEF w, state, event
    <2>6. tr \in TransitionType
      BY <2>1, <2>3, <2>4, <2>5, AdvanceTyped
    <2>7. /\ Ends(tr) \/ tr = AutoCommitting(state, w)
          /\ Consented(tr, w)
          /\ tr.state.cleanup = state.cleanup \/ event = Event("cleanup", tr.state.cleanup)
      BY <2>1, <2>3, <2>4, <2>5, AdvanceEnds
    <2>8. tr.state.cleanup = "yes" => "cleanup_yes" \in said
      BY <2>2, <2>3, <2>4, <2>7 DEF IInv
    <2>9. /\ tr.state.phase = "completed" => "commit" \in EffectSet(tr)
          /\ "reconcile" \in EffectSet(tr) => tr.effects = <<"reconcile", "commit">>
      <3>1. CASE Ends(tr)
        BY <3>1, EffectSets DEF Ends, Waits
      <3>2. CASE tr = AutoCommitting(state, w)
        <4>1. AutoCommitting(state, w).effects = <<"inject", "record_prompt">>
                /\ AutoCommitting(state, w).state.phase = "auto_committing"
          BY <2>3 DEF AutoCommitting, Transition, CompletionStates
        <4> HIDE DEF tr
        <4> QED
          BY <3>2, <4>1, EffectSets
      <3> QED
        BY <2>7, <3>1, <3>2
    <2>10. "reconcile" \in EffectSet(tr) /\ w.external => "cleanup_yes" \in said
      BY <2>7, <2>8, <2>9 DEF Consented
    <2> HIDE DEF tr
    <2>11. /\ completed' \in BOOLEAN /\ flow' \in CompletionStates
           /\ flow'.phase # "completed"
           /\ flow'.cleanup = "yes" => tr.state.cleanup = "yes"
           /\ last' \in [effects : SUBSET Effects,
                         event : {"none"} \cup {x.kind : x \in Events},
                         external : BOOLEAN, mismatch : BOOLEAN, clean : BOOLEAN,
                         unmerged : BOOLEAN]
           /\ last'.effects \subseteq EffectSet(tr)
           /\ last'.external = w.external /\ last'.event = event.kind
      BY <1>0, <2>1, <2>4, <2>5, <2>6, <2>9, ExecuteTyped
    <2>12. client' \in ClientType /\ client'.input.cleanup = "none"
      <3>1. (IF completed' THEN "completed" ELSE flow'.phase) \in Phases
        BY <2>11 DEF CompletionStates, Phases
      <3> QED
        BY <1>0, <2>5, <3>1, ClientAfterTyped
    <2>13. TypeOK'
      BY <1>0, <2>5, <2>11, <2>12 DEF TypeOK, ClientType
    <2> QED
      BY <2>5, <2>8, <2>10, <2>11, <2>12, <2>13 DEF IInv, ExternalCleanupNeedsConsent
  <1>9. ASSUME NEW f \in GatheredFacts, NEW ok \in BOOLEAN,
               PollDetects(World(project, f), ok)
        PROVE  IInv'
    <2> DEFINE w == World(project, f)
               seen == [w EXCEPT !.external = ~w.isolated]
               tr == Advance(flow, seen, CommitDetected)
    <2>1. w \in Worlds
      BY <1>0, WorldTyped, GatheredTyped
    <2>2. Execute(tr, w, CommitDetected, ok) /\ client' = Ask("ask_continue")
            /\ UNCHANGED <<project, said>> /\ flow.phase = "auto_committing"
      BY <1>9 DEF PollDetects
    <2> HIDE DEF w
    <2>3. seen \in Worlds
      BY <2>1 DEF Worlds
    <2>4. CommitDetected \in Events /\ CommitDetected.kind = "commit_detected"
            /\ Legal(flow.phase, CommitDetected)
      BY <2>2 DEF Events, CommitDetected, Event, Legal
    <2> HIDE DEF seen
    <2>5. tr \in TransitionType
      BY <1>0, <2>3, <2>4, AdvanceTyped
    <2>6. tr = DetectCommit(flow, seen)
      BY <2>4 DEF Advance
    <2>7. /\ tr.state.phase = "completed" => "commit" \in EffectSet(tr)
          /\ tr.state.cleanup = flow.cleanup
      <3> DEFINE routed == AfterDirty(flow, seen)
      <3>1. Ends(routed) /\ routed.state.cleanup = flow.cleanup
        BY <1>0, <2>3, AfterDirtyEnds
      <3>2. routed.state.phase = "completed" => "commit" \in EffectSet(routed)
        <4> HIDE DEF routed
        <4> QED
          BY <3>1, EffectSets DEF Ends, Waits
      <3> QED
        BY <1>0, <2>3, <2>6, <3>1, <3>2, DetectedEffects
    <2> HIDE DEF tr
    <2>8. /\ completed' \in BOOLEAN /\ flow' \in CompletionStates
          /\ flow'.phase # "completed"
          /\ flow'.cleanup = "yes" => tr.state.cleanup = "yes"
          /\ last' \in [effects : SUBSET Effects,
                        event : {"none"} \cup {x.kind : x \in Events},
                        external : BOOLEAN, mismatch : BOOLEAN, clean : BOOLEAN,
                        unmerged : BOOLEAN]
          /\ last'.event = "commit_detected"
      BY <1>0, <2>1, <2>2, <2>4, <2>5, <2>7, ExecuteTyped
    <2>9. client' \in ClientType /\ client'.input.cleanup = "none"
      BY <1>0, <2>2, RestTyped DEF ClientPcs
    <2>10. TypeOK'
      BY <1>0, <2>2, <2>8, <2>9 DEF TypeOK, ClientType
    <2> QED
      BY <2>2, <2>7, <2>8, <2>9, <2>10 DEF IInv, ExternalCleanupNeedsConsent
  <1>10. CASE UNCHANGED vars
    BY <1>10 DEF vars, IInv, TypeOK, ExternalCleanupNeedsConsent
  <1> QED
    BY <1>1, <1>2, <1>3, <1>4, <1>5, <1>6, <1>7, <1>8, <1>9, <1>10
       DEF Next, Calls, Answers, Polls

\* The invariant holds in every reachable state.
LEMMA IInvHolds == Spec => []IInv
  <1>1. Init => IInv
    BY InitIInv, BoundsAssumption
  <1>2. IInv /\ [Next]_vars => IInv'
    BY NextIInv, BoundsAssumption
  <1> QED
    BY <1>1, <1>2, PTL DEF Spec

\* The dialogue keeps its types, whatever the projects and the bounds.
THEOREM DialogueTyped == Spec => []TypeOK
  <1>1. IInv => TypeOK
    BY DEF IInv
  <1> QED
    BY <1>1, IInvHolds, PTL

\* However often the user starts the flow and however the world moves between
\* the calls, complete_issue_flow rebases and removes a worktree that is not
\* RedWhisk's only after the user agreed to its removal.
THEOREM CleanupConsented == Spec => []ExternalCleanupNeedsConsent
  <1>1. IInv => ExternalCleanupNeedsConsent
    BY DEF IInv
  <1> QED
    BY <1>1, IInvHolds, PTL

\* No call of the client is ever answered with completionStateMismatch: a
\* completed flow is never persisted, and every other phase accepts the event
\* derived from the call.
THEOREM CallsLegal == Spec => []ClientNeverMismatched
  <1>1. IInv => ClientNeverMismatched
    <2> SUFFICES ASSUME IInv
                 PROVE  LET state == FoldInput(flow, CallInput)
                        IN  Legal(state.phase, DeriveEvent(state, CallInput))
      BY DEF ClientNeverMismatched
    <2>1. CallInput \in Inputs
      BY DEF IInv, TypeOK, CallInput, Inputs
    <2>2. flow \in CompletionStates /\ flow.phase # "completed"
      BY DEF IInv, TypeOK
    <2>3. FoldInput(flow, CallInput) \in CompletionStates
            /\ FoldInput(flow, CallInput).phase # "completed"
      BY <2>1, <2>2, FoldTyped
    <2> QED
      BY <2>1, <2>3, DerivedEventLegal
  <1> QED
    BY <1>1, IInvHolds, PTL

(***************************************************************************)
(* The user's answers.  Three more properties follow from where an answer  *)
(* is between being given and being acted on: the question that is open    *)
(* agrees with the persisted phase, and every answer that reached the      *)
(* input of a call or the persisted flow has been given.                   *)
(***************************************************************************)
QuestionOpen ==
    /\ client.pc = "ask_dirty" => flow.phase = "prompting_dirty"
    /\ client.pc = "ask_closeout" => flow.phase = "prompting_closeout"
    /\ client.pc = "ask_cleanup" => flow.phase = "confirming_cleanup"
    /\ client.pc = "calling" =>
         /\ client.input.cleanup # "none" => flow.phase = "confirming_cleanup"
         /\ client.input.closeout # "none" => flow.phase = "prompting_closeout"
         /\ client.input.dirty = "skip" => flow.phase = "prompting_dirty"
         /\ client.input.dirty = "cancel" =>
              client.input = [PlainInput EXCEPT !.dirty = "cancel"]

AnswersSaid ==
    /\ client.ignoreDirty \/ client.input.ignoreDirty => "skip" \in said
    /\ client.input.dirty = "skip" => "skip" \in said
    /\ flow.ignoreDirty \/ flow.dirty = "skip" => "skip" \in said
    /\ client.input.cleanup = "no" \/ flow.cleanup = "no" => "cleanup_no" \in said

\* No phase waits for the answer whether to go on after the agent's commit.
ContinueUnasked == flow.phase # "confirming_continue"

AnswerInv ==
    /\ QuestionOpen
    /\ ContinueUnasked
    /\ AnswersSaid
    /\ DirtyDetectionNeedsConsent
    /\ NothingLeftBehind

\* The empty input carries no answer.
LEMMA PlainAnswers ==
    /\ PlainInput \in Inputs /\ ~PlainInput.ignoreDirty
    /\ PlainInput.dirty = "none" /\ PlainInput.continue = "none"
    /\ PlainInput.cleanup = "none" /\ PlainInput.closeout = "none"
  BY DEF PlainInput, Inputs

\* Initially no question is open and no answer given.
LEMMA InitAnswers == Init => AnswerInv
  <1> SUFFICES ASSUME Init
               PROVE  AnswerInv
    OBVIOUS
  <1>1. /\ client.pc = "idle" /\ client.input = PlainInput /\ ~client.ignoreDirty
        /\ flow = Detecting /\ last.effects = {}
    BY DEF Init
  <1>2. /\ ~flow.ignoreDirty /\ flow.dirty = "none" /\ flow.cleanup = "none"
        /\ flow.phase = "detecting"
    BY <1>1 DEF Detecting
  <1> QED
    BY <1>1, <1>2, PlainAnswers
       DEF AnswerInv, QuestionOpen, ContinueUnasked, AnswersSaid,
           DirtyDetectionNeedsConsent, NothingLeftBehind

\* A step of the client that only chooses what to send or show next, with an
\* answer that was asked for and is remembered.
LEMMA ClientAnswers ==
    ASSUME AnswerInv, UNCHANGED <<project, flow, completed, last>>,
           said \subseteq said', QuestionOpen',
           client'.ignoreDirty => client.ignoreDirty \/ "skip" \in said',
           client'.input.ignoreDirty \/ client'.input.dirty = "skip" => "skip" \in said',
           client'.input.cleanup = "no" => "cleanup_no" \in said'
    PROVE  AnswerInv'
  BY DEF AnswerInv, ContinueUnasked, AnswersSaid, DirtyDetectionNeedsConsent,
         NothingLeftBehind

\* A client that rests or asks has an empty input and keeps its way to treat
\* uncommitted changes; what it asks is what the phase says.
LEMMA ClientAfterAsks ==
    ASSUME client \in ClientType, NEW phase \in Phases
    PROVE  LET c == ClientAfter(phase)
           IN  /\ c.input = PlainInput /\ c.ignoreDirty = client.ignoreDirty
               /\ c.pc # "calling"
               /\ c.pc = "ask_dirty" => phase = "prompting_dirty"
               /\ c.pc = "ask_closeout" => phase = "prompting_closeout"
               /\ c.pc = "ask_cleanup" => phase = "confirming_cleanup"
  BY DEF ClientAfter, Rest, Ask, Phases, ClientType

\* What executing a transition leaves in the flow and in the record of it.
LEMMA ExecuteKeeps ==
    ASSUME NEW tr \in TransitionType, NEW w, NEW e, NEW ok \in BOOLEAN,
           Execute(tr, w, e, ok)
    PROVE  /\ \/ flow' = Detecting
              \/ /\ flow'.ignoreDirty = tr.state.ignoreDirty
                 /\ flow'.dirty = tr.state.dirty
                 /\ flow'.cleanup = tr.state.cleanup
                 /\ flow'.phase \in {tr.state.phase, "blocked"}
           /\ "commit" \in last'.effects => last'.effects = EffectSet(tr)
           /\ last'.clean = w.clean /\ last'.mismatch = w.mismatch
           /\ last'.event = e.kind
  <1> DEFINE stops == ~ok /\ EffectSet(tr) \cap {"reconcile", "publish"} # {}
             done  == "commit" \in EffectSet(tr) /\ ~stops
             final == IF stops THEN [tr.state EXCEPT !.phase = "blocked"] ELSE tr.state
  <1>1. tr.state \in CompletionStates
    BY DEF TransitionType
  <1>2. /\ final \in CompletionStates /\ SameDirty(final, tr.state)
        /\ final.cleanup = tr.state.cleanup /\ final.phase \in {tr.state.phase, "blocked"}
    BY <1>1 DEF CompletionStates, Phases, SameDirty
  <1>3. /\ SameDirty(Persisted(final), tr.state) /\ Persisted(final).cleanup = tr.state.cleanup
        /\ Persisted(final).phase = final.phase
    <2> HIDE DEF final
    <2> QED
      BY <1>2 DEF Persisted, CompletionStates, SameDirty
  <1>4. flow' = IF done THEN Detecting ELSE Persisted(final)
    BY DEF Execute
  <1>5. last'.effects = EffectSet(tr) \ (IF stops THEN {"commit"} ELSE {})
          /\ last'.clean = w.clean /\ last'.mismatch = w.mismatch /\ last'.event = e.kind
    BY DEF Execute
  <1> HIDE DEF final, done, stops
  <1> QED
    BY <1>2, <1>3, <1>4, <1>5 DEF SameDirty

\* The facts of a worktree: a branch that differs from its target is there,
\* and a closed session is clean.
LEMMA GatheredConsistent ==
    ASSUME NEW f \in GatheredFacts
    PROVE  /\ project.isolated /\ World(project, f).mismatch => Differs(World(project, f))
           /\ World(project, f).closedOut => World(project, f).clean
  BY DEF GatheredFacts, WorktreeFacts, CurrentBranchFacts, World, Differs

\* A transition executed by the backend, whose answers have all been given.
LEMMA ExecuteAnswers ==
    ASSUME IInv, AnswerInv, NEW f \in GatheredFacts, NEW tr \in TransitionType,
           NEW e, NEW ok \in BOOLEAN,
           Execute(tr, World(project, f), e, ok), UNCHANGED <<project, said>>,
           tr.state.ignoreDirty \/ tr.state.dirty = "skip" => "skip" \in said,
           tr.state.cleanup = "no" => "cleanup_no" \in said,
           tr.state.phase # "confirming_continue",
           Differs(World(project, f)) => Settles(tr),
           e.kind = "begin" /\ "commit" \in EffectSet(tr) /\ ~World(project, f).clean
             => "skip" \in said,
           client'.input = PlainInput, client'.ignoreDirty = client.ignoreDirty
    PROVE  /\ AnswersSaid' /\ ContinueUnasked'
           /\ DirtyDetectionNeedsConsent' /\ NothingLeftBehind'
  <1> DEFINE w == World(project, f)
  <1>1. /\ \/ flow' = Detecting
           \/ /\ flow'.ignoreDirty = tr.state.ignoreDirty
              /\ flow'.dirty = tr.state.dirty
              /\ flow'.cleanup = tr.state.cleanup
              /\ flow'.phase \in {tr.state.phase, "blocked"}
        /\ "commit" \in last'.effects => last'.effects = EffectSet(tr)
        /\ last'.clean = w.clean /\ last'.mismatch = w.mismatch /\ last'.event = e.kind
    BY ExecuteKeeps
  <1>2. /\ ~Detecting.ignoreDirty /\ Detecting.dirty = "none" /\ Detecting.cleanup = "none"
        /\ Detecting.phase = "detecting"
    BY DEF Detecting
  <1>3. AnswersSaid'
    BY <1>1, <1>2, PlainAnswers DEF AnswersSaid, AnswerInv
  <1>4. DirtyDetectionNeedsConsent'
    BY <1>1 DEF DirtyDetectionNeedsConsent
  <1>5. NothingLeftBehind'
    BY <1>1, GatheredConsistent DEF NothingLeftBehind, Settles
  <1>6. ContinueUnasked'
    BY <1>1, <1>2 DEF ContinueUnasked
  <1> QED
    BY <1>3, <1>4, <1>5, <1>6

LEMMA NextAnswers ==
    BoundsAssumption /\ IInv /\ AnswerInv /\ [Next]_vars => AnswerInv'
  <1> SUFFICES ASSUME BoundsAssumption, IInv, AnswerInv, [Next]_vars
               PROVE  AnswerInv'
    OBVIOUS
  <1>0. /\ client \in ClientType /\ client.input \in Inputs
        /\ flow \in CompletionStates /\ project \in Projects
        /\ QuestionOpen /\ AnswersSaid
    BY DEF IInv, TypeOK, ClientType, AnswerInv
  <1>1. ASSUME NEW ignoreDirty \in BOOLEAN, NEW dirty \in {"none", "auto_commit"},
               Start(ignoreDirty, dirty)
        PROVE  AnswerInv'
    <2> DEFINE in == [PlainInput EXCEPT !.dirty = dirty]
    <2>1. /\ in.dirty = dirty /\ in.cleanup = "none" /\ in.closeout = "none"
          /\ ~in.ignoreDirty
      BY PlainAnswers DEF PlainInput
    <2>2. client'.input = in /\ client'.ignoreDirty = ignoreDirty /\ client'.pc = "calling"
      BY <1>0, <1>1 DEF Start, ClientType
    <2> HIDE DEF in
    <2>3. QuestionOpen'
      BY <2>1, <2>2 DEF QuestionOpen
    <2> QED
      BY <1>1, <2>1, <2>2, <2>3, ClientAnswers DEF Start
  <1>2. CASE CallRejected \/ CallGitOperation \/ CallForgeCliMissing \/ PollGivesUp
    <2>1. PICK o \in Outcomes : client' = Rest(o)
      BY <1>2 DEF CallRejected, CallGitOperation, CallForgeCliMissing, PollGivesUp, Outcomes
    <2>2. /\ client'.input = PlainInput /\ client'.pc = "idle"
          /\ client'.ignoreDirty = client.ignoreDirty
      BY <1>0, <2>1 DEF Rest, ClientType
    <2>3. QuestionOpen'
      BY <2>2 DEF QuestionOpen
    <2> QED
      BY <1>2, <2>2, <2>3, ClientAnswers, PlainAnswers
         DEF CallRejected, CallGitOperation, CallForgeCliMissing, PollGivesUp
  <1>3. CASE PollNothing
    <2>1. client'.ignoreDirty = client.ignoreDirty
            /\ \/ client'.input = client.input /\ client'.pc = "waiting"
               \/ client'.input = PlainInput /\ client'.pc = "idle"
      BY <1>0, <1>3 DEF PollNothing, Rest, ClientType
    <2>2. QuestionOpen'
      BY <2>1 DEF QuestionOpen
    <2> QED
      BY <1>0, <1>3, <2>1, <2>2, ClientAnswers, PlainAnswers DEF PollNothing, AnswersSaid
  <1>4. ASSUME NEW choice \in {"auto_commit", "skip", "cancel"}, AnswerDirty(choice)
        PROVE  AnswerInv'
    <2> DEFINE in == [PlainInput EXCEPT !.dirty = choice]
    <2>1. /\ in.dirty = choice /\ in.cleanup = "none" /\ in.closeout = "none"
          /\ ~in.ignoreDirty
      BY PlainAnswers DEF PlainInput
    <2>2. client'.input = in /\ client'.ignoreDirty = client.ignoreDirty
      BY <1>0, <1>4 DEF AnswerDirty, ClientType
    <2>3. QuestionOpen'
      <3>1. client'.pc = "calling" /\ flow' = flow /\ flow.phase = "prompting_dirty"
        BY <1>0, <1>4 DEF AnswerDirty, ClientType, QuestionOpen
      <3>2. choice = "cancel" => in = [PlainInput EXCEPT !.dirty = "cancel"]
        OBVIOUS
      <3> HIDE DEF in
      <3> QED
        BY <2>1, <2>2, <3>1, <3>2 DEF QuestionOpen
    <2> HIDE DEF in
    <2> QED
      BY <1>4, <2>1, <2>2, <2>3, ClientAnswers DEF AnswerDirty
  <1>5. ASSUME NEW choice \in {"none", "merge", "pr"}, AnswerCloseout(choice)
        PROVE  AnswerInv'
    <2> DEFINE in == IF choice = "none" THEN [PlainInput EXCEPT !.dirty = "cancel"]
                     ELSE [PlainInput EXCEPT !.closeout = choice]
    <2>1. /\ in.dirty # "skip" /\ in.cleanup = "none" /\ ~in.ignoreDirty
          /\ in.dirty = "cancel" => in = [PlainInput EXCEPT !.dirty = "cancel"]
      BY PlainAnswers DEF PlainInput
    <2>2. Send(in) /\ flow' = flow /\ flow.phase = "prompting_closeout"
      BY <1>0, <1>5 DEF AnswerCloseout, QuestionOpen
    <2> HIDE DEF in
    <2>3. /\ client'.input = in /\ client'.ignoreDirty = client.ignoreDirty
          /\ client'.pc = "calling"
      BY <1>0, <2>2 DEF Send, ClientType
    <2>4. QuestionOpen'
      BY <2>1, <2>2, <2>3 DEF QuestionOpen
    <2> QED
      BY <1>5, <2>1, <2>3, <2>4, ClientAnswers DEF AnswerCloseout
  <1>6. ASSUME NEW choice \in {"yes", "no"}, AnswerCleanup(choice)
        PROVE  AnswerInv'
    <2> DEFINE in == [PlainInput EXCEPT !.cleanup = choice]
    <2>1. /\ in.cleanup = choice /\ in.dirty = "none" /\ in.closeout = "none"
          /\ ~in.ignoreDirty
      BY PlainAnswers DEF PlainInput
    <2>2. Send(in) /\ flow' = flow /\ flow.phase = "confirming_cleanup"
      BY <1>0, <1>6 DEF AnswerCleanup, QuestionOpen
    <2> HIDE DEF in
    <2>3. /\ client'.input = in /\ client'.ignoreDirty = client.ignoreDirty
          /\ client'.pc = "calling"
      BY <1>0, <2>2 DEF Send, ClientType
    <2>4. QuestionOpen'
      BY <2>1, <2>2, <2>3 DEF QuestionOpen
    <2> QED
      BY <1>6, <2>1, <2>3, <2>4, ClientAnswers DEF AnswerCleanup
  <1>7. ASSUME NEW choice \in {"yes", "no"}, AnswerContinue(choice)
        PROVE  AnswerInv'
    <2> DEFINE in == [PlainInput EXCEPT !.continue = choice]
    <2>1. /\ in.cleanup = "none" /\ in.dirty = "none" /\ in.closeout = "none"
          /\ ~in.ignoreDirty
      BY PlainAnswers DEF PlainInput
    <2>2. /\ client'.input = in /\ client'.ignoreDirty = client.ignoreDirty
          /\ client'.pc = "calling"
      BY <1>0, <1>7 DEF AnswerContinue, ClientType
    <2> HIDE DEF in
    <2>3. QuestionOpen'
      BY <2>1, <2>2 DEF QuestionOpen
    <2> QED
      BY <1>7, <2>1, <2>2, <2>3, ClientAnswers DEF AnswerContinue
  <1>8. ASSUME NEW f \in GatheredFacts, NEW ok \in BOOLEAN, Call(World(project, f), ok)
        PROVE  AnswerInv'
    <2> DEFINE w == World(project, f)
               state == FoldInput(flow, CallInput)
               event == DeriveEvent(state, CallInput)
               tr == Advance(state, w, event)
               phase == IF completed' THEN "completed" ELSE flow'.phase
    <2>1. w \in Worlds
      BY <1>0, WorldTyped, GatheredTyped
    <2>2. /\ CallInput \in Inputs /\ CallInput.cleanup = client.input.cleanup
          /\ CallInput.dirty = client.input.dirty
          /\ CallInput.ignoreDirty = client.ignoreDirty
      BY <1>0 DEF CallInput, Inputs, ClientType
    <2>3. /\ state \in CompletionStates
          /\ state.ignoreDirty \/ state.dirty = "skip" => "skip" \in said
          /\ state.cleanup = "no" => "cleanup_no" \in said
      <3>1. flow \in CompletionStates
        BY <1>0
      <3>2. /\ flow.ignoreDirty \/ flow.dirty = "skip" => "skip" \in said
            /\ client.ignoreDirty \/ client.input.dirty = "skip" => "skip" \in said
            /\ client.input.cleanup = "no" \/ flow.cleanup = "no" => "cleanup_no" \in said
        BY <1>0 DEF AnswersSaid
      <3>3. state \in CompletionStates
        BY <2>2, <3>1, FoldTyped
      <3>4. /\ state.dirty = flow.dirty
            /\ state.ignoreDirty = (flow.ignoreDirty \/ CallInput.ignoreDirty)
            /\ state.cleanup = "no" => flow.cleanup = "no" \/ CallInput.cleanup = "no"
        BY <2>2, <3>1, FoldKeeps
      <3> HIDE DEF state
      <3> QED
        BY <2>2, <3>2, <3>3, <3>4
    <2>4. /\ event \in Events /\ event.kind # "commit_detected"
          /\ event = Event("cleanup", "no") => "cleanup_no" \in said
          /\ event = Event("dirty", "skip") => "skip" \in said
      BY <1>0, <2>2, <2>3, DerivedTyped, DerivedDirty DEF AnswersSaid
    <2>5. Legal(state.phase, event) /\ Execute(tr, w, event, ok)
            /\ client' = ClientAfter(phase) /\ UNCHANGED <<project, said>>
      BY <1>8 DEF Call
    <2>6. event.kind = "begin" => tr = BeginDetection(state, w)
      BY DEF Advance
    <2> HIDE DEF state, event
    <2>7. tr \in TransitionType
      BY <2>1, <2>3, <2>4, <2>5, AdvanceTyped
    <2>8. tr.state.ignoreDirty \/ tr.state.dirty = "skip" => "skip" \in said
      BY <2>1, <2>3, <2>4, <2>5, AdvanceKeepsDirty
    <2>9. tr.state.cleanup = "no" => "cleanup_no" \in said
      BY <2>1, <2>3, <2>4, <2>5, AdvanceEnds
    <2>10. Differs(w) => Settles(tr)
      BY <2>1, <2>3, <2>4, <2>5, AdvanceSettles
    <2>11. event.kind = "begin" /\ "commit" \in EffectSet(tr) /\ ~w.clean
             => "skip" \in said
      BY <2>1, <2>3, <2>6, DirtyCompletionSkips, GatheredConsistent DEF DirtyAlreadySkipped
    <2>12. phase \in Phases
      <3>1. IInv'
        BY NextIInv
      <3> QED
        BY <3>1 DEF IInv, TypeOK, CompletionStates, Phases
    <2>13. /\ client'.input = PlainInput /\ client'.ignoreDirty = client.ignoreDirty
           /\ client'.pc # "calling"
           /\ client'.pc = "ask_dirty" => phase = "prompting_dirty"
           /\ client'.pc = "ask_closeout" => phase = "prompting_closeout"
           /\ client'.pc = "ask_cleanup" => phase = "confirming_cleanup"
      <3> HIDE DEF phase
      <3> QED
        BY <1>0, <2>5, <2>12, ClientAfterAsks
    <2>14. QuestionOpen'
      BY <2>13 DEF QuestionOpen
    <2>16. tr.state.phase # "confirming_continue"
      <3>1. Ends(tr) \/ tr = AutoCommitting(state, w)
        BY <2>1, <2>3, <2>4, <2>5, AdvanceEnds
      <3>2. AutoCommitting(state, w).state.phase = "auto_committing"
        BY <2>3 DEF AutoCommitting, Transition, CompletionStates
      <3> QED
        BY <3>1, <3>2 DEF Ends, Waits
    <2> HIDE DEF tr, phase
    <2>15. /\ AnswersSaid' /\ ContinueUnasked'
           /\ DirtyDetectionNeedsConsent' /\ NothingLeftBehind'
      BY <2>5, <2>7, <2>8, <2>9, <2>10, <2>11, <2>13, <2>16, ExecuteAnswers
    <2> QED
      BY <2>14, <2>15 DEF AnswerInv
  <1>9. ASSUME NEW f \in GatheredFacts, NEW ok \in BOOLEAN,
               PollDetects(World(project, f), ok)
        PROVE  AnswerInv'
    <2> DEFINE w == World(project, f)
               seen == [w EXCEPT !.external = ~w.isolated]
               tr == Advance(flow, seen, CommitDetected)
    <2>1. w \in Worlds
      BY <1>0, WorldTyped, GatheredTyped
    <2>2. Execute(tr, w, CommitDetected, ok) /\ client' = Ask("ask_continue")
            /\ UNCHANGED <<project, said>> /\ flow.phase = "auto_committing"
      BY <1>9 DEF PollDetects
    <2>3. CommitDetected \in Events /\ CommitDetected.kind = "commit_detected"
            /\ Legal(flow.phase, CommitDetected)
            /\ CommitDetected # Event("dirty", "skip")
      BY <2>2 DEF Events, CommitDetected, Event, Legal
    <2> HIDE DEF w
    <2>4. seen \in Worlds /\ (Differs(w) => Differs(seen))
      BY <2>1 DEF Worlds, Differs
    <2> HIDE DEF seen
    <2>5. tr \in TransitionType
      BY <1>0, <2>3, <2>4, AdvanceTyped
    <2>6. tr.state.ignoreDirty \/ tr.state.dirty = "skip" => "skip" \in said
      BY <1>0, <2>3, <2>4, AdvanceKeepsDirty DEF AnswersSaid
    <2>7. tr.state.cleanup = "no" => "cleanup_no" \in said
      <3>1. tr = DetectCommit(flow, seen)
        BY <2>3 DEF Advance
      <3>2. tr.state.cleanup = flow.cleanup
        BY <1>0, <2>4, <3>1, DetectedEffects, AfterDirtyEnds
      <3> QED
        BY <1>0, <3>2 DEF AnswersSaid
    <2>8. Differs(w) => Settles(tr)
      BY <1>0, <2>3, <2>4, AdvanceSettles
    <2>9. /\ client'.input = PlainInput /\ client'.ignoreDirty = client.ignoreDirty
          /\ client'.pc = "ask_continue"
      BY <1>0, <2>2 DEF Ask, ClientType
    <2>10. QuestionOpen'
      BY <2>9 DEF QuestionOpen
    <2>12. tr.state.phase # "confirming_continue"
      <3>1. tr = DetectCommit(flow, seen)
        BY <2>3 DEF Advance
      <3>2. tr.state.phase = AfterDirty(flow, seen).state.phase
        BY <1>0, <2>4, <3>1, DetectedEffects
      <3>3. Ends(AfterDirty(flow, seen))
        BY <1>0, <2>4, AfterDirtyEnds
      <3> QED
        BY <3>2, <3>3 DEF Ends, Waits
    <2> HIDE DEF tr
    <2>11. /\ AnswersSaid' /\ ContinueUnasked'
           /\ DirtyDetectionNeedsConsent' /\ NothingLeftBehind'
      BY <2>2, <2>3, <2>5, <2>6, <2>7, <2>8, <2>9, <2>12, ExecuteAnswers DEF w
    <2> QED
      BY <2>10, <2>11 DEF AnswerInv
  <1>10. CASE UNCHANGED vars
    BY <1>10 DEF vars, AnswerInv, QuestionOpen, ContinueUnasked, AnswersSaid,
                 DirtyDetectionNeedsConsent, NothingLeftBehind
  <1> QED
    BY <1>1, <1>2, <1>3, <1>4, <1>5, <1>6, <1>7, <1>8, <1>9, <1>10
       DEF Next, Calls, Answers, Polls

LEMMA AnswerInvHolds == Spec => []AnswerInv
  <1>1. Init => AnswerInv
    BY InitAnswers
  <1>2. IInv /\ AnswerInv /\ [Next]_vars => AnswerInv'
    BY NextAnswers, BoundsAssumption
  <1> QED
    BY <1>1, <1>2, IInvHolds, PTL DEF Spec

\* Which event a call becomes, from the persisted phase and its input.
LEMMA DerivedEvents ==
    ASSUME NEW s \in CompletionStates, NEW in \in Inputs
    PROVE  LET event == DeriveEvent(FoldInput(s, in), in)
           IN  /\ s.phase = "prompting_dirty" /\ in.dirty # "none"
                    => event = Event("dirty", in.dirty)
               /\ s.phase = "prompting_closeout" /\ in.closeout # "none"
                    => event = Event("closeout", in.closeout)
               /\ s.phase = "prompting_closeout" /\ in.closeout = "none" /\ in.dirty = "cancel"
                    => event = Event("dirty", "cancel")
               /\ s.phase = "confirming_cleanup" /\ in.cleanup # "none"
                    => event = Event("cleanup", in.cleanup)
               /\ /\ s.phase # "confirming_continue"
                  /\ in.cleanup = "none" /\ in.closeout = "none" /\ in.dirty = "none"
                  => event = Begin
  <1> DEFINE t == FoldInput(s, in)
  <1>1. t.phase = s.phase
    BY FoldTyped
  <1> HIDE DEF t
  <1>2. /\ s.phase = "prompting_dirty" /\ in.dirty # "none"
             => DeriveEvent(t, in) = Event("dirty", in.dirty)
        /\ s.phase = "prompting_closeout" /\ in.closeout # "none"
             => DeriveEvent(t, in) = Event("closeout", in.closeout)
        /\ s.phase = "prompting_closeout" /\ in.closeout = "none" /\ in.dirty = "cancel"
             => DeriveEvent(t, in) = Event("dirty", "cancel")
        /\ s.phase = "confirming_cleanup" /\ in.cleanup # "none"
             => DeriveEvent(t, in) = Event("cleanup", in.cleanup)
        /\ /\ s.phase # "confirming_continue"
           /\ in.cleanup = "none" /\ in.closeout = "none" /\ in.dirty = "none"
           => DeriveEvent(t, in) = Begin
    BY <1>1 DEF DeriveEvent
  <1> QED
    BY <1>2 DEF t

\* What the call after an answer carries: the answer, with the way to treat
\* uncommitted changes the client was started with.
LEMMA CallCarries ==
    ASSUME NEW in \in Inputs, client'.input = in, client'.ignoreDirty \in BOOLEAN
    PROVE  /\ CallInput' \in Inputs
           /\ CallInput'.dirty = in.dirty /\ CallInput'.closeout = in.closeout
           /\ CallInput'.cleanup = in.cleanup
  BY DEF CallInput, Inputs

\* Every answer of the user, over any number of runs, polls and projects, is
\* taken for what it is, except the one whether to go on after the agent's
\* commit: no persisted phase waits for that one (ContinueUnasked), so "yes" and
\* "no" alike start a new detection.
THEOREM AnswersTakenAsGiven == Spec => AnswerReachesQuestion
  <1>1. ASSUME IInv, AnswerInv
        PROVE  AnswersHeard
    <2>0. /\ flow \in CompletionStates /\ client \in ClientType
          /\ QuestionOpen /\ ContinueUnasked
      BY <1>1 DEF IInv, TypeOK, ClientType, AnswerInv
    <2>1. ASSUME NEW in \in Inputs, flow' = flow, client'.input = in,
                 client'.ignoreDirty = client.ignoreDirty
          PROVE  /\ flow.phase = "prompting_dirty" /\ in.dirty # "none"
                      => Heard' = Event("dirty", in.dirty)
                 /\ flow.phase = "prompting_closeout" /\ in.closeout # "none"
                      => Heard' = Event("closeout", in.closeout)
                 /\ /\ flow.phase = "prompting_closeout" /\ in.closeout = "none"
                    /\ in.dirty = "cancel"
                    => Heard' = Event("dirty", "cancel")
                 /\ flow.phase = "confirming_cleanup" /\ in.cleanup # "none"
                      => Heard' = Event("cleanup", in.cleanup)
                 /\ /\ flow.phase # "confirming_continue"
                    /\ in.cleanup = "none" /\ in.closeout = "none" /\ in.dirty = "none"
                    => Heard' = Begin
      <3>1. client'.ignoreDirty \in BOOLEAN
        BY <2>0, <2>1 DEF ClientType
      <3>2. PICK call \in Inputs :
               /\ CallInput' = call /\ call.dirty = in.dirty
               /\ call.closeout = in.closeout /\ call.cleanup = in.cleanup
        BY <2>1, <3>1, CallCarries
      <3>3. Heard' = DeriveEvent(FoldInput(flow, call), call)
        BY <2>1, <3>2 DEF Heard
      <3> QED
        BY <2>0, <3>2, <3>3, DerivedEvents
    <2>2. ASSUME NEW choice \in {"auto_commit", "skip", "cancel"}, AnswerDirty(choice)
          PROVE  Heard' = Event("dirty", choice)
      <3> DEFINE in == [PlainInput EXCEPT !.dirty = choice]
      <3>1. in \in Inputs /\ in.dirty = choice
        BY DEF PlainInput, Inputs
      <3>2. /\ client'.input = in /\ client'.ignoreDirty = client.ignoreDirty
            /\ flow' = flow /\ flow.phase = "prompting_dirty"
        BY <2>0, <2>2 DEF AnswerDirty, ClientType, QuestionOpen
      <3> HIDE DEF in
      <3> QED
        BY <2>1, <3>1, <3>2
    <2>3. ASSUME NEW choice \in {"none", "merge", "pr"}, AnswerCloseout(choice)
          PROVE  Heard' = IF choice = "none" THEN Event("dirty", "cancel")
                          ELSE Event("closeout", choice)
      <3> DEFINE in == IF choice = "none" THEN [PlainInput EXCEPT !.dirty = "cancel"]
                       ELSE [PlainInput EXCEPT !.closeout = choice]
      <3>1. /\ in \in Inputs /\ in.closeout = choice
            /\ choice = "none" => in.dirty = "cancel"
        BY DEF PlainInput, Inputs
      <3>2. Send(in) /\ flow' = flow /\ flow.phase = "prompting_closeout"
        BY <2>0, <2>3 DEF AnswerCloseout, QuestionOpen
      <3> HIDE DEF in
      <3>3. client'.input = in /\ client'.ignoreDirty = client.ignoreDirty
        BY <2>0, <3>2 DEF Send, ClientType
      <3> QED
        BY <2>1, <3>1, <3>2, <3>3
    <2>4. ASSUME NEW choice \in {"yes", "no"}, AnswerCleanup(choice)
          PROVE  Heard' = Event("cleanup", choice)
      <3> DEFINE in == [PlainInput EXCEPT !.cleanup = choice]
      <3>1. in \in Inputs /\ in.cleanup = choice
        BY DEF PlainInput, Inputs
      <3>2. Send(in) /\ flow' = flow /\ flow.phase = "confirming_cleanup"
        BY <2>0, <2>4 DEF AnswerCleanup, QuestionOpen
      <3> HIDE DEF in
      <3>3. client'.input = in /\ client'.ignoreDirty = client.ignoreDirty
        BY <2>0, <3>2 DEF Send, ClientType
      <3> QED
        BY <2>1, <3>1, <3>2, <3>3
    <2>5. ASSUME NEW choice \in {"yes", "no"}, AnswerContinue(choice)
          PROVE  Heard' = Begin
      <3> DEFINE in == [PlainInput EXCEPT !.continue = choice]
      <3>1. /\ in \in Inputs /\ in.cleanup = "none" /\ in.closeout = "none"
            /\ in.dirty = "none"
        BY DEF PlainInput, Inputs
      <3>2. /\ client'.input = in /\ client'.ignoreDirty = client.ignoreDirty
            /\ flow' = flow
        BY <2>0, <2>5 DEF AnswerContinue, ClientType
      <3>3. flow.phase # "confirming_continue"
        BY <2>0 DEF ContinueUnasked
      <3> HIDE DEF in
      <3> QED
        BY <2>1, <3>1, <3>2, <3>3
    <2> QED
      BY <2>2, <2>3, <2>4, <2>5 DEF AnswersHeard
  <1> QED
    BY <1>1, IInvHolds, AnswerInvHolds, PTL DEF AnswerReachesQuestion

\* A detection never takes uncommitted changes into a merge or a completion
\* unless the user chose, in this or an earlier run, to leave them.
THEOREM DirtyConsented == Spec => []DirtyDetectionNeedsConsent
  <1>1. AnswerInv => DirtyDetectionNeedsConsent
    BY DEF AnswerInv
  <1> QED
    BY <1>1, AnswerInvHolds, PTL

\* The branch of an isolated session's worktree that is there and differs from
\* its target is merged or published before the issue is completed, unless the
\* user declined the removal of the worktree. Of a missing worktree, which is read
\* as being on its target, it says nothing: MissingUnmergedBlocks does not hold.
THEOREM WorkSettled == Spec => []NothingLeftBehind
  <1>1. AnswerInv => NothingLeftBehind
    BY DEF AnswerInv
  <1> QED
    BY <1>1, AnswerInvHolds, PTL
=============================================================================
