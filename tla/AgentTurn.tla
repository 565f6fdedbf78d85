------------------------------ MODULE AgentTurn ------------------------------
(***************************************************************************)
(* The turns of one structured agent session: who asked for a turn, the    *)
(* provider that runs it, the broadcaster that keeps the turn's state in   *)
(* the session's row (agent_event_broadcaster.rs), the tasks that take the *)
(* row out of its grace period, and the comments posted for turns that     *)
(* completed (completion_comment.rs).                                      *)
(*                                                                         *)
(* Events are persisted one at a time, under the log lock, but by several  *)
(* UPDATE statements that commit one by one; commands, finalizers and      *)
(* posts have connections of their own and get in between.  The provider   *)
(* is external: it is seen through the notifications the Codex session     *)
(* handles (codex_app_server/session.rs).                                  *)
(***************************************************************************)
EXTENDS Naturals, Sequences

CONSTANTS
    MaxMessages,  \* messages sent to the session after the first
    MaxCancels    \* cancellations that find no turn

ASSUME TurnAssumption == MaxMessages \in Nat /\ MaxCancels \in Nat

VARIABLES
    row,         \* the turn columns of the session's row; ended 0 is NULL
    agent,       \* the provider: running turn, known turn id, queued messages
    sending,     \* the messages whose source is written and that are not sent
    emit,        \* per thread, what is left to do to persist its event
    lock,        \* the thread in the log lock
    finalizers,  \* the ends of turns that a sleeping task will finalize
    posting,     \* the turns handed to the comment handler, with their source
    comments,    \* the comments on the issue, by turn and whether tagged
    past         \* history: origin and end of each turn, deviations, counters

vars == <<row, agent, sending, emit, lock, finalizers, posting, comments, past>>

Turns == 1..(MaxMessages + 1)

Sources == {"initial", "follow_up", "completion"}

Threads == {"stream", "cancel"}

Statements == {"run", "clear", "record", "finalizer", "handler", "stop", "ensure"}

\* What can make the row differ from the agent for longer than an event.
Deviations == {"overlap", "spurious", "late_cancel", "cut"}

TypeOK ==
    /\ row \in [status : {"running", "stopped"}, running : BOOLEAN,
                ended : Nat, source : Sources]
    /\ agent \in [busy : Nat, turn : Nat, asked : Seq(Sources), interrupted : BOOLEAN]
    /\ sending \subseteq Sources
    /\ emit \in [Threads -> [todo : Seq(Statements), turn : Nat]]
    /\ lock \in Threads \cup {"none"}
    /\ finalizers \subseteq Nat
    /\ posting \subseteq [turn : Nat \ {0}, source : Sources]
    /\ comments \subseteq [turn : Nat \ {0}, tagged : BOOLEAN]
    /\ past \in [origin : [Turns -> Sources \cup {"none"}],
                 end : [Turns -> {"none", "completed", "canceled", "failed"}],
                 odd : SUBSET Deviations, started : Nat, stamp : Nat,
                 sent : 0..MaxMessages, cancels : 0..MaxCancels]

\* start_structured_session_runtime has sent the first message.
Init ==
    /\ row = [status |-> "running", running |-> FALSE, ended |-> 0, source |-> "initial"]
    /\ agent = [busy |-> 0, turn |-> 0, asked |-> <<"initial">>, interrupted |-> FALSE]
    /\ sending = {}
    /\ emit = [th \in Threads |-> [todo |-> <<>>, turn |-> 0]]
    /\ lock = "none"
    /\ finalizers = {}
    /\ posting = {}
    /\ comments = {}
    /\ past = [origin |-> [t \in Turns |-> "none"], end |-> [t \in Turns |-> "none"],
               odd |-> {}, started |-> 0, stamp |-> 0, sent |-> 0, cancels |-> 0]

Running == row.status = "running"

Silent(th) == emit[th].todo = <<>>

Emit(th, statements, t) ==
    /\ Silent(th)
    /\ emit' = [emit EXCEPT ![th] = [todo |-> statements, turn |-> t]]

Odd(deviations) == [past EXCEPT !.odd = @ \cup deviations]

(***************************************************************************)
(* Messages.  send_agent_message and the commit prompt of the completion   *)
(* write the source of the turn to come, then hand the message over.  They *)
(* overlap a turn when one is asked for, runs or is not persisted yet.     *)
(***************************************************************************)
Overlaps == agent.busy # 0 \/ agent.asked # <<>> \/ sending # {} \/ ~Silent("stream")

\* Mutant of Mark: the source is left as it is.
MarkNothing(source) ==
    /\ Running /\ source \notin sending /\ past.sent < MaxMessages
    /\ sending' = sending \cup {source}
    /\ past' = [Odd(IF Overlaps THEN {"overlap"} ELSE {}) EXCEPT !.sent = @ + 1]
    /\ UNCHANGED <<row, agent, emit, lock, finalizers, posting, comments>>

Mark(source) ==
    /\ Running /\ source \notin sending /\ past.sent < MaxMessages
    /\ row' = [row EXCEPT !.source = source]
    /\ sending' = sending \cup {source}
    /\ past' = [Odd(IF Overlaps THEN {"overlap"} ELSE {}) EXCEPT !.sent = @ + 1]
    /\ UNCHANGED <<agent, emit, lock, finalizers, posting, comments>>

Send(source) ==
    /\ source \in sending
    /\ sending' = sending \ {source}
    /\ agent' = IF Running THEN [agent EXCEPT !.asked = Append(@, source)] ELSE agent
    /\ UNCHANGED <<row, emit, lock, finalizers, posting, comments, past>>

(***************************************************************************)
(* The provider.  A message starts a turn or, during one, is taken up by   *)
(* it.  build_events knows the turn from its start to its first end; some  *)
(* providers report an end and go on.  An interrupted turn ends with a     *)
(* status that is neither failed nor aborted, and counts as completed; an  *)
(* end with an empty error gets the grace period, but no comment.          *)
(***************************************************************************)
Started == <<"run", "clear">>
Completed == <<"record", "finalizer", "handler">>
EmptyError == <<"record", "finalizer">>
Stopped == <<"stop", "clear">>
ActiveWork == <<"ensure">>

StartTurn ==
    /\ agent.busy = 0 /\ agent.asked # <<>>
    /\ LET t == past.started + 1
       IN  /\ Emit("stream", Started, t)
           /\ agent' = [agent EXCEPT !.busy = t, !.turn = t, !.asked = Tail(@)]
           /\ past' = [past EXCEPT !.started = t, !.origin[t] = Head(agent.asked)]
    /\ UNCHANGED <<row, sending, lock, finalizers, posting, comments>>

TakeUp ==
    /\ agent.busy # 0 /\ agent.asked # <<>>
    /\ agent' = [agent EXCEPT !.asked = Tail(@)]
    /\ UNCHANGED <<row, sending, emit, lock, finalizers, posting, comments, past>>

Work ==
    /\ agent.busy # 0
    /\ Emit("stream", ActiveWork, agent.busy)
    /\ UNCHANGED <<row, agent, sending, lock, finalizers, posting, comments, past>>

SpuriousEnd(statements) ==
    /\ agent.turn # 0
    /\ Emit("stream", statements, agent.turn)
    /\ agent' = [agent EXCEPT !.turn = 0]
    /\ past' = Odd({"spurious"})
    /\ UNCHANGED <<row, sending, lock, finalizers, posting, comments>>

EndTurn(end, statements) ==
    /\ agent.busy # 0
    /\ end = "canceled" => agent.interrupted
    /\ Emit("stream", statements, agent.busy)
    /\ agent' = [agent EXCEPT !.busy = 0, !.turn = 0, !.interrupted = FALSE]
    /\ past' = [past EXCEPT !.end[agent.busy] = end]
    /\ UNCHANGED <<row, sending, lock, finalizers, posting, comments>>

(***************************************************************************)
(* cancel_turn: the known turn is interrupted; without one the local state *)
(* is closed, by an event of the command's own thread.                     *)
(***************************************************************************)
Interrupt ==
    /\ Running /\ agent.turn # 0
    /\ agent' = [agent EXCEPT !.interrupted = TRUE]
    /\ UNCHANGED <<row, sending, emit, lock, finalizers, posting, comments, past>>

\* Mutant of CancelNothing: the turn it does not find is reported completed.
CancelCompletes ==
    /\ agent.turn = 0 /\ past.cancels < MaxCancels
    /\ Emit("cancel", Completed, 0)
    /\ past' = [Odd({"late_cancel"}) EXCEPT !.cancels = @ + 1]
    /\ UNCHANGED <<row, agent, sending, lock, finalizers, posting, comments>>

CancelNothing ==
    /\ agent.turn = 0 /\ past.cancels < MaxCancels
    /\ Emit("cancel", Stopped, 0)
    /\ past' = [Odd({"late_cancel"}) EXCEPT !.cancels = @ + 1]
    /\ UNCHANGED <<row, agent, sending, lock, finalizers, posting, comments>>

(***************************************************************************)
(* persist_stream_event: the lock, the statements of the event, one commit *)
(* each, and the tasks they start.                                         *)
(***************************************************************************)
\* Thread th executes the next statement of its event; the first takes the
\* lock and the last releases it.
Executes(th, statement) ==
    /\ lock \in {"none", th}
    /\ ~Silent(th) /\ Head(emit[th].todo) = statement
    /\ emit' = [emit EXCEPT ![th].todo = Tail(@)]
    /\ lock' = IF Len(emit[th].todo) = 1 THEN "none" ELSE th
    /\ UNCHANGED <<agent, sending, comments>>

Run(th) ==
    /\ Executes(th, "run")
    /\ row' = IF Running THEN [row EXCEPT !.running = TRUE] ELSE row
    /\ UNCHANGED <<finalizers, posting, past>>

\* The only statement that does not look at the status.
Clear(th) ==
    /\ Executes(th, "clear")
    /\ row' = [row EXCEPT !.ended = 0]
    /\ UNCHANGED <<finalizers, posting, past>>

Stop(th) ==
    /\ Executes(th, "stop")
    /\ row' = IF Running THEN [row EXCEPT !.running = FALSE] ELSE row
    /\ UNCHANGED <<finalizers, posting, past>>

Record(th) ==
    /\ Executes(th, "record")
    /\ past' = [past EXCEPT !.stamp = @ + 1]
    /\ row' = IF Running THEN [row EXCEPT !.ended = past.stamp + 1] ELSE row
    /\ UNCHANGED <<finalizers, posting>>

\* Mutant of SpawnFinalizer: only when no other finalizer is waiting.
SpawnOneFinalizer(th) ==
    /\ Executes(th, "finalizer")
    /\ finalizers' = IF finalizers = {} THEN {past.stamp} ELSE finalizers
    /\ UNCHANGED <<row, posting, past>>

SpawnFinalizer(th) ==
    /\ Executes(th, "finalizer")
    /\ finalizers' = finalizers \cup {past.stamp}
    /\ UNCHANGED <<row, posting, past>>

SpawnHandler(th) ==
    /\ Executes(th, "handler")
    /\ posting' = posting \cup {[turn |-> emit[th].turn, source |-> row.source]}
    /\ UNCHANGED <<row, finalizers, past>>

\* Throttled together with latest_output: it may be left out.
Ensure(th) ==
    /\ Executes(th, "ensure")
    /\ \/ UNCHANGED row
       \/ /\ Running /\ (~row.running \/ row.ended # 0)
          /\ row' = [row EXCEPT !.running = TRUE, !.ended = 0]
    /\ UNCHANGED <<finalizers, posting, past>>

(***************************************************************************)
(* The task that sleeps over the grace period.  It cuts a turn off when it *)
(* comes between the two statements of the turn's start.                   *)
(***************************************************************************)
Finalizes(e) == Running /\ row.running /\ row.ended = e

InStart == lock = "stream" /\ emit["stream"].todo = <<"clear">>

\* Mutant of Finalize: the end is not compared with the expected one.
FinalizeAny(e) ==
    /\ e \in finalizers
    /\ finalizers' = finalizers \ {e}
    /\ IF Running /\ row.running
       THEN /\ row' = [row EXCEPT !.running = FALSE, !.ended = 0]
            /\ past' = Odd(IF InStart THEN {"cut"} ELSE {})
       ELSE UNCHANGED <<row, past>>
    /\ UNCHANGED <<agent, sending, emit, lock, posting, comments>>

Finalize(e) ==
    /\ e \in finalizers
    /\ finalizers' = finalizers \ {e}
    /\ IF Finalizes(e)
       THEN /\ row' = [row EXCEPT !.running = FALSE, !.ended = 0]
            /\ past' = Odd(IF InStart THEN {"cut"} ELSE {})
       ELSE UNCHANGED <<row, past>>
    /\ UNCHANGED <<agent, sending, emit, lock, posting, comments>>

(***************************************************************************)
(* try_publish_completion_comment: a tagged answer is always posted, any   *)
(* other only for a turn of an eligible source; one comment for a turn.    *)
(***************************************************************************)
Eligible(source) == source \in {"initial", "completion"}

\* Mutant of Post: only tagged answers are posted.
PostTagged(h, tagged) ==
    /\ h \in posting
    /\ posting' = posting \ {h}
    /\ comments' = IF tagged /\ \A c \in comments : c.turn # h.turn
                   THEN comments \cup {[turn |-> h.turn, tagged |-> TRUE]} ELSE comments
    /\ UNCHANGED <<row, agent, sending, emit, lock, finalizers, past>>

Post(h, tagged) ==
    /\ h \in posting
    /\ posting' = posting \ {h}
    /\ comments' = IF (tagged \/ Eligible(h.source)) /\ \A c \in comments : c.turn # h.turn
                   THEN comments \cup {[turn |-> h.turn, tagged |-> tagged]} ELSE comments
    /\ UNCHANGED <<row, agent, sending, emit, lock, finalizers, past>>

\* The session ends, by its process or by the user; the row is reset.
SessionEnds ==
    /\ Running
    /\ row' = [row EXCEPT !.status = "stopped", !.running = FALSE, !.ended = 0]
    /\ agent' = [busy |-> 0, turn |-> 0, asked |-> <<>>, interrupted |-> FALSE]
    /\ UNCHANGED <<sending, emit, lock, finalizers, posting, comments, past>>

Persists(th) ==
    \/ Run(th) \/ Clear(th) \/ Stop(th) \/ Record(th) \/ Ensure(th)
    \/ SpawnFinalizer(th) \/ SpawnHandler(th)

Provides ==
    \/ StartTurn \/ TakeUp \/ Work
    \/ SpuriousEnd(Completed) \/ SpuriousEnd(EmptyError)
    \/ EndTurn("completed", Completed) \/ EndTurn("canceled", Completed)
    \/ EndTurn("failed", Stopped) \/ EndTurn("failed", EmptyError)

Next ==
    \/ \E source \in {"follow_up", "completion"} : Mark(source) \/ Send(source)
    \/ Provides
    \/ Interrupt \/ CancelNothing
    \/ \E th \in Threads : Persists(th)
    \/ \E e \in finalizers : Finalize(e)
    \/ \E h \in posting, tagged \in BOOLEAN : Post(h, tagged)
    \/ SessionEnds

Spec == Init /\ [][Next]_vars

(***************************************************************************)
(* Properties                                                              *)
(***************************************************************************)

\* The thread in the lock is at a statement.
At(statement) ==
    \E th \in Threads : lock = th /\ ~Silent(th) /\ Head(emit[th].todo) = statement

\* A row in its grace period has a task that will take it out of it, or a
\* thread that is about to start one or to clear the end: no grace period is
\* forgotten, whatever is canceled, reported twice or sent in between.
GraceHasFinalizer ==
    row.running /\ row.ended # 0 =>
        \/ row.ended \in finalizers
        \/ row.ended = past.stamp /\ At("finalizer")
        \/ At("clear")

\* is_turn_in_progress, which the completion asks before it gives a turn up.
InProgress == Running /\ (row.running \/ row.ended # 0)

Quiet ==
    /\ agent.busy = 0 /\ agent.asked = <<>>
    /\ \A th \in Threads : Silent(th)
    /\ finalizers = {}

\* A session with nothing left to do is not in a turn.
QuietMeansIdle == Quiet => ~InProgress

\* Neither was an end reported twice, nor did a cancellation find no turn, nor
\* did a task fall between the two statements of a start.
Orderly == past.odd \subseteq {"overlap"}

\* So it is in an orderly session.
OrderlyQuietMeansIdle == Orderly => QuietMeansIdle

\* In an orderly session a turn that runs is shown as running, however the
\* tasks of earlier turns fall.
LiveTurnShown ==
    Orderly /\ Running /\ agent.busy # 0 /\ Silent("stream") => row.running

\* ADR 0029: without a tag only first turns and commit prompts are commented.
FollowUpsSilent ==
    \A c \in comments : ~c.tagged => Eligible(past.origin[c.turn])

\* So it is unless a message was sent while a turn was under way.
OrderlyFollowUpsSilent == "overlap" \notin past.odd => FollowUpsSilent

\* ADR 0029: every first turn and commit prompt that completes is commented.
DeliveryCommented ==
    "overlap" \notin past.odd /\ Silent("stream") /\ posting = {} =>
        \A t \in Turns : past.end[t] = "completed" /\ Eligible(past.origin[t]) =>
            \E c \in comments : c.turn = t

\* ADR 0029: a canceled turn gets no comment of its own accord.
CanceledTurnsSilent ==
    \A c \in comments : ~c.tagged => past.end[c.turn] # "canceled"
=============================================================================
