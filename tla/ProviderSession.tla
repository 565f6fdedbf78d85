--------------------------- MODULE ProviderSession ---------------------------
(***************************************************************************)
(* A structured session whose provider is started once per message:        *)
(* Claude (claude_streaming/session.rs, transport.rs) and OpenCode         *)
(* (opencode_streaming), with the composer of the message stream in front  *)
(* of it (use-agent-composer.ts).                                          *)
(*                                                                         *)
(* Each process has a thread that reads its output and one that waits for  *)
(* the end of it; commands run on threads of their own.  All of them write *)
(* the one turn state of the session.  A message typed during a turn is    *)
(* queued by the view and sent when the view is out of the turn.           *)
(*                                                                         *)
(* Texts, tools, usage and models only fill the timeline and are left out; *)
(* so is the conversation's id.  The row's turn state is the one AgentTurn *)
(* looks at closely: here it is live, and in grace after a completion.     *)
(* A late text that brings a view back to running after an abnormal stop   *)
(* reason is left out with the texts.                                      *)
(***************************************************************************)
EXTENDS Naturals, Sequences, FiniteSets

CONSTANTS
    Providers,   \* the providers to look at
    MaxPrompts,  \* messages the user submits and prompts a completion sends
    MaxCancels,  \* turns the user stops
    MaxViews,    \* times the view is mounted
    MaxSteps,    \* steps the processes of OpenCode go through
    Backlog      \* lines not read and events not delivered when a line is printed

ASSUME ProviderAssumption ==
    /\ Providers \subseteq {"claude", "opencode"}
    /\ MaxViews \in Nat \ {0}
    /\ \A n \in {MaxPrompts, MaxCancels, MaxSteps, Backlog} : n \in Nat

VARIABLES
    provider,  \* the provider of the session
    handle,    \* the handle: turn, whether its end is known, process
    send,      \* per caller of send_message, how far it is
    cancel,    \* how far cancel_turn is
    proc,      \* per message sent, its process and the threads on it
    row,       \* the turn state of the session's row
    wire,      \* the events on their way to the view
    view,      \* the view of the session and its composer
    cache,     \* a queued follow-up is in the cache of the composers
    past       \* history: ends told, follow-up owed, deviations, counters

vars == <<provider, handle, send, cancel, proc, row, wire, view, cache, past>>

Procs == 1..MaxPrompts

\* A composer belongs to one mounting of the view; 0 injects prompts.
Callers == 0..MaxViews

Stages == {"none", "begun", "cleared", "spawned", "reset", "heard"}

Lines == {"text", "ok", "error", "start", "finish"}

\* How an end, a queued message or the single process can get lost:
\*   overlap   a completion's prompt and a message cross (inject waits for no turn)
\*   unseen    a message is sent before the view knows of a turn
\*   remount   a composer sends while one of an earlier view still does
\*   cut       OpenCode shuts a process whose turn has not ended
\*   missed    the output ended before subscribe_eof
\*   crossed   what one process does ends or hides the turn of another
\*   late      output read after the stop makes the row live again
\*   midway    OpenCode dies in a step after one that finished
\*   unstored  a stop comes before send_message has stored the process
\*   slipped   a stop kills another process than that of the turn it read
\*   wiped     a returning send clears what another composer queued
Deviations == {"overlap", "unseen", "remount", "unstored", "slipped", "missed",
               "crossed", "cut", "late", "midway", "wiped"}

TypeOK ==
    /\ provider \in {"claude", "opencode"}
    /\ handle \in [current : {0} \cup Procs, finalized : BOOLEAN,
                   transport : {0} \cup Procs]
    /\ send \in [Callers -> [at : Stages, queued : BOOLEAN, proc : {0} \cup Procs]]
    /\ cancel \in [at : {"none", "read", "killed"}, turn : {0} \cup Procs,
                   killed : {0} \cup Procs]
    /\ proc \in [Procs -> [life : {"none", "alive", "exited"}, out : Seq(Lines),
                           done : BOOLEAN, step : BOOLEAN, listens : BOOLEAN,
                           closed : {"no", "client", "eof"}, reads : BOOLEAN,
                           exit : {"none", "waits", "told", "fails", "over"}]]
    /\ row \in [live : BOOLEAN, grace : BOOLEAN]
    /\ wire \in Seq({"run", "stop"})
    /\ view \in [mounted : BOOLEAN, number : 1..MaxViews, running : BOOLEAN,
                 row : BOOLEAN, chip : BOOLEAN]
    /\ cache \in BOOLEAN
    /\ past \in [told : SUBSET Procs, owed : BOOLEAN, odd : SUBSET Deviations,
                 sent : {0} \cup Procs, prompts : 0..MaxPrompts,
                 cancels : 0..MaxCancels, steps : 0..MaxSteps]

NoSend == [at |-> "none", queued |-> FALSE, proc |-> 0]

NoCancel == [at |-> "none", turn |-> 0, killed |-> 0]

NoProc == [life |-> "none", out |-> <<>>, done |-> FALSE, step |-> FALSE,
           listens |-> FALSE, closed |-> "no", reads |-> FALSE,
           exit |-> "none"]

\* ClaudeSessionHandle::start, OpenCodeSessionHandle::start; the view is open.
Init ==
    /\ provider \in Providers
    /\ handle = [current |-> 0, finalized |-> TRUE, transport |-> 0]
    /\ send = [c \in Callers |-> NoSend]
    /\ cancel = NoCancel
    /\ proc = [p \in Procs |-> NoProc]
    /\ row = [live |-> FALSE, grace |-> FALSE]
    /\ wire = <<>>
    /\ view = [mounted |-> TRUE, number |-> 1, running |-> FALSE, row |-> FALSE,
               chip |-> FALSE]
    /\ cache = FALSE
    /\ past = [told |-> {}, owed |-> FALSE, odd |-> {}, sent |-> 0, prompts |-> 0,
               cancels |-> 0, steps |-> 0]

Claude == provider = "claude"
OpenCode == provider = "opencode"

Working(p) == proc[p].life = "alive" /\ ~proc[p].done

Odd(deviation, condition) == IF condition THEN {deviation} ELSE {}

(***************************************************************************)
(* Events: what each makes of the row, and of a view that is mounted.      *)
(***************************************************************************)
Emits(word, live, grace) ==
    /\ row' = [live |-> live, grace |-> grace]
    /\ wire' = IF view.mounted THEN Append(wire, word) ELSE wire

TurnStarted == Emits("run", TRUE, FALSE)
TurnCompleted == Emits("stop", row.live, TRUE)
TurnFailed == Emits("stop", FALSE, FALSE)
TurnCanceled == Emits("stop", FALSE, FALSE)

Silently == UNCHANGED <<row, wire>>

\* finalize_turn_after_grace.
GraceEnds ==
    /\ row.grace
    /\ row' = [live |-> FALSE, grace |-> FALSE]
    /\ UNCHANGED <<provider, handle, send, cancel, proc, wire, view, cache, past>>

(***************************************************************************)
(* send_message.  A caller's thread goes from stage to stage.  Claude      *)
(* announces the turn and leaves an earlier process alone; OpenCode shuts  *)
(* it first and announces nothing: the lines of the process do.            *)
(***************************************************************************)
InFlight(c) == send[c].at # "none"

\* The end of a turn can still be expected from somewhere.
UnderWay == row.live \/ \E p \in Procs : Working(p)

\* The view does not know yet of a turn that started.
Behind == (row.live /\ ~view.row) \/ \E i \in DOMAIN wire : wire[i] = "run"

Begin(c, queued) ==
    /\ send' = [send EXCEPT ![c] = [NoSend EXCEPT !.at = "begun", !.queued = queued]]
    /\ UNCHANGED <<provider, handle, cancel, proc, row, wire>>

\* inject_prompt of the completion: no turn is waited for.
Inject ==
    /\ ~InFlight(0) /\ past.prompts < MaxPrompts
    /\ Begin(0, FALSE)
    /\ past' = [past EXCEPT !.prompts = @ + 1,
                            !.odd = @ \cup Odd("overlap", UnderWay \/
                                                   \E c \in Callers : InFlight(c))]
    /\ UNCHANGED <<view, cache>>

\* Kill and wait: the pipe keeps what is printed.
Shut(p) ==
    IF p = 0 THEN proc
    ELSE [proc EXCEPT ![p].life = "exited",
                      ![p].closed = IF @ = "no" THEN "client" ELSE @]

\* Mutant of ShutEarlier: the handle forgets the process and leaves it be.
ForgetEarlier(c) ==
    /\ OpenCode /\ send[c].at = "begun"
    /\ send' = [send EXCEPT ![c].at = "cleared"]
    /\ handle' = [handle EXCEPT !.transport = 0]
    /\ UNCHANGED <<provider, cancel, proc, row, wire, view, cache, past>>

ShutEarlier(c) ==
    /\ OpenCode /\ send[c].at = "begun"
    /\ send' = [send EXCEPT ![c].at = "cleared"]
    /\ handle' = [handle EXCEPT !.transport = 0]
    /\ proc' = Shut(handle.transport)
    /\ past' = [past EXCEPT !.odd = @ \cup Odd("cut", handle.transport \notin past.told \cup {0})]
    /\ UNCHANGED <<provider, cancel, row, wire, view, cache>>

ReadyToSpawn(c) == send[c].at = IF OpenCode THEN "cleared" ELSE "begun"

\* The thread that reads the output runs from here on.
Spawn(c) ==
    /\ ReadyToSpawn(c)
    /\ LET p == past.sent + 1
       IN  /\ send' = [send EXCEPT ![c].at = "spawned", ![c].proc = p]
           /\ proc' = [proc EXCEPT ![p].life = "alive", ![p].reads = TRUE]
           /\ past' = [past EXCEPT !.sent = p]
    /\ UNCHANGED <<provider, handle, cancel, row, wire, view, cache>>

SpawnFails(c) ==
    /\ ReadyToSpawn(c)
    /\ send' = [send EXCEPT ![c] = NoSend]
    /\ UNCHANGED <<provider, handle, cancel, proc, row, wire, view, cache, past>>

\* Mutant of Reset: the end of the turn before stays the known one.
ResetTurn(c) ==
    /\ send[c].at = "spawned"
    /\ send' = [send EXCEPT ![c].at = "reset"]
    /\ handle' = [handle EXCEPT !.current = send[c].proc]
    /\ past' = [past EXCEPT !.odd = @ \cup Odd("crossed", ~handle.finalized)]
    /\ UNCHANGED <<provider, cancel, proc, row, wire, view, cache>>

Reset(c) ==
    /\ send[c].at = "spawned"
    /\ send' = [send EXCEPT ![c].at = "reset"]
    /\ handle' = [handle EXCEPT !.current = send[c].proc, !.finalized = FALSE]
    /\ past' = [past EXCEPT !.odd = @ \cup Odd("crossed", ~handle.finalized)]
    /\ UNCHANGED <<provider, cancel, proc, row, wire, view, cache>>

\* The turn is announced, then set_message_handler and subscribe_eof: lines
\* read before are dropped, and an end read before is never told.
Listen(c) ==
    /\ send[c].at = "reset"
    /\ send' = [send EXCEPT ![c].at = "heard"]
    /\ proc' = [proc EXCEPT ![send[c].proc].listens = TRUE,
                            ![send[c].proc].exit = "waits"]
    /\ IF Claude THEN TurnStarted ELSE Silently
    /\ past' = [past EXCEPT !.odd = @ \cup Odd("missed", ~proc[send[c].proc].reads)]
    /\ UNCHANGED <<provider, handle, cancel, view, cache>>

\* The process before, if any, is let go of and not killed.  The call returns:
\* a message the user submitted himself clears the draft and, with it, what
\* another composer of the session has queued meanwhile.
Store(c) ==
    /\ send[c].at = "heard"
    /\ send' = [send EXCEPT ![c] = NoSend]
    /\ handle' = [handle EXCEPT !.transport = send[c].proc]
    /\ IF c # 0 /\ ~send[c].queued
       THEN /\ cache' = FALSE
            /\ past' = [past EXCEPT !.odd = @ \cup Odd("wiped", cache)]
       ELSE UNCHANGED <<cache, past>>
    /\ UNCHANGED <<provider, cancel, proc, row, wire, view>>

SendStep(c) ==
    \/ ShutEarlier(c) \/ Spawn(c) \/ SpawnFails(c) \/ Reset(c) \/ Listen(c) \/ Store(c)

(***************************************************************************)
(* The process.  Claude prints text and one result; OpenCode goes through  *)
(* steps, of which the last one ends its work, or reports an error.  It    *)
(* may die at any time and linger after its result.                        *)
(***************************************************************************)
PrintLine(p, line, done, step) ==
    /\ Working(p) /\ Len(proc[p].out) + Len(wire) < Backlog
    /\ proc' = [proc EXCEPT ![p].out = Append(@, line), ![p].done = done, ![p].step = step]
    /\ past' = [past EXCEPT !.steps = IF line = "start" THEN @ + 1 ELSE @]
    /\ UNCHANGED <<provider, handle, send, cancel, row, wire, view, cache>>

Exit(p) ==
    /\ proc[p].life = "alive"
    /\ proc' = [proc EXCEPT ![p].life = "exited"]
    /\ UNCHANGED <<provider, handle, send, cancel, row, wire, view, cache, past>>

Prints(p) ==
    \/ Claude /\ (PrintLine(p, "text", FALSE, FALSE) \/ PrintLine(p, "ok", TRUE, FALSE)
                  \/ PrintLine(p, "error", TRUE, FALSE))
    \/ OpenCode /\ PrintLine(p, "error", TRUE, FALSE)
    \/ OpenCode /\ ~proc[p].step /\ past.steps < MaxSteps /\ PrintLine(p, "start", FALSE, TRUE)
    \/ OpenCode /\ proc[p].step /\ (PrintLine(p, "text", FALSE, TRUE)
                                    \/ \E done \in BOOLEAN : PrintLine(p, "finish", done, FALSE))

(***************************************************************************)
(* The thread that reads: a line goes to the handler, once there is one.   *)
(* The turn state is the session's; nothing compares whose turn it is.     *)
(***************************************************************************)
Reads(p, line) ==
    /\ proc[p].reads /\ proc[p].out # <<>> /\ Head(proc[p].out) = line
    /\ proc' = [proc EXCEPT ![p].out = Tail(@)]
    /\ UNCHANGED <<provider, send, cancel, view, cache>>

Drops(p) ==
    /\ ~proc[p].listens
    /\ \E line \in Lines : Reads(p, line)
    /\ UNCHANGED <<handle, row, wire, past>>

Others(p) == handle.current \notin {0, p}

\* The failure of another process has been decided and not been reported.
FailureOwed(ps) == \E q \in Procs \ ps : proc[q].exit = "fails"

Tells(p) == past' = [past EXCEPT !.told = @ \cup {p},
                                 !.odd = @ \cup Odd("crossed", Others(p) \/ FailureOwed({p}))]

\* What a process says after its turn was stopped.
Revives(p) == past' = [past EXCEPT !.odd = @ \cup
                           Odd("late", proc[p].closed = "client" /\ p \in past.told)]

\* ensure_turn_running, throttled together with the latest output.
ReadText(p) ==
    /\ proc[p].listens /\ Reads(p, "text")
    /\ \/ UNCHANGED <<row, past>>
       \/ /\ ~row.live \/ row.grace
          /\ row' = [live |-> TRUE, grace |-> FALSE]
          /\ Revives(p)
    /\ UNCHANGED <<handle, wire>>

ReadStart(p) ==
    /\ proc[p].listens /\ Reads(p, "start")
    /\ TurnStarted
    /\ Revives(p)
    /\ UNCHANGED handle

\* A step that finishes counts as the end, whatever follows.
ReadFinish(p) ==
    /\ proc[p].listens /\ Reads(p, "finish")
    /\ handle' = [handle EXCEPT !.finalized = TRUE]
    /\ TurnCompleted
    /\ Tells(p)

ReadOk(p) ==
    /\ proc[p].listens /\ Reads(p, "ok")
    /\ handle' = [handle EXCEPT !.finalized = TRUE, !.current = 0]
    /\ TurnCompleted
    /\ Tells(p)

ReadError(p) ==
    /\ proc[p].listens /\ Reads(p, "error")
    /\ handle' = [handle EXCEPT !.finalized = TRUE, !.current = IF Claude THEN 0 ELSE @]
    /\ TurnFailed
    /\ Tells(p)

\* End of the output, maybe long after the process: whoever it started holds
\* the pipe open too.
ReadEnd(p) ==
    /\ proc[p].reads /\ proc[p].life = "exited" /\ proc[p].out = <<>>
    /\ proc' = [proc EXCEPT ![p].reads = FALSE,
                            ![p].closed = IF @ = "no" THEN "eof" ELSE @,
                            ![p].exit = IF @ = "waits" THEN "told" ELSE @]
    /\ UNCHANGED <<provider, handle, send, cancel, row, wire, view, cache, past>>

ReadStep(p) ==
    \/ Drops(p) \/ ReadText(p) \/ ReadStart(p) \/ ReadFinish(p) \/ ReadOk(p)
    \/ ReadError(p) \/ ReadEnd(p)

(***************************************************************************)
(* The thread that waits for the end: a turn without one has failed,       *)
(* unless the process was shut.                                            *)
(***************************************************************************)
HandleExit(p) ==
    /\ proc[p].exit = "told"
    /\ handle' = [handle EXCEPT !.current = 0, !.finalized = TRUE]
    /\ proc' = [proc EXCEPT ![p].exit =
                   IF ~handle.finalized /\ proc[p].closed # "client" THEN "fails" ELSE "over"]
    /\ past' = [past EXCEPT !.odd = @ \cup Odd("crossed", Others(p)) \cup
                   Odd("midway", handle.finalized /\ proc[p].step /\ proc[p].closed # "client")]
    /\ UNCHANGED <<provider, send, cancel, row, wire, view, cache>>

ReportFailure(p) ==
    /\ proc[p].exit = "fails"
    /\ proc' = [proc EXCEPT ![p].exit = "over"]
    /\ TurnFailed
    /\ past' = [past EXCEPT !.odd = @ \cup Odd("late", p \in past.told),
                            !.told = @ \cup {p}]
    /\ UNCHANGED <<provider, handle, send, cancel, view, cache>>

ExitStep(p) == HandleExit(p) \/ ReportFailure(p)

(***************************************************************************)
(* The view: its status follows the events, or the row of the session's    *)
(* list, which it reads after them.  Its composer queues one message.      *)
(***************************************************************************)
Effective == view.running \/ view.row

Locked == InFlight(view.number)

Deliver ==
    /\ view.mounted /\ wire # <<>>
    /\ view' = [view EXCEPT !.running = Head(wire) = "run"]
    /\ wire' = Tail(wire)
    /\ UNCHANGED <<provider, handle, send, cancel, proc, row, cache, past>>

RefreshRow ==
    /\ view.mounted /\ view.row # row.live
    /\ view' = [view EXCEPT !.row = row.live]
    /\ UNCHANGED <<provider, handle, send, cancel, proc, row, wire, cache, past>>

\* What sending now would overlap, or not know of.
Risks ==
    Odd("overlap", InFlight(0)) \cup Odd("unseen", Behind)
        \cup Odd("remount", \E c \in Callers \ {0, view.number} : InFlight(c))

\* handleSubmit.  While it waits for a send, the composer takes nothing.
Submit ==
    /\ view.mounted /\ ~Locked /\ ~Effective /\ past.prompts < MaxPrompts
    /\ Begin(view.number, FALSE)
    /\ past' = [past EXCEPT !.prompts = @ + 1, !.odd = @ \cup Risks]
    /\ UNCHANGED <<view, cache>>

Queue ==
    /\ view.mounted /\ ~Locked /\ Effective /\ past.prompts < MaxPrompts
    /\ view' = [view EXCEPT !.chip = TRUE]
    /\ cache' = TRUE
    /\ past' = [past EXCEPT !.prompts = @ + 1, !.owed = TRUE]
    /\ UNCHANGED <<provider, handle, send, cancel, proc, row, wire>>

\* sendQueuedFollowUp, whenever there is one and no turn.
SendQueued ==
    /\ view.mounted /\ view.chip /\ cache /\ ~Locked /\ ~Effective
    /\ Begin(view.number, TRUE)
    /\ view' = [view EXCEPT !.chip = FALSE]
    /\ cache' = FALSE
    /\ past' = [past EXCEPT !.owed = FALSE, !.odd = @ \cup Risks]

DropQueued ==
    /\ view.mounted /\ view.chip
    /\ view' = [view EXCEPT !.chip = FALSE]
    /\ cache' = FALSE
    /\ past' = [past EXCEPT !.owed = FALSE]
    /\ UNCHANGED <<provider, handle, send, cancel, proc, row, wire>>

\* The page is left: events are not for the view any more, calls go on.
Leave ==
    /\ view.mounted /\ view.number < MaxViews
    /\ view' = [view EXCEPT !.mounted = FALSE]
    /\ wire' = <<>>
    /\ UNCHANGED <<provider, handle, send, cancel, proc, row, cache, past>>

\* Mutant of Enter: the cached status is taken over.
EnterAsLeft ==
    /\ ~view.mounted
    /\ view' = [mounted |-> TRUE, number |-> view.number + 1, running |-> view.running,
                row |-> row.live, chip |-> cache]
    /\ UNCHANGED <<provider, handle, send, cancel, proc, row, wire, cache, past>>

\* RESTORE starts from idle; the list has been read, a new composer has the
\* queued message of the cache and no lock.
Enter ==
    /\ ~view.mounted
    /\ view' = [mounted |-> TRUE, number |-> view.number + 1, running |-> FALSE,
                row |-> row.live, chip |-> cache]
    /\ UNCHANGED <<provider, handle, send, cancel, proc, row, wire, cache, past>>

(***************************************************************************)
(* cancel_turn.  Claude reads the turn first and says nothing without one; *)
(* OpenCode shuts the process and always reports a cancellation.           *)
(***************************************************************************)
Stop ==
    /\ view.mounted /\ Effective /\ cancel.at = "none" /\ past.cancels < MaxCancels
    /\ cancel' = [NoCancel EXCEPT !.at = "read",
                                  !.turn = IF Claude THEN handle.current ELSE 0]
    /\ past' = [past EXCEPT !.cancels = @ + 1]
    /\ UNCHANGED <<provider, handle, send, proc, row, wire, view, cache>>

\* A turn that is begun while its process is not stored yet.
Unstored == \E c \in Callers : send[c].at \in {"spawned", "reset", "heard"}

Kill ==
    /\ cancel.at = "read"
    /\ LET p == handle.transport
       IN  /\ cancel' = [cancel EXCEPT !.at = "killed", !.killed = p]
           /\ proc' = Shut(p)
           /\ past' = [past EXCEPT !.odd = @ \cup Odd("unstored", Unstored)
                          \cup Odd("slipped", Claude /\ cancel.turn # p
                                              /\ p \notin past.told \cup {0})]
    /\ handle' = [handle EXCEPT !.transport = 0]
    /\ UNCHANGED <<provider, send, row, wire, view, cache>>

Canceled(turns) ==
    /\ handle' = [handle EXCEPT !.finalized = TRUE, !.current = 0]
    /\ TurnCanceled
    /\ past' = [past EXCEPT !.told = @ \cup (turns \ {0}),
                            !.odd = @ \cup Odd("crossed",
                                FailureOwed(turns) \/ handle.current \notin
                                    {0, cancel.turn, cancel.killed})]

ReportCancel ==
    /\ cancel.at = "killed"
    /\ cancel' = NoCancel
    /\ CASE OpenCode -> Canceled({handle.current, cancel.killed})
         [] Claude /\ cancel.turn # 0 -> Canceled({cancel.turn})
         [] OTHER -> UNCHANGED <<handle, row, wire, past>>
    /\ UNCHANGED <<provider, send, proc, view, cache>>

CancelStep == Kill \/ ReportCancel

\* The threads of the program, the view, and everybody else.
BackendStep ==
    \/ \E c \in Callers : SendStep(c)
    \/ \E p \in Procs : ReadStep(p) \/ ExitStep(p)
    \/ CancelStep \/ GraceEnds

ViewStep == Deliver \/ RefreshRow \/ SendQueued \/ Enter

Next ==
    \/ BackendStep \/ ViewStep
    \/ \E p \in Procs : Prints(p) \/ Exit(p)
    \/ Inject \/ Submit \/ Queue \/ DropQueued \/ Stop \/ Leave

\* The threads go on, whichever is first; events and refreshes arrive and the
\* effects of the view run; a process ends some day; who has left comes back.
Fairness ==
    /\ \A p \in Procs : WF_vars(Exit(p))
    /\ WF_vars(BackendStep)
    /\ WF_vars(ViewStep)

Spec == Init /\ [][Next]_vars

FairSpec == Spec /\ Fairness

(***************************************************************************)
(* Properties                                                              *)
(***************************************************************************)

\* The process is gone, its output read, and whoever waited for it or
\* stopped it is done.
Over(p) == ~proc[p].reads /\ proc[p].exit = "over" /\ cancel.killed # p

\* Whatever a turn dies of (its result, an error, a crash of the process, the
\* user's stop) the front end has been told its end when its process is over:
\* the finalized flag the reader, the waiting thread and cancel_turn share
\* lets none of them leave it to another that keeps silent
\* (should_emit_turn_failed_on_process_exit).
OrderlyEndReported ==
    past.odd = {} => \A p \in Procs : Over(p) => p \in past.told

\* Two processes of one session never work at once on its workspace: the
\* composer sends out of a turn only, and what OpenCode calls the end of a
\* turn may be the end of a step, whose process send_message then shuts.
OneWorker ==
    past.odd = {} => Cardinality({p \in Procs : Working(p)}) <= 1

\* A message queued during a turn is sent in the end (or dropped by the user),
\* over stops, failures and a page left and opened again: the effect of the
\* composer looks at the level, not at the edge (use-agent-composer.ts:359-370),
\* and a restored view does not hold on to the status it was left with.
QueuedIsSent == past.owed ~> (~past.owed \/ past.odd # {})

\* A session is followed until its first deviation: nothing is claimed beyond.
Orderly == past.odd = {}
=============================================================================
