---------------------------- MODULE TerminalStream ----------------------------
(***************************************************************************)
(* The output of one terminal, from its process to the screen.             *)
(*                                                                         *)
(* A reader thread numbers the chunks it reads, writes them to the log,    *)
(* whose writer buffers them, and to a restore buffer that knows the       *)
(* latest number, and, while somebody is subscribed, collects them in a    *)
(* pending event (pty_session_manager.rs). The event is emitted by the     *)
(* reader, by a thread that looks for events that are due, or by the       *)
(* thread that waits for the process's end. The terminal of a completed    *)
(* review keeps no log at all (completed_review.rs).                       *)
(*                                                                         *)
(* The surface on the screen is kept when it is hidden                     *)
(* (terminal-live-pipeline.ts). Shown again it subscribes, asks for the    *)
(* latest number, writes the file if the number has moved, and then takes  *)
(* the events whose number is larger. Its calls run one after the other,   *)
(* on the main thread of the program. What the code may lose on the way is *)
(* recorded chunk by chunk, where it loses it.                             *)
(***************************************************************************)
EXTENDS Naturals, SequencesExt

CONSTANTS
    MaxChunks, \* chunks the process writes
    MaxShows,  \* times the surface is shown
    MaxQueue   \* events that may wait for the history

ASSUME StreamAssumption == MaxChunks \in Nat /\ MaxShows \in Nat /\ MaxQueue \in Nat

VARIABLES
    keeps,   \* the session keeps a log; fixed when it is started
    log,     \* chunks given to the log's writer
    disk,    \* chunks in the file
    latest,  \* number of the last chunk in the restore buffer
    reader,  \* how far the reader thread is with its chunk
    child,   \* the process, and then the thread that waited for it
    watched, \* whether that thread found somebody subscribed
    subs,    \* subscriptions of the session; none once it is removed
    pending, \* chunks that wait to be emitted as one event
    hands,   \* per thread the event it has taken and not emitted, if any
    wire,    \* events on their way to the surface
    calls,   \* calls of the surface that have not run yet
    phase,   \* of the surface: idle, catching up, live
    step,    \* how far it is with catching up
    shown,   \* what it remembers: latestSequence, the one before, the restore's
    queue,   \* events that wait for the history
    frame,   \* chunks that wait for the next frame
    screen,  \* chunks written to the screen
    shows,   \* times it was shown
    lost,    \* history: the chunks that were lost for one of the reasons below
    odd      \* history: how the screen came to repeat something

backend == <<keeps, log, disk, latest, reader, child, watched, subs, pending, hands>>

surface == <<phase, step, shown, queue, frame, screen, shows>>

account == <<lost, odd>>

vars == <<backend, wire, calls, surface, account>>

Threads == {"reader", "ticker", "waiter"}

Chunks == 1..MaxChunks

\* What makes the screen repeat chunks: a file that is ahead of the number asked
\* for before; an event that begins before that number; a surface that goes live
\* at a number its screen does not end with, since the call for a new one failed.
Doubles == {"ahead", "straddle", "astray"}

\* What the surface remembers between two calls of becomeVisible, whose other
\* numbers are its locals.
Seen(number) ==
    [latest |-> number, previous |-> 0, restored |-> 0, active |-> TRUE, history |-> 0]

ChunksOf(events) == {events[i] : i \in DOMAIN events}

TypeOK ==
    /\ keeps \in BOOLEAN /\ log \in 0..MaxChunks /\ disk \in 0..MaxChunks
    /\ latest \in 0..MaxChunks
    /\ reader \in {"idle", "logged", "pushed", "queue", "flush",
                   "closed", "last", "drop", "ended"}
    /\ child \in {"runs", "exited", "looked", "removed", "cleared", "gone"}
    /\ watched \in BOOLEAN
    /\ subs \in 0..MaxShows
    /\ pending \in Seq(Chunks)
    /\ hands \in [Threads -> Seq(Chunks)]
    /\ wire \in Seq(Seq(Chunks))
    /\ calls \in Seq({"subscribe", "subscribe late", "unsubscribe"})
    /\ phase \in {"idle", "catchingUp", "live"}
    /\ step \in {"none", "subscribing", "restoring", "reading", "writing", "ready"}
    /\ shown \in [latest : 0..MaxChunks, previous : 0..MaxChunks, restored : 0..MaxChunks,
                  active : BOOLEAN, history : 0..MaxChunks]
    /\ queue \in Seq(Seq(Chunks)) /\ Len(queue) <= MaxQueue
    /\ frame \in Seq(Chunks)
    /\ screen \in Seq(Chunks)
    /\ shows \in 0..MaxShows
    /\ lost \subseteq Chunks /\ odd \subseteq Doubles

Init ==
    /\ keeps \in BOOLEAN /\ log = 0 /\ disk = 0 /\ latest = 0
    /\ reader = "idle" /\ child = "runs" /\ watched = FALSE
    /\ subs = 0
    /\ pending = <<>>
    /\ hands = [t \in Threads |-> <<>>]
    /\ wire = <<>> /\ calls = <<>>
    /\ phase = "idle" /\ step = "none"
    /\ shown = Seen(0)
    /\ queue = <<>> /\ frame = <<>> /\ screen = <<>>
    /\ shows = 0
    /\ lost = {} /\ odd = {}

\* The session is in the store until the thread that waits removes it.
Present == child \in {"runs", "exited", "looked"}

(***************************************************************************)
(* The reader loop.                                                        *)
(***************************************************************************)
\* The log's writer holds back what it is given until a few kilobytes are
\* together, and then writes all of it; a discarded log takes nothing.
ReadChunk ==
    /\ reader = "idle" /\ hands["reader"] = <<>> /\ log < MaxChunks
    /\ log' = log + 1
    /\ disk' \in IF keeps THEN {disk, log + 1} ELSE {disk}
    /\ reader' = "logged"
    /\ UNCHANGED <<keeps, latest, child, watched, subs, pending, hands, wire, calls, surface,
                   account>>

PushRestore ==
    /\ reader = "logged"
    /\ latest' = log
    /\ reader' = "pushed"
    /\ UNCHANGED <<keeps, log, disk, child, watched, subs, pending, hands, wire, calls,
                   surface, account>>

\* has_output_subscribers; the answer is used after the lock was released. With
\* nobody subscribed the chunk is left to the log, and is lost if nobody can ask
\* for that any more.
LookForSubscribers ==
    /\ reader = "pushed"
    /\ reader' = IF subs > 0 THEN "queue" ELSE "idle"
    /\ lost' = IF subs = 0 /\ ~Present THEN lost \cup {latest} ELSE lost
    /\ UNCHANGED <<keeps, log, disk, latest, child, watched, subs, pending, hands, wire, calls,
                   surface, odd>>

\* queue_output_chunk: whether the event is large or old enough to be flushed
\* at once depends on sizes and times.
QueueChunk ==
    /\ reader = "queue"
    /\ pending' = Append(pending, latest)
    /\ reader' \in {"flush", "idle"}
    /\ UNCHANGED <<keeps, log, disk, latest, child, watched, subs, hands, wire, calls, surface,
                   account>>

\* flush_pending_session, first half: the event is taken out under the lock.
Take(t) ==
    /\ hands[t] = <<>>
    /\ hands' = [hands EXCEPT ![t] = pending]
    /\ pending' = <<>>

FlushChunk ==
    /\ reader = "flush"
    /\ Take("reader")
    /\ reader' = "idle"
    /\ UNCHANGED <<keeps, log, disk, latest, child, watched, subs, wire, calls, surface,
                   account>>

\* What waits in other hands though it ends before the event of thread t.
Overtaken(t) ==
    UNION {ChunksOf(hands[u]) :
              u \in {v \in Threads : hands[v] # <<>> /\ Last(hands[v]) < Last(hands[t])}}

\* Second half: it is emitted without the lock. An event's number is that of
\* its last chunk; a surface that has seen it leaves out what comes later with a
\* smaller one.
Emit(t) ==
    /\ hands[t] # <<>>
    /\ wire' = Append(wire, hands[t])
    /\ hands' = [hands EXCEPT ![t] = <<>>]
    /\ lost' = lost \cup Overtaken(t)
    /\ UNCHANGED <<keeps, log, disk, latest, reader, child, watched, subs, pending, calls,
                   surface, odd>>

\* Mutant of Due: only the size of an event makes it due.
DueBySize == Len(pending) >= 2

Due == pending # <<>>

\* flush_due_pending, every few milliseconds.
Tick ==
    /\ Due
    /\ Take("ticker")
    /\ UNCHANGED <<keeps, log, disk, latest, reader, child, watched, subs, wire, calls, surface,
                   account>>

\* What is pending is flushed if somebody was subscribed, and lost otherwise.
FlushOrDiscard(t, subscribed) ==
    IF subscribed
    THEN Take(t) /\ lost' = lost
    ELSE /\ pending' = <<>>
         /\ lost' = lost \cup ChunksOf(pending)
         /\ UNCHANGED hands

\* The end of the output: what the writer holds back is written,
CloseLog ==
    /\ reader = "idle" /\ child # "runs" /\ hands["reader"] = <<>>
    /\ reader' = "closed"
    /\ disk' = IF keeps THEN log ELSE disk
    /\ UNCHANGED <<keeps, log, latest, child, watched, subs, pending, hands, wire, calls,
                   surface, account>>

\* the reader looks for subscribers once more,
LookAtEnd ==
    /\ reader = "closed"
    /\ reader' = IF subs > 0 THEN "last" ELSE "drop"
    /\ UNCHANGED <<keeps, log, disk, latest, child, watched, subs, pending, hands, wire, calls,
                   surface, account>>

\* and flushes or discards what is pending.
ReaderEnds ==
    /\ reader \in {"last", "drop"}
    /\ FlushOrDiscard("reader", reader = "last")
    /\ reader' = "ended"
    /\ UNCHANGED <<keeps, log, disk, latest, child, watched, subs, wire, calls, surface, odd>>

(***************************************************************************)
(* The end of the process; what it has written may not be read yet. The    *)
(* thread that waited takes one lock after the other.                      *)
(***************************************************************************)
ChildExits ==
    /\ child = "runs"
    /\ child' = "exited"
    /\ UNCHANGED <<keeps, log, disk, latest, reader, watched, subs, pending, hands, wire, calls,
                   surface, account>>

LookBeforeRemoval ==
    /\ child = "exited"
    /\ child' = "looked"
    /\ watched' = (subs > 0)
    /\ UNCHANGED <<keeps, log, disk, latest, reader, subs, pending, hands, wire, calls, surface,
                   account>>

RemoveSession ==
    /\ child = "looked"
    /\ child' = "removed"
    /\ UNCHANGED <<keeps, log, disk, latest, reader, watched, subs, pending, hands, wire, calls,
                   surface, account>>

RemoveSubscribers ==
    /\ child = "removed"
    /\ child' = "cleared"
    /\ subs' = 0
    /\ UNCHANGED <<keeps, log, disk, latest, reader, watched, pending, hands, wire, calls,
                   surface, account>>

ExitFlush ==
    /\ child = "cleared"
    /\ FlushOrDiscard("waiter", watched)
    /\ child' = "gone" /\ watched' = FALSE
    /\ UNCHANGED <<keeps, log, disk, latest, reader, subs, wire, calls, surface, odd>>

(***************************************************************************)
(* The surface. What an await returns to a surface that was hidden in the  *)
(* meantime is ignored (isCurrentGeneration).                              *)
(***************************************************************************)
\* becomeVisible: the subscription is asked for first.
Show ==
    /\ phase = "idle" /\ shows < MaxShows
    /\ shows' = shows + 1
    /\ phase' = "catchingUp" /\ step' = "subscribing"
    /\ shown' = [shown EXCEPT !.previous = shown.latest]
    /\ calls' = Append(calls, "subscribe")
    /\ UNCHANGED <<backend, wire, queue, frame, screen, account>>

\* The next call runs: add_output_subscriber, for a session that is there, which
\* also writes what its log holds back, or remove_output_subscriber, where the
\* last one takes what is pending with it.
RunCall ==
    /\ calls # <<>>
    /\ calls' = Tail(calls)
    /\ IF Head(calls) = "unsubscribe"
       THEN /\ subs' = IF subs > 0 THEN subs - 1 ELSE 0
            /\ pending' = IF subs = 1 THEN <<>> ELSE pending
            /\ UNCHANGED disk
       ELSE /\ subs' = IF Present THEN subs + 1 ELSE subs
            /\ disk' = IF Present /\ keeps THEN log ELSE disk
            /\ UNCHANGED pending
    /\ step' = IF Head(calls) = "subscribe" THEN "restoring" ELSE step
    /\ UNCHANGED <<keeps, log, latest, reader, child, watched, hands, wire, phase, shown, queue,
                   frame, screen, shows, account>>

\* restore: the latest number, 0 for a session that is gone. A surface that was
\* shown before and has seen that number needs no history.
Restore ==
    /\ step = "restoring"
    /\ LET number == IF Present THEN latest ELSE 0
       IN  /\ shown' = [shown EXCEPT !.restored = number, !.active = Present]
           /\ step' = IF shown.previous > 0 /\ number = shown.previous THEN "ready" ELSE "reading"
    /\ UNCHANGED <<backend, wire, calls, phase, queue, frame, screen, shows, account>>

\* readSnapshot: the file as it is now, with what its writer held back if the
\* session is still there. The file may begin with the output of an earlier
\* process. What was read before the number was asked for and is not in the file
\* will not come as an event either.
ReadSnapshot ==
    /\ step = "reading"
    /\ LET file == IF Present /\ keeps THEN log ELSE disk
       IN  /\ disk' = file
           /\ shown' = [shown EXCEPT !.history = file]
           /\ step' \in IF file > 0 THEN {"writing"} ELSE {"writing", "ready"}
           /\ lost' = IF shown.active THEN lost \cup (file + 1)..shown.restored ELSE lost
           /\ odd' = IF shown.active /\ file > shown.restored THEN odd \cup {"ahead"} ELSE odd
    /\ UNCHANGED <<keeps, log, latest, reader, child, watched, subs, pending, hands, wire, calls,
                   phase, queue, frame, screen, shows>>

\* writeHistory: a screen that was in use is written on, never reset.
WriteHistory ==
    /\ step = "writing"
    /\ screen' = (IF shown.previous > 0 THEN screen ELSE <<>>) \o [i \in 1..shown.history |-> i]
    /\ step' = "ready"
    /\ UNCHANGED <<backend, wire, calls, phase, shown, queue, frame, shows, account>>

\* Mutant of Written: the event's number is not compared.
WrittenAlways(s, event) ==
    [latest |-> Last(event), frame |-> s.frame \o event, odd |-> s.odd]

\* writeLiveEvent: what the surface has seen, by its number, is left out.
Written(s, event) ==
    IF Last(event) <= s.latest THEN s
    ELSE [latest |-> Last(event), frame |-> s.frame \o event,
          odd |-> IF Head(event) <= s.latest THEN s.odd \cup {"straddle"} ELSE s.odd]

Live(number) == [latest |-> number, frame |-> frame, odd |-> odd]

\* The events that waited, one after the other.
AllWritten(s, events) ==
    LET after[n \in 0..Len(events)] ==
            IF n = 0 THEN s ELSE Written(after[n - 1], events[n])
    IN  after[Len(events)]

\* The surface goes live at the given number, and takes the events that waited.
GoLive(number) ==
    LET s == AllWritten(Live(number), queue)
    IN  /\ phase' = "live"
        /\ shown' = Seen(s.latest)
        /\ frame' = s.frame
        /\ odd' = s.odd
        /\ UNCHANGED calls

\* The terminal is gone: only its history is shown.
GoInactive ==
    /\ phase' = "idle"
    /\ shown' = Seen(shown.restored)
    /\ calls' = Append(calls, "unsubscribe")
    /\ UNCHANGED <<frame, odd>>

\* Mutant of Ready: the events that waited are forgotten.
ReadyForgets ==
    /\ step = "ready"
    /\ step' = "none" /\ queue' = <<>>
    /\ IF shown.active
       THEN phase' = "live" /\ shown' = Seen(shown.restored) /\ UNCHANGED <<calls, frame, odd>>
       ELSE GoInactive
    /\ UNCHANGED <<backend, wire, screen, shows, lost>>

Ready ==
    /\ step = "ready"
    /\ step' = "none" /\ queue' = <<>>
    /\ IF shown.active THEN GoLive(shown.restored) ELSE GoInactive
    /\ UNCHANGED <<backend, wire, screen, shows, lost>>

\* What a surface goes on from that has not got its history.
Resumed ==
    [Live(shown.latest) EXCEPT
        !.odd = IF screen # <<>> /\ Last(screen) # shown.latest THEN odd \cup {"astray"} ELSE odd]

\* Any of the calls failed: the surface goes live nevertheless, at the number it
\* has. What was read since is lost unless it still comes as an event.
CatchUpFails ==
    /\ step \in {"restoring", "reading"}
    /\ step' = "none" /\ queue' = <<>>
    /\ phase' = "live"
    /\ LET s == AllWritten(Resumed, queue)
       IN  /\ shown' = Seen(s.latest)
           /\ frame' = s.frame
           /\ odd' = s.odd
    /\ lost' = lost \cup (shown.latest + 1)..latest
    /\ UNCHANGED <<backend, wire, calls, screen, shows>>

\* enqueue: the oldest go when there are too many.
Enqueued(event) ==
    IF Len(queue) < MaxQueue THEN Append(queue, event) ELSE Tail(Append(queue, event))

\* handleOutput: dropped when hidden, queued while catching up, written when live.
HandleOutput ==
    /\ wire # <<>>
    /\ wire' = Tail(wire)
    /\ \/ /\ phase = "idle"
          /\ UNCHANGED <<shown, queue, frame, account>>
       \/ /\ phase = "catchingUp"
          /\ queue' = Enqueued(Head(wire))
          /\ lost' = IF Len(queue) < MaxQueue THEN lost
                     ELSE lost \cup ChunksOf(Head(Append(queue, Head(wire))))
          /\ UNCHANGED <<shown, frame, odd>>
       \/ /\ phase = "live"
          /\ LET s == Written(Live(shown.latest), Head(wire))
             IN  /\ shown' = Seen(s.latest)
                 /\ frame' = s.frame
                 /\ odd' = s.odd
          /\ UNCHANGED <<queue, lost>>
    /\ UNCHANGED <<backend, calls, phase, step, screen, shows>>

\* flushRafWrites.
Frame ==
    /\ frame # <<>>
    /\ screen' = screen \o frame
    /\ frame' = <<>>
    /\ UNCHANGED <<backend, wire, calls, phase, step, shown, queue, shows, account>>

\* Mutant of Hide: a surface that is still catching up counts as not subscribed.
HideLive ==
    /\ phase # "idle"
    /\ phase' = "idle" /\ step' = "none"
    /\ queue' = <<>> /\ frame' = <<>>
    /\ calls' = IF phase = "live" THEN Append(calls, "unsubscribe") ELSE calls
    /\ shown' = Seen(shown.latest)
    /\ lost' = lost \cup ChunksOf(frame)
    /\ UNCHANGED <<backend, wire, screen, shows, odd>>

\* becomeHidden: what waits for the frame is dropped, though its number counts.
Hide ==
    /\ phase # "idle"
    /\ phase' = "idle" /\ step' = "none"
    /\ queue' = <<>> /\ frame' = <<>>
    /\ calls' = Append([i \in DOMAIN calls |->
                           IF calls[i] = "subscribe" THEN "subscribe late" ELSE calls[i]],
                       "unsubscribe")
    /\ shown' = Seen(shown.latest)
    /\ lost' = lost \cup ChunksOf(frame)
    /\ UNCHANGED <<backend, wire, screen, shows, odd>>

\* What goes on by itself once a chunk is read.
Progress ==
    \/ PushRestore \/ LookForSubscribers \/ QueueChunk \/ FlushChunk \/ Tick
    \/ \E t \in Threads : Emit(t)
    \/ ExitFlush \/ RunCall \/ HandleOutput \/ Frame
    \/ Restore \/ ReadSnapshot \/ WriteHistory \/ Ready

Next ==
    \/ Progress
    \/ ReadChunk \/ CloseLog \/ LookAtEnd \/ ReaderEnds
    \/ ChildExits \/ LookBeforeRemoval \/ RemoveSession \/ RemoveSubscribers
    \/ Show \/ CatchUpFails \/ Hide

Spec == Init /\ [][Next]_vars

\* The threads run, the main thread executes its calls and draws its frames.
FairSpec ==
    /\ Spec
    /\ WF_vars(PushRestore) /\ WF_vars(LookForSubscribers) /\ WF_vars(QueueChunk)
    /\ WF_vars(FlushChunk) /\ WF_vars(Tick) /\ \A t \in Threads : WF_vars(Emit(t))
    /\ WF_vars(HandleOutput) /\ WF_vars(Frame)

(***************************************************************************)
(* Properties.                                                             *)
(***************************************************************************)
OnScreen == ChunksOf(screen)

AtRest ==
    /\ phase = "live" /\ calls = <<>> /\ wire = <<>> /\ frame = <<>> /\ pending = <<>>
    /\ \A t \in Threads : hands[t] = <<>>
    /\ reader \notin {"logged", "pushed", "queue"}

\* Once everything has arrived a live surface has on its screen every chunk the
\* terminal wrote, from the file or as an event, however often it was hidden and
\* shown while output came (terminal-live-pipeline.ts), but for those chunks that
\* were lost at one of the places that may lose one: nothing else is missing.
NothingMissing == AtRest => OnScreen \subseteq 1..log /\ 1..log \subseteq OnScreen \cup lost

\* What is on the screen is in order and without repetition, and has a hole only
\* where every chunk of the hole was lost; a file that is written again begins
\* from the start. A surface compares numbers and nothing else, so this says that
\* the numbers alone never let it pass over a chunk (writeLiveEvent).
Contiguous ==
    odd = {} =>
        \A i \in DOMAIN screen :
            LET previous == IF i = 1 THEN 0 ELSE screen[i - 1]
            IN  \/ screen[i] = 1
                \/ previous < screen[i] /\ (previous + 1)..(screen[i] - 1) \subseteq lost

\* A hidden terminal is not subscribed once its calls have run: subscriptions do
\* not pile up; and no more is pending for it than the one chunk that was being
\* collected when it was hidden (remove_output_subscriber, becomeHidden), except
\* between the two steps in which an exit takes the subscriptions and what is
\* pending with them.
HiddenIsSilent ==
    phase = "idle" /\ calls = <<>> =>
        /\ subs = 0
        /\ child # "cleared" => Len(pending) <= 1

\* A chunk the reader has read while the surface is live comes to the screen,
\* without another one having to follow it (spawn_coalesce_thread), unless the
\* surface is hidden or the chunk is lost at one of the places that may lose one.
Shown ==
    \A c \in Chunks :
        (phase = "live" /\ c <= latest) ~> (c \in OnScreen \cup lost \/ phase # "live")

\* A surface that is hidden has on its screen whatever it counts as seen, so that
\* it need not write the history again as long as the number has not moved
\* (terminal-live-pipeline.ts, comment in becomeVisible). A pending frame
\* refutes it.
HiddenBufferValid ==
    [][Hide => 1..shown.latest \subseteq OnScreen \cup lost]_vars
=============================================================================
