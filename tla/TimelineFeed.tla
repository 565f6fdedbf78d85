----------------------------- MODULE TimelineFeed -----------------------------
(***************************************************************************)
(* What a session says, on its way to the message stream on the screen.    *)
(*                                                                         *)
(* Every event goes two ways (agent_event_broadcaster.rs): it is appended  *)
(* to the session's log, where the intermediate frames of a growing text   *)
(* are held back (session_log_coalesce.rs), and it is then emitted to      *)
(* whoever has subscribed. A view that opens reads the log and subscribes  *)
(* afterwards (use-agent-message-stream.ts); one that opens again keeps    *)
(* what it showed and reads only the lines behind its cursor, the offset   *)
(* of the last line it has seen (timeline_replay.rs, observe.rs).          *)
(*                                                                         *)
(* Two threads emit for one session: the provider's reader ("agent") and   *)
(* the commands of the user ("user"). An offset is the number of a line,   *)
(* 0 for none. The log is only ever appended to.                           *)
(***************************************************************************)
EXTENDS Naturals, FiniteSets, SequencesExt

CONSTANTS
    MaxEvents, \* events of a behaviour
    MaxOpens,  \* times the view is opened
    Stride,    \* growth of a text that is worth another line
    Window     \* tool calls a read goes back

ASSUME FeedAssumption ==
    /\ MaxEvents \in Nat \ {0} /\ MaxOpens \in Nat
    /\ Stride \in Nat \ {0} /\ Window \in Nat \ {0}

VARIABLES
    log,     \* the lines of the session's log
    pending, \* the text the log may be behind of, and its length in the log
    mail,    \* per thread: the event it has persisted and not yet emitted
    ended,   \* the session's handle was shut down
    view,    \* what the stream shows, cached while another session is open
    phase,   \* of the view: away, reading, answered, applied, live
    reply,   \* the read that was answered: lines of the log, events, quiet path
    queue,   \* events that arrived and wait for the next frame
    opens,   \* times the view was opened
    said,    \* history: what the session has said so far
    odd      \* history: the deviations since the view was last empty

vars == <<log, pending, mail, ended, view, phase, reply, queue, opens, said, odd>>

Threads == {"agent", "user"}

Ids == 1..MaxEvents

\* Entries of the timeline: their events carry the offset of their line.
EntryKinds == {"tool", "message", "text"}

Kinds == EntryKinds \cup {"ask", "answer", "model"}

\* What makes a view differ from what was said: an event emitted between the
\* read and the subscription; events emitted in another order than logged; a
\* view opened again without a cursor, which reads nothing; a read that finds
\* less of a text than was said, or whose lines the window does not reach; a
\* read that failed; the quiet path; a text cut off by the end of the session.
Deviations == {"gap", "disorder", "blank", "unflushed", "window", "failed", "quiet", "cut"}

Line == [kind : Kinds, id : Ids, size : Ids]

Mail == [kind : Kinds \cup {"none"}, id : 0..MaxEvents, size : 0..MaxEvents,
         line : Nat, at : 0..MaxEvents]

TypeOK ==
    /\ log \in Seq(Line)
    /\ pending \in [id : 0..MaxEvents, size : 0..MaxEvents, persisted : 0..MaxEvents]
    /\ mail \in [Threads -> Mail]
    /\ ended \in BOOLEAN
    /\ view \in [entries : [Ids -> 0..MaxEvents], asks : SUBSET Ids, cursor : Nat,
                 initialized : BOOLEAN]
    /\ phase \in {"away", "reading", "answered", "applied", "live"}
    /\ reply \in [upto : Nat, at : 0..MaxEvents, quiet : BOOLEAN]
    /\ queue \in Seq(Mail)
    /\ opens \in 0..MaxOpens
    /\ said \in [entries : [Ids -> 0..MaxEvents], asks : SUBSET Ids, count : 0..MaxEvents]
    /\ odd \subseteq Deviations

NoMail == [kind |-> "none", id |-> 0, size |-> 0, line |-> 0, at |-> 0]

Nothing == [i \in Ids |-> 0]

EmptyView == [entries |-> Nothing, asks |-> {}, cursor |-> 0, initialized |-> FALSE]

NoReply == [upto |-> 0, at |-> 0, quiet |-> FALSE]

NoText == [id |-> 0, size |-> 0, persisted |-> 0]

Init ==
    /\ log = <<>>
    /\ pending = NoText
    /\ mail = [t \in Threads |-> NoMail]
    /\ ended = FALSE
    /\ view = EmptyView
    /\ phase = "away"
    /\ reply = NoReply
    /\ queue = <<>>
    /\ opens = 0
    /\ said = [entries |-> Nothing, asks |-> {}, count |-> 0]
    /\ odd = {}

(***************************************************************************)
(* The broadcaster: an event is persisted under the log's lock and emitted *)
(* after it.                                                               *)
(***************************************************************************)
\* Mutant of FlushPending: a text is never completed.
DropPending == log

\* The held back text goes to the log, if the log is behind of it.
FlushPending ==
    IF pending.size > pending.persisted
    THEN Append(log, [kind |-> "text", id |-> pending.id, size |-> pending.size])
    ELSE log

Told(t, kind, id, size, line) ==
    mail' = [mail EXCEPT ![t] = [kind |-> kind, id |-> id, size |-> size, line |-> line,
                                 at |-> said.count + 1]]

\* write_envelope for an event that is no text.
PersistWhole(t, kind, id) ==
    /\ log' = Append(FlushPending, [kind |-> kind, id |-> id, size |-> 1])
    /\ pending' = [pending EXCEPT !.persisted = pending.size]
    /\ Told(t, kind, id, 1, Len(log'))

\* write_envelope for a text that has the length size: the log gets its first
\* frame, and those that have grown by the stride.
PersistText(t, id, size) ==
    LET before    == IF pending.id = id THEN log ELSE FlushPending
        persisted == IF pending.id = id THEN pending.persisted ELSE 0
    IN  IF persisted = 0 \/ size >= persisted + Stride
        THEN /\ log' = Append(before, [kind |-> "text", id |-> id, size |-> size])
             /\ pending' = [id |-> id, size |-> size, persisted |-> size]
             /\ Told(t, "text", id, size, Len(log'))
        ELSE /\ log' = before
             /\ pending' = [id |-> id, size |-> size, persisted |-> persisted]
             /\ Told(t, "text", id, size, 0)

MaySay(t) == ~ended /\ mail[t].kind = "none" /\ said.count < MaxEvents

\* Mutant of NewId: the ids begin with 0.
OldCount == said.count

\* The next event's number is the id of what it begins.
NewId == said.count + 1

SayEntry(t, kind) ==
    /\ MaySay(t)
    /\ <<t, kind>> \in {<<"agent", "tool">>, <<"user", "message">>}
    /\ PersistWhole(t, kind, NewId)
    /\ said' = [said EXCEPT !.count = @ + 1, !.entries[NewId] = 1]
    /\ UNCHANGED <<ended, view, phase, reply, queue, opens, odd>>

SayModel ==
    /\ MaySay("agent")
    /\ PersistWhole("agent", "model", NewId)
    /\ said' = [said EXCEPT !.count = @ + 1]
    /\ UNCHANGED <<ended, view, phase, reply, queue, opens, odd>>

\* A new text, or more of the one before.
SayText(id) ==
    /\ MaySay("agent")
    /\ id \in {NewId, pending.id} \ {0}
    /\ PersistText("agent", id, said.entries[id] + 1)
    /\ said' = [said EXCEPT !.count = @ + 1, !.entries[id] = @ + 1]
    /\ UNCHANGED <<ended, view, phase, reply, queue, opens, odd>>

Ask ==
    /\ MaySay("agent")
    /\ PersistWhole("agent", "ask", NewId)
    /\ said' = [said EXCEPT !.count = @ + 1, !.asks = @ \cup {NewId}]
    /\ UNCHANGED <<ended, view, phase, reply, queue, opens, odd>>

\* The user decides a request the view shows; it is removed from the session's
\* own table first, so that it is decided once.
Answer(id) ==
    /\ MaySay("user") /\ phase # "away"
    /\ id \in view.asks \cap said.asks
    /\ PersistWhole("user", "answer", id)
    /\ said' = [said EXCEPT !.count = @ + 1, !.asks = @ \ {id}]
    /\ UNCHANGED <<ended, view, phase, reply, queue, opens, odd>>

\* Another thread has persisted an event earlier and not emitted it yet, or the
\* request that is emitted was decided, and that was emitted already.
OutOfOrder(t) ==
    \/ \E u \in Threads : mail[u].kind # "none" /\ mail[u].at < mail[t].at
    \/ /\ mail[t].kind = "ask" /\ mail[t].id \notin said.asks
       /\ \A u \in Threads : mail[u].kind # "answer" \/ mail[u].id # mail[t].id

\* emit: only a subscribed view hears it. One that was emitted after the read
\* and before the subscription is in neither.
Deliver(t) ==
    /\ mail[t].kind # "none"
    /\ mail' = [mail EXCEPT ![t] = NoMail]
    /\ queue' = IF phase = "live" THEN Append(queue, mail[t]) ELSE queue
    /\ odd' = odd
         \cup (IF phase = "live" /\ OutOfOrder(t) THEN {"disorder"} ELSE {})
         \cup (IF phase \in {"answered", "applied"} /\ mail[t].at > reply.at THEN {"gap"} ELSE {})
    /\ UNCHANGED <<log, pending, ended, view, phase, reply, opens, said>>

\* shutdown: the broadcaster forgets the session, and the text it held back.
Shutdown ==
    /\ ~ended
    /\ ended' = TRUE
    /\ pending' = NoText
    /\ odd' = IF pending.size > pending.persisted THEN odd \cup {"cut"} ELSE odd
    /\ UNCHANGED <<log, mail, view, phase, reply, queue, opens, said>>

(***************************************************************************)
(* The read of the log: the lines of the last tool calls, compacted to the *)
(* last one of each entry, and of those only the ones behind the cursor.   *)
(***************************************************************************)
ToolLines(n) == {i \in 1..n : log[i].kind = "tool"}

WindowStart(n) ==
    IF Cardinality(ToolLines(n)) < Window THEN 1
    ELSE CHOOSE i \in ToolLines(n) : Cardinality(ToolLines(n) \cap i..n) = Window

LinesRead == WindowStart(reply.upto)..reply.upto

\* The lines among those given that are the last ones of their entries.
LastOfEntries(lines) ==
    {i \in lines : /\ log[i].kind \in EntryKinds
                   /\ \A j \in lines : log[j].kind \in EntryKinds /\ log[j].id = log[i].id => j <= i}

\* Mutant of BehindCursor: the line under the cursor's successor is skipped.
BehindNext(lines, cursor) == {i \in LastOfEntries(lines) : i > cursor + 1}

BehindCursor(lines, cursor) == {i \in LastOfEntries(lines) : i > cursor}

AsksIn(lines) ==
    LET LinesOf(kind) == {log[i].id : i \in {j \in lines : log[j].kind = kind}}
    IN  LinesOf("ask") \ LinesOf("answer")

\* read_json_timeline: a read that finds no item and no model asks the handle
\* instead, which has no timeline of its own and knows of no request.
Quiet(lines) ==
    /\ ~ended
    /\ BehindCursor(lines, view.cursor) = {}
    /\ \A i \in lines : log[i].kind # "model"

EntriesAfter(entries, lines) ==
    [id \in Ids |-> IF \E i \in lines : log[i].id = id
                    THEN log[CHOOSE i \in lines : log[i].id = id].size
                    ELSE entries[id]]

CursorAfter(cursor, lines) == Max({cursor} \cup lines)

(***************************************************************************)
(* The view.                                                               *)
(***************************************************************************)
\* The stream is shown again: what was cached is restored; only with a cursor
\* are the lines behind it read.
Open ==
    /\ phase = "away" /\ opens < MaxOpens
    /\ opens' = opens + 1
    /\ reply' = NoReply
    /\ phase' = IF view.initialized /\ view.cursor = 0 THEN "applied" ELSE "reading"
    /\ odd' = IF phase' = "applied" /\ (view.entries # said.entries \/ view.asks # said.asks)
              THEN odd \cup {"blank"} ELSE odd
    /\ UNCHANGED <<log, pending, mail, ended, view, queue, said>>

\* What a read of all lines up to here leaves out.
LeavesOut(lines) ==
    (IF \/ \E i \in LastOfEntries(DOMAIN log) : i > view.cursor /\ i \notin lines
        \/ AsksIn(lines) # AsksIn(DOMAIN log)
     THEN {"window"} ELSE {})
    \cup (IF /\ pending.size > pending.persisted
             /\ \/ view.entries[pending.id] # pending.size
                \/ \E i \in BehindCursor(lines, view.cursor) : log[i].id = pending.id
          THEN {"unflushed"} ELSE {})
    \cup (IF Quiet(lines) /\ AsksIn(lines) # {} THEN {"quiet"} ELSE {})

Read ==
    /\ phase = "reading"
    /\ phase' = "answered"
    /\ LET lines == WindowStart(Len(log))..Len(log)
       IN  /\ reply' = [upto |-> Len(log), at |-> said.count, quiet |-> Quiet(lines)]
           /\ odd' = odd \cup LeavesOut(lines)
    /\ UNCHANGED <<log, pending, mail, ended, view, queue, opens, said>>

\* The read failed: the first time the view counts as initialized, and empty.
ReadFails ==
    /\ phase = "reading"
    /\ phase' = "applied"
    /\ reply' = [NoReply EXCEPT !.at = said.count]
    /\ view' = [view EXCEPT !.initialized = TRUE]
    /\ odd' = odd \cup {"failed"}
    /\ UNCHANGED <<log, pending, mail, ended, queue, opens, said>>

\* HYDRATE the first time, later EVENT_BATCH and SYNC_PENDING_PERMISSIONS.
AppliedTo(entries, asks) ==
    LET lines == BehindCursor(LinesRead, view.cursor)
    IN  view' = [entries |-> EntriesAfter(entries, lines),
                 asks |-> asks,
                 cursor |-> CursorAfter(view.cursor, lines),
                 initialized |-> TRUE]

\* Mutant of Apply: the requests are merged into the ones shown.
ApplyMerging ==
    /\ phase = "answered"
    /\ phase' = "applied"
    /\ AppliedTo(view.entries, view.asks \cup AsksIn(LinesRead))
    /\ UNCHANGED <<log, pending, mail, ended, reply, queue, opens, said, odd>>

\* Mutant of Apply: what was read replaces what was cached.
ApplyHydrating ==
    /\ phase = "answered"
    /\ phase' = "applied"
    /\ AppliedTo(Nothing, AsksIn(LinesRead))
    /\ UNCHANGED <<log, pending, mail, ended, reply, queue, opens, said, odd>>

Apply ==
    /\ phase = "answered"
    /\ phase' = "applied"
    /\ AppliedTo(view.entries, IF reply.quiet THEN {} ELSE AsksIn(LinesRead))
    /\ UNCHANGED <<log, pending, mail, ended, reply, queue, opens, said, odd>>

Subscribe ==
    /\ phase = "applied"
    /\ phase' = "live"
    /\ reply' = NoReply
    /\ UNCHANGED <<log, pending, mail, ended, view, queue, opens, said, odd>>

\* applyEvent.
AfterEvent(v, e) ==
    CASE e.kind \in EntryKinds ->
           [v EXCEPT !.entries[e.id] = e.size,
                     !.cursor = IF e.line > @ THEN e.line ELSE @]
      [] e.kind = "ask" -> [v EXCEPT !.asks = @ \cup {e.id}]
      [] e.kind = "answer" -> [v EXCEPT !.asks = @ \ {e.id}]
      [] OTHER -> v

\* The events of a frame, one after the other.
AllApplied(v, events) ==
    LET after[n \in 0..Len(events)] ==
            IF n = 0 THEN v ELSE AfterEvent(after[n - 1], events[n])
    IN  after[Len(events)]

\* The next frame: the queue is applied in its order.
Flush ==
    /\ queue # <<>>
    /\ queue' = <<>>
    /\ view' = AllApplied(view, queue)
    /\ UNCHANGED <<log, pending, mail, ended, phase, reply, opens, said, odd>>

\* Mutant of Close: what waited for the frame counts as shown.
CloseAhead ==
    /\ phase # "away"
    /\ phase' = "away"
    /\ queue' = <<>>
    /\ reply' = NoReply
    /\ view' = [view EXCEPT !.cursor = Max({@} \cup {queue[i].line : i \in DOMAIN queue})]
    /\ UNCHANGED <<log, pending, mail, ended, opens, said, odd>>

\* Another session is shown: a read or a subscription under way is dropped, and
\* so is what waited for the next frame.
Close ==
    /\ phase # "away"
    /\ phase' = "away"
    /\ queue' = <<>>
    /\ reply' = NoReply
    /\ UNCHANGED <<log, pending, mail, ended, view, opens, said, odd>>

\* The cache holds the last sessions only: the next opening reads anew.
Evict ==
    /\ phase = "away" /\ view.initialized
    /\ view' = EmptyView
    /\ odd' = odd \cap {"cut"}
    /\ UNCHANGED <<log, pending, mail, ended, phase, reply, queue, opens, said>>

Next ==
    \/ \E t \in Threads : Deliver(t) \/ (\E kind \in {"tool", "message"} : SayEntry(t, kind))
    \/ SayModel
    \/ \E id \in Ids : SayText(id) \/ Answer(id)
    \/ Ask
    \/ Shutdown
    \/ Open \/ Read \/ ReadFails \/ Apply \/ Subscribe
    \/ Flush \/ Close \/ Evict

Spec == Init /\ [][Next]_vars

(***************************************************************************)
(* Properties.                                                             *)
(***************************************************************************)
Orderly(deviations) == odd \cap deviations = {}

AtRest == phase = "live" /\ queue = <<>> /\ \A t \in Threads : mail[t].kind = "none"

\* A view that is subscribed and has nothing left to apply shows every entry in
\* the length it was said: what was cached, what was read behind the cursor and
\* what arrived live fit together without a hole (use-agent-message-stream.ts).
CaughtUp == AtRest /\ odd = {} => view.entries = said.entries

\* The requests a view shows are the ones still open, whichever way they came:
\* as events, or folded from the log when the view is opened again
\* (SYNC_PENDING_PERMISSIONS), although a part of a text may be missing.
PermissionsShown ==
    AtRest /\ Orderly(Deviations \ {"unflushed", "cut"}) => view.asks = said.asks

\* The cursor stands behind nothing the view has not applied: the lines a later
\* read skips are all on the screen (timeline_replay.rs, retain).
CursorCovers ==
    Orderly(Deviations \ {"quiet", "cut"}) =>
        \A i \in DOMAIN log :
            log[i].kind \in EntryKinds /\ i <= view.cursor =>
                view.entries[log[i].id] >= log[i].size

LoggedSize(id) == Max({0} \cup {log[i].size : i \in {j \in DOMAIN log :
                                    log[j].kind = "text" /\ log[j].id = id}})

\* The log is never behind of a text by the stride or more, and only of the
\* text held back, or cut off, last: as soon as anything else is logged the
\* text before it is complete (session_log_coalesce.rs).
LogCatchesUp ==
    \A id \in Ids :
        \/ \A i \in DOMAIN log : log[i].id = id => log[i].kind # "text"
        \/ LoggedSize(id) = said.entries[id]
        \/ /\ said.entries[id] < LoggedSize(id) + Stride
           /\ id = pending.id \/ "cut" \in odd

\* The entries on the screen are a lagging copy of what was said; a view to which
\* something odd has happened counts as forgotten until it is started again.
Shown == IF odd = {} THEN view.entries ELSE Nothing

Copy == INSTANCE LaggingCopy WITH
            MaxSize <- MaxEvents, original <- said.entries, copy <- Shown

LagsBehind == Copy!Spec

\* A session that is opened again shows the requests its log knows to be open,
\* even when nothing else was said (use-agent-message-stream.ts, comment at
\* SYNC_PENDING_PERMISSIONS). The quiet path refutes it.
PermissionsRestored ==
    phase = "applied" /\ reply.upto # 0 /\ view.cursor # 0 /\ "window" \notin odd =>
        AsksIn(1..reply.upto) \subseteq view.asks
=============================================================================
