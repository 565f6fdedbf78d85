--------------------------- MODULE SessionLifecycle ---------------------------
(***************************************************************************)
(* The life of the agent sessions of one issue: their rows, the processes  *)
(* behind them and the two tables that say which process serves which      *)
(* session: the registry of structured handles with its starting marks     *)
(* (session_registry.rs) and the terminals (pty_session_manager.rs).       *)
(*                                                                         *)
(* The commands (start, resume, switch of the display mode, return to the  *)
(* backlog, cancel) each run on a thread of their own and hold no lock     *)
(* from one step to the next; so does the listing of the sessions, which   *)
(* stops the rows it takes for lost and shuts the handles whose rows have  *)
(* ended, and so does the thread that waits for a terminal's process.      *)
(* The issue is running or in review ("running") or in the backlog; its    *)
(* completion is in CompletionFlow.                                        *)
(***************************************************************************)
EXTENDS Naturals, FiniteSets

CONSTANTS
    Sessions,     \* the rows the issue may get, one after the other
    Commands,     \* threads that execute commands
    MaxProcesses, \* processes started in a behaviour
    MaxRestarts   \* restarts of the program

ASSUME LifecycleAssumption == Sessions # {} /\ MaxProcesses \in Nat /\ MaxRestarts \in Nat

VARIABLES
    row,       \* per session: status ("ended": closed or crashed), mode, deleted
    issue,     \* status of the issue
    handle,    \* the registry: per session the process of its handle, 0 for none
    starting,  \* the registry: the sessions marked as starting
    pty,       \* the terminals: per session the process registered, 0 for none
    process,   \* per process: its session, its state and its waiting thread
    cmd,       \* per command thread: what it does, how far, on what
    poll,      \* the thread that lists the sessions
    restarts,  \* restarts of the program so far
    odd        \* history: the deviations that happened

vars == <<row, issue, handle, starting, pty, process, cmd, poll, restarts, odd>>

Processes == 1..MaxProcesses

Modes == {"json", "tui"}

\* What lets a row and its process differ: a race (a listing looks for a
\* session whose start has set no mark, a session is served after a listing
\* looked for it, an exit is recorded after the session was restarted, a handle
\* is shut while its session is restarted), commands of one session at the same
\* time, a mark left behind by an error.
Deviations == {"race", "overlap", "leak"}

Steps == {"idle", "committed", "decided", "released", "marked", "spawned", "running",
          "inserted", "failed", "unmarked", "restore", "found", "discarded"}

TypeOK ==
    /\ row \in [Sessions -> [status : {"none", "running", "stopped", "ended"},
                             mode : Modes, deleted : BOOLEAN]]
    /\ issue \in {"backlog", "running"}
    /\ handle \in [Sessions -> 0..MaxProcesses]
    /\ starting \subseteq Sessions
    /\ pty \in [Sessions -> 0..MaxProcesses]
    /\ process \in [Processes -> [of : Sessions, state : {"unborn", "alive", "dead"},
                                  waiter : {"none", "waits", "reaped"}]]
    /\ cmd \in [Commands -> [at : Steps, kind : {"start", "resume", "switch", "other"},
                             session : Sessions, mode : Modes, process : 0..MaxProcesses]]
    /\ poll \in [at : {"idle", "scan", "checked", "doomed", "ids", "purge"},
                 todo : SUBSET Sessions, session : Sessions]
    /\ restarts \in 0..MaxRestarts
    /\ odd \subseteq Deviations

SomeSession == CHOOSE s \in Sessions : TRUE

Idle == [at |-> "idle", kind |-> "other", session |-> SomeSession, mode |-> "json", process |-> 0]

NotListing == [at |-> "idle", todo |-> {}, session |-> SomeSession]

Init ==
    /\ row = [s \in Sessions |-> [status |-> "none", mode |-> "json", deleted |-> FALSE]]
    /\ issue = "backlog"
    /\ handle = [s \in Sessions |-> 0]
    /\ starting = {}
    /\ pty = [s \in Sessions |-> 0]
    /\ process = [p \in Processes |-> [of |-> SomeSession, state |-> "unborn", waiter |-> "none"]]
    /\ cmd = [c \in Commands |-> Idle]
    /\ poll = NotListing
    /\ restarts = 0
    /\ odd = {}

Exists(s) == row[s].status # "none" /\ ~row[s].deleted

Alive(p) == p # 0 /\ process[p].state = "alive"

\* The processes of the set end, where they have not.
Killed(ps) ==
    [p \in Processes |-> IF p \in ps /\ Alive(p) THEN [process[p] EXCEPT !.state = "dead"]
                         ELSE process[p]]

\* mark_terminated: only a row that is not closed, and not deleted.
Terminated(s, status) ==
    IF Exists(s) /\ row[s].status = "running" THEN [row EXCEPT ![s].status = status] ELSE row

Busy(s) == {c \in Commands : cmd[c].at # "idle" /\ cmd[c].session = s}

\* The registry's contains: a handle or a starting mark.
Contains(s) == handle[s] # 0 \/ s \in starting

Overlap(s) == IF Busy(s) = {} THEN odd ELSE odd \cup {"overlap"}

Go(c, at) == cmd' = [cmd EXCEPT ![c].at = at]

Begin(c, at, kind, s, mode) ==
    /\ cmd[c].at = "idle"
    /\ cmd' = [cmd EXCEPT ![c] = [at |-> at, kind |-> kind, session |-> s, mode |-> mode,
                                  process |-> 0]]
    /\ odd' = Overlap(s)

Done(c) == cmd' = [cmd EXCEPT ![c] = Idle]

\* Command c is at a step, for a session with one of the modes.
At(c, at, kinds, modes) == cmd[c].at = at /\ cmd[c].kind \in kinds /\ cmd[c].mode \in modes

Session(c) == cmd[c].session

(***************************************************************************)
(* Start: the row is committed, as running, before anything is started;    *)
(* only the structured path then sets a starting mark.                     *)
(***************************************************************************)
StartSession(c, s, mode) ==
    /\ issue = "backlog" /\ \A t \in Sessions : ~Exists(t)
    /\ row[s].status = "none"
    /\ Begin(c, "committed", "start", s, mode)
    /\ row' = [row EXCEPT ![s] = [status |-> "running", mode |-> mode, deleted |-> FALSE]]
    /\ issue' = "running"
    /\ UNCHANGED <<handle, starting, pty, process, poll>>

(***************************************************************************)
(* Resume: a session that has a process, or is starting, is only marked    *)
(* running again.                                                          *)
(***************************************************************************)
\* Mutant of ResumeSession: the terminals are not asked.
ResumeAnyway(c, s) ==
    /\ Exists(s) /\ issue = "running"
    /\ ~Contains(s)
    /\ Begin(c, "decided", "resume", s, row[s].mode)
    /\ UNCHANGED <<row, issue, handle, starting, pty, process, poll>>

ResumeSession(c, s) ==
    /\ Exists(s) /\ issue = "running"
    /\ pty[s] = 0 /\ ~Contains(s)
    /\ Begin(c, "decided", "resume", s, row[s].mode)
    /\ UNCHANGED <<row, issue, handle, starting, pty, process, poll>>

ResumeShort(s) ==
    /\ Exists(s) /\ issue = "running"
    /\ pty[s] # 0 \/ Contains(s)
    /\ row' = [row EXCEPT ![s].status = "running"]
    /\ UNCHANGED <<issue, handle, starting, pty, process, cmd, poll, odd>>

(***************************************************************************)
(* Switch: the live process is stopped first, a terminal's is waited for   *)
(* until its entry is gone or two seconds are over; then the row gets the  *)
(* other mode and is started again.                                        *)
(***************************************************************************)
Other(mode) == IF mode = "json" THEN "tui" ELSE "json"

SwitchMode(c, s) ==
    /\ Exists(s) /\ issue = "running"
    /\ Begin(c, "released", "switch", s, Other(row[s].mode))
    /\ handle' = [handle EXCEPT ![s] = 0]
    /\ starting' = starting \ {s}
    /\ process' = Killed({handle[s], pty[s]})
    /\ UNCHANGED <<row, issue, pty, poll>>

SwitchTimesOut(c) ==
    /\ cmd[c].at = "released" /\ pty[Session(c)] # 0
    /\ Done(c)
    /\ UNCHANGED <<row, issue, handle, starting, pty, process, poll, odd>>

PersistMode(c) ==
    /\ cmd[c].at = "released" /\ pty[Session(c)] = 0
    /\ IF row[Session(c)].deleted
       THEN Done(c) /\ UNCHANGED row
       ELSE Go(c, "decided") /\ row' = [row EXCEPT ![Session(c)].mode = cmd[c].mode]
    /\ UNCHANGED <<issue, handle, starting, pty, process, poll, odd>>

(***************************************************************************)
(* What the three have in common: mark, spawn, mark the row running (not   *)
(* for a start: its row is), register, clear the mark.                     *)
(***************************************************************************)
\* The listing has looked for the session and has not stopped it yet.
RacesListing(s, looked) ==
    IF poll.at \in looked /\ poll.session = s THEN odd \cup {"race"} ELSE odd

\* Mutant of MarkStarting: no mark is set.
MarkNothing(c) ==
    /\ At(c, "committed", {"start"}, {"json"}) \/ cmd[c].at = "decided"
    /\ Go(c, "marked")
    /\ odd' = RacesListing(Session(c), {"doomed"})
    /\ UNCHANGED <<row, issue, handle, starting, pty, process, poll>>

MarkStarting(c) ==
    /\ At(c, "committed", {"start"}, {"json"}) \/ cmd[c].at = "decided"
    /\ starting' = starting \cup {Session(c)}
    /\ Go(c, "marked")
    /\ odd' = RacesListing(Session(c), {"doomed"})
    /\ UNCHANGED <<row, issue, handle, pty, process, poll>>

Spawning(c) == cmd[c].at = "marked" \/ At(c, "committed", {"start"}, {"tui"})

Spawn(c, p) ==
    /\ Spawning(c)
    /\ process[p].state = "unborn" /\ \A q \in 1..(p - 1) : process[q].state # "unborn"
    /\ process' = [process EXCEPT ![p] = [of |-> Session(c), state |-> "alive", waiter |-> "none"]]
    /\ cmd' = [cmd EXCEPT ![c].at = "spawned", ![c].process = p]
    /\ UNCHANGED <<row, issue, handle, starting, pty, poll, odd>>

SpawnFails(c) ==
    /\ Spawning(c)
    /\ Go(c, "failed")
    /\ UNCHANGED <<row, issue, handle, starting, pty, process, poll, odd>>

\* The thread id is missing or cannot be written, or the first message fails.
ProviderFails(c) ==
    /\ cmd[c].at = "spawned" /\ ~At(c, "spawned", {"start"}, {"tui"})
    /\ Go(c, "failed")
    /\ UNCHANGED <<row, issue, handle, starting, pty, process, poll, odd>>

\* A read that fails between the mark and the registration returns at once:
\* the model of a resume, the attachments of a start, whose handle is dropped
\* and with it its process.
ReadFails(c) ==
    /\ \/ At(c, "marked", {"resume", "switch"}, {"json"})
       \/ At(c, "spawned", {"start"}, {"json"})
    /\ process' = Killed({cmd[c].process})
    /\ IF cmd[c].kind = "switch" THEN Go(c, "restore") ELSE Done(c)
    /\ odd' = odd \cup {"leak"}
    /\ UNCHANGED <<row, issue, handle, starting, pty, poll>>

\* mark_running has no guard but that the row is there.
MarkRunning(c) ==
    /\ At(c, "spawned", {"resume", "switch"}, Modes)
    /\ IF row[Session(c)].deleted
       THEN Go(c, "failed") /\ UNCHANGED row
       ELSE Go(c, "running") /\ row' = [row EXCEPT ![Session(c)].status = "running"]
    /\ UNCHANGED <<issue, handle, starting, pty, process, poll, odd>>

Registering(c, mode) ==
    At(c, "spawned", {"start"}, {mode}) \/ At(c, "running", {"resume", "switch"}, {mode})

\* The handle it replaces is dropped, and with it its process.
RegisterHandle(c) ==
    /\ Registering(c, "json")
    /\ handle' = [handle EXCEPT ![Session(c)] = cmd[c].process]
    /\ process' = Killed({handle[Session(c)]})
    /\ Go(c, "inserted")
    /\ UNCHANGED <<row, issue, starting, pty, poll, odd>>

RegisterTerminal(c) ==
    /\ Registering(c, "tui") /\ pty[Session(c)] = 0
    /\ pty' = [pty EXCEPT ![Session(c)] = cmd[c].process]
    /\ process' = [process EXCEPT ![cmd[c].process].waiter = "waits"]
    /\ Go(c, "inserted")
    /\ odd' = RacesListing(Session(c), {"checked", "doomed"})
    /\ UNCHANGED <<row, issue, handle, starting, poll>>

\* There is a terminal already: the new process is terminated, and its end is
\* recorded in the row the two share.
TerminalRefused(c) ==
    /\ Registering(c, "tui") /\ pty[Session(c)] # 0
    /\ starting' = starting \ {Session(c)}
    /\ process' = Killed({cmd[c].process})
    /\ row' = Terminated(Session(c), "ended")
    /\ cmd' = [cmd EXCEPT ![c].at = IF cmd[c].kind = "resume" THEN "idle" ELSE "unmarked"]
    /\ UNCHANGED <<issue, handle, pty, poll, odd>>

ClearMark(c) ==
    /\ cmd[c].at = "inserted"
    /\ starting' = IF At(c, "inserted", {"start"}, {"tui"}) THEN starting
                   ELSE starting \ {Session(c)}
    /\ Done(c)
    /\ UNCHANGED <<row, issue, handle, pty, process, poll, odd>>

(***************************************************************************)
(* Failure: the mark is cleared, then the process is shut and a start is   *)
(* rolled back, a switch gets its mode back.                               *)
(***************************************************************************)
\* The first prompt cannot be written to the terminal.
InputFails(c) ==
    /\ At(c, "inserted", {"start"}, {"tui"})
    /\ process' = Killed({pty[Session(c)]})
    /\ row' = Terminated(Session(c), "ended")
    /\ Go(c, "unmarked")
    /\ UNCHANGED <<issue, handle, starting, pty, poll, odd>>

\* Mutant of Unmark: the mark stays.
UnmarkNothing(c) ==
    /\ cmd[c].at = "failed"
    /\ Go(c, "unmarked")
    /\ UNCHANGED <<row, issue, handle, starting, pty, process, poll, odd>>

Unmark(c) ==
    /\ cmd[c].at = "failed"
    /\ starting' = IF At(c, "failed", {"start"}, {"tui"}) THEN starting
                   ELSE starting \ {Session(c)}
    /\ Go(c, "unmarked")
    /\ UNCHANGED <<row, issue, handle, pty, process, poll, odd>>

\* Mutant of RollBack: the issue keeps its status.
RollBackRow(c) ==
    /\ At(c, "unmarked", {"start"}, Modes)
    /\ process' = Killed({cmd[c].process})
    /\ row' = [row EXCEPT ![Session(c)].deleted = TRUE]
    /\ Done(c)
    /\ UNCHANGED <<issue, handle, starting, pty, poll, odd>>

RollBack(c) ==
    /\ At(c, "unmarked", {"start"}, Modes)
    /\ process' = Killed({cmd[c].process})
    /\ row' = [row EXCEPT ![Session(c)].deleted = TRUE]
    /\ issue' = "backlog"
    /\ Done(c)
    /\ UNCHANGED <<handle, starting, pty, poll, odd>>

GiveUp(c) ==
    /\ At(c, "unmarked", {"resume", "switch"}, Modes)
    /\ process' = Killed({cmd[c].process})
    /\ IF cmd[c].kind = "switch" THEN Go(c, "restore") ELSE Done(c)
    /\ UNCHANGED <<row, issue, handle, starting, pty, poll, odd>>

RestoreMode(c) ==
    /\ cmd[c].at = "restore"
    /\ row' = IF row[Session(c)].deleted THEN row
              ELSE [row EXCEPT ![Session(c)].mode = Other(cmd[c].mode)]
    /\ Done(c)
    /\ UNCHANGED <<issue, handle, starting, pty, process, poll, odd>>

(***************************************************************************)
(* The issue is returned to the backlog: its row is closed and deleted in  *)
(* one transaction, and whatever serves it is shut after that.             *)
(***************************************************************************)
ReturnToBacklog(c, s) ==
    /\ Exists(s) /\ issue = "running"
    /\ Begin(c, "discarded", "other", s, row[s].mode)
    /\ row' = [Terminated(s, "ended") EXCEPT ![s].deleted = TRUE]
    /\ issue' = "backlog"
    /\ UNCHANGED <<handle, starting, pty, process, poll>>

\* unregister and shutdown, and kill of the terminal.
Shut(s) ==
    /\ handle' = [handle EXCEPT ![s] = 0]
    /\ starting' = starting \ {s}
    /\ process' = Killed({handle[s], pty[s]})

ShutDiscarded(c) ==
    /\ cmd[c].at = "discarded"
    /\ Shut(Session(c))
    /\ Done(c)
    /\ UNCHANGED <<row, issue, pty, poll, odd>>

(***************************************************************************)
(* cancel_agent_turn meets a process that is gone and drops whatever       *)
(* handle is there when it gets to it.                                     *)
(***************************************************************************)
CancelFindsDead(c, s) ==
    /\ handle[s] # 0 /\ ~Alive(handle[s])
    /\ Begin(c, "found", "other", s, "json")
    /\ UNCHANGED <<row, issue, handle, starting, pty, process, poll>>

CancelUnregisters(c) ==
    /\ cmd[c].at = "found"
    /\ handle' = [handle EXCEPT ![Session(c)] = 0]
    /\ starting' = starting \ {Session(c)}
    /\ process' = Killed({handle[Session(c)]})
    /\ Done(c)
    /\ UNCHANGED <<row, issue, pty, poll, odd>>

(***************************************************************************)
(* Processes end; the thread that waits for a terminal's process takes the *)
(* terminal out of the table and then, later, records the end in the row.  *)
(***************************************************************************)
Exits(p) ==
    /\ Alive(p)
    /\ process' = Killed({p})
    /\ UNCHANGED <<row, issue, handle, starting, pty, cmd, poll, odd>>

Reap(p) ==
    /\ process[p].state = "dead" /\ process[p].waiter = "waits"
    /\ process' = [process EXCEPT ![p].waiter = "reaped"]
    /\ pty' = [pty EXCEPT ![process[p].of] = 0]
    /\ UNCHANGED <<row, issue, handle, starting, cmd, poll, odd>>

\* The row was marked running for a later process.
Restarted(p) ==
    \E q \in Processes :
        /\ q > p /\ process[q].of = process[p].of
        /\ \/ q \in {handle[process[p].of], pty[process[p].of]}
           \/ \E c \in Commands : cmd[c].process = q /\ cmd[c].at \in {"running", "inserted"}

RecordExit(p) ==
    /\ process[p].waiter = "reaped"
    /\ process' = [process EXCEPT ![p].waiter = "none"]
    /\ row' = Terminated(process[p].of, "ended")
    /\ odd' = IF row' # row /\ Restarted(p) THEN odd \cup {"race"} ELSE odd
    /\ UNCHANGED <<issue, handle, starting, pty, cmd, poll>>

(***************************************************************************)
(* The listing: the running rows are read, then one by one looked up in    *)
(* the two tables, one after the other, and stopped when in neither.       *)
(***************************************************************************)
ListRunning ==
    /\ poll.at = "idle"
    /\ poll' = [poll EXCEPT !.at = "scan",
                            !.todo = {s \in Sessions : Exists(s) /\ row[s].status = "running"}]
    /\ UNCHANGED <<row, issue, handle, starting, pty, process, cmd, odd>>

Skip(s) == [poll EXCEPT !.at = "scan", !.todo = @ \ {s}, !.session = SomeSession]

LookInTerminals(s) ==
    /\ poll.at = "scan" /\ s \in poll.todo
    /\ poll' = IF pty[s] # 0 THEN Skip(s) ELSE [poll EXCEPT !.at = "checked", !.session = s]
    /\ UNCHANGED <<row, issue, handle, starting, pty, process, cmd, odd>>

\* The window the marks leave open: a start sets its mark after the commit of
\* the row, a terminal's start sets none.
UnmarkedStart(s) ==
    \E c \in Busy(s) : cmd[c].kind = "start" /\ (cmd[c].at = "committed" \/ cmd[c].mode = "tui")

LookInRegistry ==
    /\ poll.at = "checked"
    /\ IF Contains(poll.session)
       THEN poll' = Skip(poll.session) /\ UNCHANGED odd
       ELSE /\ poll' = [poll EXCEPT !.at = "doomed"]
            /\ odd' = IF UnmarkedStart(poll.session) THEN odd \cup {"race"} ELSE odd
    /\ UNCHANGED <<row, issue, handle, starting, pty, process, cmd>>

\* Mutant of StopLost: the row is left as it is.
StopNothing ==
    /\ poll.at = "doomed"
    /\ poll' = Skip(poll.session)
    /\ UNCHANGED <<row, issue, handle, starting, pty, process, cmd, odd>>

StopLost ==
    /\ poll.at = "doomed"
    /\ row' = Terminated(poll.session, "stopped")
    /\ poll' = Skip(poll.session)
    /\ UNCHANGED <<issue, handle, starting, pty, process, cmd, odd>>

(***************************************************************************)
(* ... then the registered sessions are read, those of them whose rows do  *)
(* not run are picked, and what serves these is shut.                      *)
(***************************************************************************)
ListRegistered ==
    /\ poll.at = "scan" /\ poll.todo = {}
    /\ poll' = [poll EXCEPT !.at = "ids", !.todo = {s \in Sessions : handle[s] # 0}]
    /\ UNCHANGED <<row, issue, handle, starting, pty, process, cmd, odd>>

Runs(s) == Exists(s) /\ row[s].status = "running"

\* Mutant of PickEnded: only the deleted rows.
PickDeleted ==
    /\ poll.at = "ids"
    /\ poll' = [poll EXCEPT !.at = "purge", !.todo = {s \in @ : row[s].deleted}]
    /\ UNCHANGED <<row, issue, handle, starting, pty, process, cmd, odd>>

PickEnded ==
    /\ poll.at = "ids"
    /\ poll' = [poll EXCEPT !.at = "purge", !.todo = {s \in @ : ~Runs(s)}]
    /\ UNCHANGED <<row, issue, handle, starting, pty, process, cmd, odd>>

ShutEnded(s) ==
    /\ poll.at = "purge" /\ s \in poll.todo
    /\ Shut(s)
    /\ poll' = [poll EXCEPT !.todo = @ \ {s}]
    /\ odd' = IF Runs(s) \/ Busy(s) # {} THEN odd \cup {"race"} ELSE odd
    /\ UNCHANGED <<row, issue, pty, cmd>>

Listed ==
    /\ poll.at = "purge" /\ poll.todo = {}
    /\ poll' = NotListing
    /\ UNCHANGED <<row, issue, handle, starting, pty, process, cmd, odd>>

(***************************************************************************)
(* The project is closed: everything registered is shut.  The program ends *)
(* and is started again: the rows are all that stays.                      *)
(***************************************************************************)
CloseProject ==
    /\ process' = Killed({handle[s] : s \in Sessions} \cup {pty[s] : s \in Sessions})
    /\ handle' = [s \in Sessions |-> 0]
    /\ UNCHANGED <<row, issue, starting, pty, cmd, poll, odd>>

Restart ==
    /\ restarts < MaxRestarts
    /\ restarts' = restarts + 1
    /\ handle' = [s \in Sessions |-> 0] /\ pty' = [s \in Sessions |-> 0] /\ starting' = {}
    /\ process' = [p \in Processes |->
                     IF process[p].state = "unborn" THEN process[p]
                     ELSE [process[p] EXCEPT !.state = "dead", !.waiter = "none"]]
    /\ cmd' = [c \in Commands |-> Idle] /\ poll' = NotListing
    /\ UNCHANGED <<row, issue, odd>>

Requests(c) ==
    \E s \in Sessions :
        \/ \E mode \in Modes : StartSession(c, s, mode)
        \/ ResumeSession(c, s) \/ SwitchMode(c, s)
        \/ ReturnToBacklog(c, s) \/ CancelFindsDead(c, s)

\* The next step of a command under way.
Proceeds(c) ==
    \/ SwitchTimesOut(c) \/ PersistMode(c) \/ MarkStarting(c)
    \/ (\E p \in Processes : Spawn(c, p)) \/ SpawnFails(c) \/ ProviderFails(c) \/ ReadFails(c)
    \/ MarkRunning(c) \/ RegisterHandle(c) \/ RegisterTerminal(c) \/ TerminalRefused(c)
    \/ ClearMark(c) \/ InputFails(c) \/ Unmark(c) \/ RollBack(c) \/ GiveUp(c) \/ RestoreMode(c)
    \/ ShutDiscarded(c) \/ CancelUnregisters(c)

Lists ==
    \/ ListRunning \/ LookInRegistry \/ StopLost \/ ListRegistered \/ PickEnded \/ Listed
    \/ \E s \in Sessions : LookInTerminals(s) \/ ShutEnded(s)

Next ==
    \/ /\ \/ \E c \in Commands : Requests(c) \/ Proceeds(c)
          \/ \E s \in Sessions : ResumeShort(s)
          \/ \E p \in Processes : Exits(p) \/ Reap(p) \/ RecordExit(p)
          \/ Lists \/ CloseProject
       /\ UNCHANGED restarts
    \/ Restart

Spec == Init /\ [][Next]_vars

\* Threads go on: commands, the threads that wait for processes, and the
\* listing, which the views ask for every few seconds.
Fairness ==
    /\ \A c \in Commands : WF_vars(Proceeds(c) /\ UNCHANGED restarts)
    /\ \A p \in Processes : WF_vars((Reap(p) \/ RecordExit(p)) /\ UNCHANGED restarts)
    /\ WF_vars(Lists /\ UNCHANGED restarts)

FairSpec == Spec /\ Fairness

(***************************************************************************)
(* Properties                                                              *)
(***************************************************************************)

Orderly == odd \subseteq {"leak"}

\* A process that serves a session serves a row that runs: the list does not
\* call a session lost that works, nor does the program shut it for that.
LiveNotLost ==
    \A s \in Sessions : (Alive(handle[s]) \/ Alive(pty[s])) /\ Busy(s) = {} => Runs(s)

\* So it is in an orderly project.
OrderlyLiveNotLost == Orderly => LiveNotLost

\* The two modes and their processes exclude each other: unless commands of
\* one session overlap, the provider's session has one writer.
OneWriter ==
    "overlap" \notin odd =>
        \A s \in Sessions :
            \A p, q \in Processes :
                Alive(p) /\ Alive(q) /\ process[p].of = s /\ process[q].of = s => p = q

\* A starting mark belongs to a command under way: nothing that failed keeps
\* a session from being resumed or stopped, but for the named errors.
MarksReleased ==
    "leak" \notin odd => \A s \in starting : Busy(s) # {}

\* The issue is in the backlog exactly when it has no session.
IssueFollowsSession ==
    "overlap" \notin odd => (issue = "running" <=> \E s \in Sessions : Exists(s))

\* A running row that nothing serves is noticed: after a restart, or when the
\* process is gone and its handle dropped, the row is stopped or served again.
Unserved(s) == Runs(s) /\ handle[s] = 0 /\ pty[s] = 0 /\ s \notin starting /\ Busy(s) = {}

LostIsNoticed == \A s \in Sessions : Unserved(s) ~> ~Unserved(s)

\* A structured process whose row has ended is shut by a later listing.
Stray(s) == handle[s] # 0 /\ Exists(s) /\ ~Runs(s)

StrayIsShut == \A s \in Sessions : Stray(s) ~> ~Stray(s)
=============================================================================
