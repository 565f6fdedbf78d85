----------------------- MODULE ProviderSessionProofs -----------------------
(***************************************************************************)
(* The end of every turn is told and one process works at a time, for any  *)
(* number of messages, stops and views, until the first deviation.         *)
(*                                                                         *)
(* The invariant follows the one turn state of the session.  Processes are *)
(* numbered as they are started (Numbered), one caller sends at a time     *)
(* (Staged), and a result is the last line of its process (Printed).  An   *)
(* end that is not told is still the business of somebody who will tell    *)
(* it: the reader, the waiting thread, a failure that is decided, or a     *)
(* stop (Owned).  Who sends works alone, and what works is stored or being *)
(* sent (Alone).  For Claude, whose earlier process is not shut, the       *)
(* composer has to know of a process that works: it has the current turn,  *)
(* and the row of a turn that is not over is live (Followed).              *)
(*                                                                         *)
(* Nothing is claimed of a state after a deviation: the invariant speaks   *)
(* of Tidy states, and a deviation is never forgotten (OddGrows).          *)
(***************************************************************************)
EXTENDS ProviderSession, SequenceTheorems, FiniteSetTheorems, TLAPS

\* No deviation so far.
Tidy == past.odd = {}

(***************************************************************************)
(* The sets of TypeOK, by name.                                            *)
(***************************************************************************)

Handles == [current : {0} \cup Procs, finalized : BOOLEAN, transport : {0} \cup Procs]

Sends == [at : Stages, queued : BOOLEAN, proc : {0} \cup Procs]

Cancels == [at : {"none", "read", "killed"}, turn : {0} \cup Procs,
            killed : {0} \cup Procs]

Processes == [life : {"none", "alive", "exited"}, out : Seq(Lines),
              done : BOOLEAN, step : BOOLEAN, listens : BOOLEAN,
              closed : {"no", "client", "eof"}, reads : BOOLEAN,
              exit : {"none", "waits", "told", "fails", "over"}]

Rows == [live : BOOLEAN, grace : BOOLEAN]

Views == [mounted : BOOLEAN, number : 1..MaxViews, running : BOOLEAN,
          row : BOOLEAN, chip : BOOLEAN]

Pasts == [told : SUBSET Procs, owed : BOOLEAN, odd : SUBSET Deviations,
          sent : {0} \cup Procs, prompts : 0..MaxPrompts,
          cancels : 0..MaxCancels, steps : 0..MaxSteps]

\* TypeOK, with these names.
Typed ==
    /\ provider \in {"claude", "opencode"}
    /\ handle \in Handles
    /\ send \in [Callers -> Sends]
    /\ cancel \in Cancels
    /\ proc \in [Procs -> Processes]
    /\ row \in Rows
    /\ wire \in Seq({"run", "stop"})
    /\ view \in Views
    /\ cache \in BOOLEAN
    /\ past \in Pasts

(***************************************************************************)
(* The invariant.                                                          *)
(***************************************************************************)

\* The message of c has no process yet; it has one that is not stored.
Waiting(c) == send[c].at \in {"begun", "cleared"}
Started(c) == send[c].at \in {"spawned", "reset", "heard"}

\* Processes are numbered in the order they are started, and there is one for
\* every prompt at most: what is sent, and what waits, has been counted.
Numbered ==
    /\ \A p \in Procs : IF p > past.sent THEN proc[p] = NoProc
                                         ELSE proc[p].life # "none"
    /\ \A p \in {handle.current, handle.transport, cancel.turn, cancel.killed} :
           p <= past.sent
    /\ past.sent <= past.prompts
    /\ cache => past.sent + 1 <= past.prompts
    /\ \A c \in Callers : Waiting(c) =>
           /\ past.sent + 1 <= past.prompts
           /\ cache => past.sent + 2 <= past.prompts
    /\ ~view.mounted => view.number < MaxViews

\* One caller sends at a time, the process of its message is the last one.
Staged ==
    /\ \A c, d \in Callers : InFlight(c) /\ InFlight(d) => c = d
    /\ \A c \in Callers :
           /\ Waiting(c) => send[c].proc = 0
           /\ send[c].at = "cleared" => OpenCode
           /\ Started(c) => send[c].proc = past.sent /\ past.sent # 0
           /\ send[c].at \in {"spawned", "reset"} =>
                  proc[past.sent].exit = "none" /\ ~proc[past.sent].listens
           /\ send[c].at \in {"reset", "heard"} => handle.current \in {0, past.sent}

\* The waiting thread is told after the last line; a result is the last line.
Printed ==
    \A p \in Procs :
        /\ proc[p].exit \in {"told", "fails", "over"} =>
               proc[p].life = "exited" /\ ~proc[p].reads
        /\ \A i \in DOMAIN proc[p].out :
               /\ proc[p].out[i] \in {"ok", "error"} => proc[p].done
               /\ Claude => proc[p].out[i] \in {"text", "ok", "error"}

\* A stop has killed p and is about to report it.
StoppedFirst(p) == cancel.at = "killed" /\ cancel.killed = p

\* Whose business the end of p is: nobody's any more, the reader's and the
\* waiting thread's, the failure's that is decided, or the stop's.
Owner(p) ==
    /\ p <= past.sent =>
           \/ \E c \in Callers : send[c].at = "spawned" /\ p = past.sent
           \/ p \in past.told
           \/ handle.current = p /\ ~handle.finalized
           \/ proc[p].exit = "fails"
           \/ proc[p].exit = "over" /\ StoppedFirst(p)
    /\ proc[p].closed = "client" /\ p \notin past.told => StoppedFirst(p)
    /\ Claude /\ StoppedFirst(p) /\ p \notin past.told => cancel.turn = p
    /\ proc[p].exit \in {"fails", "over"} => handle.current # p

Owned ==
    /\ ~handle.finalized => handle.current # 0
    /\ OpenCode => cancel.turn = 0
    /\ \A p \in Procs : Owner(p)

\* Whoever sends works alone, and what works is stored or being sent.
Alone ==
    /\ \A c \in Callers : InFlight(c) /\ (OpenCode => send[c].at # "begun") =>
           \A p \in Procs : Working(p) => p = send[c].proc
    /\ \A p \in Procs : Working(p) =>
           \/ handle.transport = p
           \/ \E c \in Callers : Started(c) /\ p = past.sent

\* The view can see that p goes on, and nobody sends but, at last, p's caller.
Visible(p) ==
    /\ row.live /\ ~row.grace
    /\ \A c \in Callers : InFlight(c) => send[c].at = "heard" /\ p = past.sent

\* A failure that is decided and not reported, of a turn that is not over yet.
FailureDue(p) == proc[p].exit = "fails" /\ p \notin past.told

\* Claude: what works has the current turn, or will have it.
Busy(p) ==
    Working(p) => \/ handle.current = p /\ ~handle.finalized
                  \/ \E c \in Callers : send[c].at = "spawned" /\ p = past.sent

\* Claude: a turn that is not over, and a failure that is due, can be seen.
Followed ==
    /\ \A p \in Procs : cancel.killed = p => proc[p].life = "exited"
    /\ Claude =>
        /\ \A p \in Procs : Busy(p)
        /\ ~handle.finalized =>
               \/ \E c \in Callers : send[c].at = "reset"
               \/ Visible(handle.current)
        /\ \A p \in Procs : FailureDue(p) => handle.current = 0 /\ Visible(p)
        /\ \A p, q \in Procs : FailureDue(p) /\ FailureDue(q) => p = q
        /\ \A p \in Procs : cancel.at = "killed" /\ cancel.turn = p => ~Working(p)

Sound == Typed /\ Numbered /\ Staged /\ Printed /\ Owned /\ Alone /\ Followed

IInv == "odd" \in DOMAIN past /\ (Tidy => Sound)

(***************************************************************************)
(* Bounds, types and fields.                                               *)
(***************************************************************************)

\* The bounds are numbers.
LEMMA Bounds ==
    /\ MaxPrompts \in Nat /\ MaxCancels \in Nat /\ MaxSteps \in Nat
    /\ Backlog \in Nat /\ MaxViews \in Nat /\ MaxViews # 0
    /\ Procs \subseteq Nat /\ 0 \notin Procs
    /\ \A n \in Nat : n + 1 <= MaxPrompts => n + 1 \in Procs
  <1>1. \A n \in {MaxPrompts, MaxCancels, MaxSteps, Backlog} : n \in Nat
    BY ProviderAssumption
  <1>2. /\ MaxPrompts \in Nat /\ MaxCancels \in Nat /\ MaxSteps \in Nat
        /\ Backlog \in Nat
    BY <1>1
  <1>3. MaxViews \in Nat /\ MaxViews # 0
    BY ProviderAssumption
  <1> QED
    BY <1>2, <1>3 DEF Procs

\* The types of the parts of a state.
LEMMA Parts ==
    ASSUME Typed
    PROVE  /\ handle.current \in {0} \cup Procs /\ handle.transport \in {0} \cup Procs
           /\ handle.finalized \in BOOLEAN
           /\ cancel.at \in {"none", "read", "killed"}
           /\ cancel.turn \in {0} \cup Procs /\ cancel.killed \in {0} \cup Procs
           /\ row.live \in BOOLEAN /\ row.grace \in BOOLEAN
           /\ view.mounted \in BOOLEAN /\ view.number \in Callers
           /\ view.running \in BOOLEAN /\ view.row \in BOOLEAN /\ view.chip \in BOOLEAN
           /\ past.told \in SUBSET Procs /\ past.sent \in {0} \cup Procs
           /\ past.odd \in SUBSET Deviations
           /\ past.prompts \in 0..MaxPrompts /\ past.prompts \in Nat
           /\ past.sent \in Nat /\ handle.current \in Nat /\ handle.transport \in Nat
           /\ cancel.turn \in Nat /\ cancel.killed \in Nat
           /\ \A p \in Procs : proc[p] \in Processes
           /\ \A c \in Callers : send[c] \in Sends
  <1>1. handle \in Handles /\ cancel \in Cancels /\ row \in Rows /\ view \in Views
        /\ past \in Pasts
    BY DEF Typed
  <1>2. /\ handle.current \in {0} \cup Procs /\ handle.transport \in {0} \cup Procs
        /\ handle.finalized \in BOOLEAN
    BY <1>1 DEF Handles
  <1>3. /\ cancel.at \in {"none", "read", "killed"}
        /\ cancel.turn \in {0} \cup Procs /\ cancel.killed \in {0} \cup Procs
    BY <1>1 DEF Cancels
  <1>4. row.live \in BOOLEAN /\ row.grace \in BOOLEAN
    BY <1>1 DEF Rows
  <1>5. /\ view.mounted \in BOOLEAN /\ view.number \in 1..MaxViews
        /\ view.running \in BOOLEAN /\ view.row \in BOOLEAN /\ view.chip \in BOOLEAN
    BY <1>1 DEF Views
  <1>6. /\ past.told \in SUBSET Procs /\ past.sent \in {0} \cup Procs
        /\ past.prompts \in 0..MaxPrompts /\ past.odd \in SUBSET Deviations
    BY <1>1 DEF Pasts
  <1>7. past.prompts \in Nat
    BY <1>6, Bounds
  <1>8. view.number \in Callers
    BY <1>5, Bounds DEF Callers
  <1>9. /\ \A p \in Procs : proc[p] \in Processes
        /\ \A c \in Callers : send[c] \in Sends
    BY DEF Typed
  <1>10. {0} \cup Procs \subseteq Nat
    BY Bounds
  <1>11. /\ past.sent \in Nat /\ handle.current \in Nat /\ handle.transport \in Nat
         /\ cancel.turn \in Nat /\ cancel.killed \in Nat
    BY <1>2, <1>3, <1>6, <1>10
  <1> QED
    BY <1>2, <1>3, <1>4, <1>5, <1>6, <1>7, <1>8, <1>9, <1>11

\* The fields of a process.
LEMMA ProcessFields ==
    ASSUME NEW r \in Processes
    PROVE  /\ r.life \in {"none", "alive", "exited"} /\ r.out \in Seq(Lines)
           /\ r.done \in BOOLEAN /\ r.step \in BOOLEAN /\ r.listens \in BOOLEAN
           /\ r.closed \in {"no", "client", "eof"} /\ r.reads \in BOOLEAN
           /\ r.exit \in {"none", "waits", "told", "fails", "over"}
  BY DEF Processes

\* The fields of a caller.
LEMMA SendFields ==
    ASSUME NEW r \in Sends
    PROVE  r.at \in Stages /\ r.queued \in BOOLEAN /\ r.proc \in {0} \cup Procs
  BY DEF Sends

\* When one process is changed, the others are what they were.
LEMMA OneProcess ==
    ASSUME Typed, NEW p \in Procs, NEW r \in Processes,
           proc' = [proc EXCEPT ![p] = r]
    PROVE  /\ proc' \in [Procs -> Processes]
           /\ proc'[p] = r
           /\ \A q \in Procs \ {p} : proc'[q] = proc[q]
  BY DEF Typed

\* The same for the callers.
LEMMA OneCaller ==
    ASSUME Typed, NEW c \in Callers, NEW r \in Sends,
           send' = [send EXCEPT ![c] = r]
    PROVE  /\ send' \in [Callers -> Sends]
           /\ send'[c] = r
           /\ \A d \in Callers \ {c} : send'[d] = send[d]
  BY DEF Typed

\* A process that is shut: it is gone, and only that is new.
LEMMA ShutEffect ==
    ASSUME Typed, NEW p \in {0} \cup Procs, proc' = Shut(p)
    PROVE  /\ proc' \in [Procs -> Processes]
           /\ \A q \in Procs \ {p} : proc'[q] = proc[q]
           /\ \A q \in Procs : q = p =>
                  /\ proc'[q].life = "exited"
                  /\ proc'[q].closed = IF proc[q].closed = "no" THEN "client"
                                                             ELSE proc[q].closed
                  /\ proc'[q].out = proc[q].out /\ proc'[q].done = proc[q].done
                  /\ proc'[q].step = proc[q].step
                  /\ proc'[q].listens = proc[q].listens
                  /\ proc'[q].reads = proc[q].reads /\ proc'[q].exit = proc[q].exit
  <1>1. CASE p = 0
    BY <1>1, Bounds DEF Shut, Typed
  <1>2. CASE p # 0
    <2>1. p \in Procs /\ proc[p] \in Processes
      BY <1>2 DEF Typed
    <2> DEFINE r == [proc[p] EXCEPT !.life = "exited",
                        !.closed = IF @ = "no" THEN "client" ELSE @]
    <2>2. /\ r \in Processes
          /\ r.life = "exited"
          /\ r.closed = IF proc[p].closed = "no" THEN "client" ELSE proc[p].closed
          /\ r.out = proc[p].out /\ r.done = proc[p].done /\ r.step = proc[p].step
          /\ r.listens = proc[p].listens /\ r.reads = proc[p].reads
          /\ r.exit = proc[p].exit
      BY <2>1 DEF Processes
    <2>3. proc' = [proc EXCEPT ![p] = r]
      BY <1>2, <2>1 DEF Shut, Typed
    <2> HIDE DEF r
    <2>4. /\ proc' \in [Procs -> Processes] /\ proc'[p] = r
          /\ \A q \in Procs \ {p} : proc'[q] = proc[q]
      BY <2>1, <2>2, <2>3, OneProcess
    <2> QED
      BY <2>2, <2>4
  <1> QED
    BY <1>1, <1>2

\* A line that is read is gone from the output, and only that is new.
LEMMA ReadsEffect ==
    ASSUME Typed, NEW p \in Procs, NEW line \in Lines, Reads(p, line)
    PROVE  /\ proc' \in [Procs -> Processes]
           /\ \A q \in Procs \ {p} : proc'[q] = proc[q]
           /\ proc'[p].life = proc[p].life /\ proc'[p].done = proc[p].done
           /\ proc'[p].closed = proc[p].closed /\ proc'[p].reads = proc[p].reads
           /\ proc'[p].listens = proc[p].listens /\ proc'[p].exit = proc[p].exit
           /\ \A i \in DOMAIN proc'[p].out :
                  \E j \in DOMAIN proc[p].out : proc'[p].out[i] = proc[p].out[j]
           /\ proc[p].reads
           /\ \E j \in DOMAIN proc[p].out : proc[p].out[j] = line
           /\ UNCHANGED <<provider, send, cancel, view, cache>>
  <1>1. proc[p] \in Processes /\ proc[p].out \in Seq(Lines) /\ proc[p].out # <<>>
    BY DEF Typed, Processes, Reads
  <1> DEFINE r == [proc[p] EXCEPT !.out = Tail(@)]
  <1>2. /\ Tail(proc[p].out) \in Seq(Lines)
        /\ \A i \in DOMAIN Tail(proc[p].out) :
               /\ i + 1 \in DOMAIN proc[p].out
               /\ Tail(proc[p].out)[i] = proc[p].out[i + 1]
        /\ 1 \in DOMAIN proc[p].out /\ proc[p].out[1] = Head(proc[p].out)
    BY <1>1
  <1>3. /\ r \in Processes
        /\ r.life = proc[p].life /\ r.done = proc[p].done /\ r.out = Tail(proc[p].out)
        /\ r.closed = proc[p].closed /\ r.reads = proc[p].reads
        /\ r.listens = proc[p].listens /\ r.exit = proc[p].exit
    BY <1>1, <1>2 DEF Processes
  <1>4. proc' = [proc EXCEPT ![p] = r]
    BY <1>1 DEF Reads, Typed
  <1> HIDE DEF r
  <1>5. /\ proc' \in [Procs -> Processes] /\ proc'[p] = r
        /\ \A q \in Procs \ {p} : proc'[q] = proc[q]
    BY <1>1, <1>3, <1>4, OneProcess
  <1>6. \A i \in DOMAIN proc'[p].out :
           \E j \in DOMAIN proc[p].out : proc'[p].out[i] = proc[p].out[j]
    BY <1>2, <1>3, <1>5
  <1>7. \E j \in DOMAIN proc[p].out : proc[p].out[j] = line
    BY <1>2 DEF Reads
  <1> QED
    BY <1>3, <1>5, <1>6, <1>7 DEF Reads

\* A process of a number is started.
LEMMA StartedNumber ==
    ASSUME Typed, Numbered, NEW p \in Procs, proc[p].life # "none" \/ proc[p].reads
    PROVE  p <= past.sent
  BY Parts, Bounds DEF Numbered, NoProc

\* Nothing goes on that a message could get in the way of.
Calm ==
    /\ \A c \in Callers : ~InFlight(c)
    /\ Claude => /\ handle.finalized
                 /\ \A p \in Procs : ~Working(p) /\ ~FailureDue(p)

\* That is so when the row is not live and nobody sends.
LEMMA CalmRow ==
    ASSUME Sound, ~row.live, \A c \in Callers : ~InFlight(c)
    PROVE  Calm
  BY DEF Sound, Followed, Busy, Calm, InFlight, Visible

\* What a message that begins leaves as it was.
LEMMA BeginKeeps ==
    ASSUME Sound, Calm, NEW c \in Callers, NEW queued \in BOOLEAN, Begin(c, queued),
           past'.told = past.told, past'.sent = past.sent,
           past'.prompts \in Nat, past.prompts <= past'.prompts,
           past.sent + 1 <= past'.prompts, cache' => past.sent + 2 <= past'.prompts,
           view'.mounted = view.mounted, view'.number = view.number
    PROVE  /\ send' \in [Callers -> Sends]
           /\ Numbered' /\ Staged' /\ Printed' /\ Owned' /\ Alone' /\ Followed'
  <1>1. Typed /\ Numbered /\ Staged /\ Printed /\ Owned /\ Alone /\ Followed
    BY DEF Sound
  <1> DEFINE r == [NoSend EXCEPT !.at = "begun", !.queued = queued]
  <1>2. r \in Sends /\ r.at = "begun" /\ r.proc = 0
    BY DEF NoSend, Sends, Stages
  <1>3. send' = [send EXCEPT ![c] = r]
    BY DEF Begin
  <1> HIDE DEF r
  <1>e. /\ UNCHANGED <<provider, handle, cancel, proc, row, wire>>
        /\ send' \in [Callers -> Sends]
        /\ send'[c].at = "begun" /\ send'[c].proc = 0
        /\ \A d \in Callers \ {c} : send'[d] = send[d] /\ send[d].at = "none"
    BY <1>1, <1>2, <1>3, OneCaller DEF Begin, Calm, InFlight
  <1>20. Numbered'
    BY <1>1, <1>e, Parts, Bounds DEF Numbered, Waiting, NoProc
  <1>21. Staged'
    BY <1>1, <1>e, Parts, Bounds DEF Staged, InFlight, Waiting, Started, OpenCode
  <1>22. Printed'
    BY <1>1, <1>e, Parts, Bounds DEF Printed, Claude
  <1>23. Owned'
    BY <1>1, <1>e, Parts, Bounds DEF Owned, Owner, OpenCode, Claude, StoppedFirst,
       Calm, InFlight
  <1>24. Alone'
    <2>1. \A q \in Procs : Working(q)' <=> Working(q)
      BY <1>e DEF Working
    <2>2. Claude \/ OpenCode
      BY <1>1 DEF Typed, Claude, OpenCode
    <2>3. \A d \in Callers : ~(InFlight(d)' /\ (OpenCode => send'[d].at # "begun"))
             \/ Claude
      BY <1>e, <2>2 DEF InFlight
    <2>4. \A q \in Procs : Working(q) => handle.transport = q
      BY <1>1 DEF Alone, Calm, Started, InFlight
    <2>5. Claude => \A q \in Procs : ~Working(q)
      BY DEF Calm
    <2> QED
      BY <1>e, <2>1, <2>3, <2>4, <2>5 DEF Alone, OpenCode
  <1>25. Followed'
    BY <1>1, <1>e, Parts, Bounds DEF Followed, Busy, Claude, Working, Visible,
       FailureDue,
       InFlight, Calm
  <1> QED
    BY <1>e, <1>20, <1>21, <1>22, <1>23, <1>24, <1>25

(***************************************************************************)
(* Each action keeps the invariant.                                        *)
(***************************************************************************)

\* The grace of a completed turn ends: the turn is over.
LEMMA GraceEndsKeeps ==
    ASSUME Sound, Tidy, Tidy', GraceEnds
    PROVE  Sound'
  <1>1. Typed /\ Numbered /\ Staged /\ Printed /\ Owned /\ Alone /\ Followed
    BY DEF Sound
  <1>e. /\ UNCHANGED <<provider, handle, send, cancel, proc>>
        /\ UNCHANGED <<view, cache, past>>
        /\ row.grace
    BY <1>1, Parts DEF GraceEnds
  <1>t. Typed'
    BY <1>1 DEF GraceEnds, Typed, Rows
  <1>20. Numbered'
    BY <1>1, <1>e, Parts, Bounds DEF Numbered, Waiting, NoProc
  <1>21. Staged'
    BY <1>1, <1>e, Parts, Bounds DEF Staged, InFlight, Waiting, Started, OpenCode
  <1>22. Printed'
    BY <1>1, <1>e, Parts, Bounds DEF Printed, Claude
  <1>23. Owned'
    BY <1>1, <1>e, Parts, Bounds DEF Owned, Owner, OpenCode, Claude, StoppedFirst
  <1>24. Alone'
    BY <1>1, <1>e, Parts, Bounds DEF Alone, InFlight, OpenCode, Working, Started
  <1>25. Followed'
    BY <1>1, <1>e, Parts, Bounds DEF Followed, Busy, Claude, Working, Visible,
       FailureDue, InFlight
  <1> QED
    BY <1>t, <1>20, <1>21, <1>22, <1>23, <1>24, <1>25 DEF Sound

\* An event reaches the view.
LEMMA DeliverKeeps ==
    ASSUME Sound, Tidy, Tidy', Deliver
    PROVE  Sound'
  <1>1. Typed /\ Numbered /\ Staged /\ Printed /\ Owned /\ Alone /\ Followed
    BY DEF Sound
  <1>e. /\ UNCHANGED <<provider, handle, send, cancel, proc>>
        /\ UNCHANGED <<row, cache, past>>
        /\ view'.mounted = view.mounted /\ view'.number = view.number
    BY <1>1, Parts DEF Deliver, Typed, Views
  <1>t. Typed'
    <2>1. wire' \in Seq({"run", "stop"})
      BY <1>1 DEF Deliver, Typed
    <2>2. view' \in Views
      BY <1>1 DEF Deliver, Typed, Views
    <2> QED
      BY <1>1, <1>e, <2>1, <2>2 DEF Deliver, Typed
  <1>20. Numbered'
    BY <1>1, <1>e, Parts, Bounds DEF Numbered, Waiting, NoProc
  <1>21. Staged'
    BY <1>1, <1>e, Parts, Bounds DEF Staged, InFlight, Waiting, Started, OpenCode
  <1>22. Printed'
    BY <1>1, <1>e, Parts, Bounds DEF Printed, Claude
  <1>23. Owned'
    BY <1>1, <1>e, Parts, Bounds DEF Owned, Owner, OpenCode, Claude, StoppedFirst
  <1>24. Alone'
    BY <1>1, <1>e, Parts, Bounds DEF Alone, InFlight, OpenCode, Working, Started
  <1>25. Followed'
    BY <1>1, <1>e, Parts, Bounds DEF Followed, Busy, Claude, Working, Visible,
       FailureDue, InFlight
  <1> QED
    BY <1>t, <1>20, <1>21, <1>22, <1>23, <1>24, <1>25 DEF Sound

\* The list of the sessions is read again.
LEMMA RefreshRowKeeps ==
    ASSUME Sound, Tidy, Tidy', RefreshRow
    PROVE  Sound'
  <1>1. Typed /\ Numbered /\ Staged /\ Printed /\ Owned /\ Alone /\ Followed
    BY DEF Sound
  <1>e. /\ UNCHANGED <<provider, handle, send, cancel, proc>>
        /\ UNCHANGED <<row, wire, cache, past>>
        /\ view'.mounted = view.mounted /\ view'.number = view.number
    BY <1>1, Parts DEF RefreshRow, Typed, Views
  <1>t. Typed'
    <2>1. view' \in Views
      BY <1>1, Parts DEF RefreshRow, Typed, Views
    <2> QED
      BY <1>1, <1>e, <2>1 DEF Typed
  <1>20. Numbered'
    BY <1>1, <1>e, Parts, Bounds DEF Numbered, Waiting, NoProc
  <1>21. Staged'
    BY <1>1, <1>e, Parts, Bounds DEF Staged, InFlight, Waiting, Started, OpenCode
  <1>22. Printed'
    BY <1>1, <1>e, Parts, Bounds DEF Printed, Claude
  <1>23. Owned'
    BY <1>1, <1>e, Parts, Bounds DEF Owned, Owner, OpenCode, Claude, StoppedFirst
  <1>24. Alone'
    BY <1>1, <1>e, Parts, Bounds DEF Alone, InFlight, OpenCode, Working, Started
  <1>25. Followed'
    BY <1>1, <1>e, Parts, Bounds DEF Followed, Busy, Claude, Working, Visible,
       FailureDue, InFlight
  <1> QED
    BY <1>t, <1>20, <1>21, <1>22, <1>23, <1>24, <1>25 DEF Sound

\* A message is queued.
LEMMA QueueKeeps ==
    ASSUME Sound, Tidy, Tidy', Queue
    PROVE  Sound'
  <1>1. Typed /\ Numbered /\ Staged /\ Printed /\ Owned /\ Alone /\ Followed
    BY DEF Sound
  <1>e. /\ UNCHANGED <<provider, handle, send, cancel, proc>>
        /\ UNCHANGED <<row, wire>>
        /\ past'.told = past.told /\ past'.sent = past.sent
        /\ past'.prompts = past.prompts + 1 /\ past.prompts < MaxPrompts
        /\ view'.mounted = view.mounted /\ view'.number = view.number
    BY <1>1, Parts DEF Queue, Typed, Views, Pasts
  <1>t. Typed'
    <2>1. view' \in Views /\ cache' = TRUE
      BY <1>1 DEF Queue, Typed, Views
    <2>2. past.prompts + 1 \in 0..MaxPrompts
      BY <1>e, Parts, Bounds, <1>1
    <2>3. past' \in Pasts
      BY <1>1, <2>2 DEF Queue, Typed, Pasts
    <2> QED
      BY <1>1, <1>e, <2>1, <2>3 DEF Typed
  <1>20. Numbered'
    BY <1>1, <1>e, Parts, Bounds DEF Numbered, Waiting, NoProc
  <1>21. Staged'
    BY <1>1, <1>e, Parts, Bounds DEF Staged, InFlight, Waiting, Started, OpenCode
  <1>22. Printed'
    BY <1>1, <1>e, Parts, Bounds DEF Printed, Claude
  <1>23. Owned'
    BY <1>1, <1>e, Parts, Bounds DEF Owned, Owner, OpenCode, Claude, StoppedFirst
  <1>24. Alone'
    BY <1>1, <1>e, Parts, Bounds DEF Alone, InFlight, OpenCode, Working, Started
  <1>25. Followed'
    BY <1>1, <1>e, Parts, Bounds DEF Followed, Busy, Claude, Working, Visible,
       FailureDue, InFlight
  <1> QED
    BY <1>t, <1>20, <1>21, <1>22, <1>23, <1>24, <1>25 DEF Sound

\* The queued message is dropped.
LEMMA DropQueuedKeeps ==
    ASSUME Sound, Tidy, Tidy', DropQueued
    PROVE  Sound'
  <1>1. Typed /\ Numbered /\ Staged /\ Printed /\ Owned /\ Alone /\ Followed
    BY DEF Sound
  <1>e. /\ UNCHANGED <<provider, handle, send, cancel, proc>>
        /\ UNCHANGED <<row, wire>>
        /\ ~cache'
        /\ past'.told = past.told /\ past'.sent = past.sent
        /\ past'.prompts = past.prompts
        /\ view'.mounted = view.mounted /\ view'.number = view.number
    BY <1>1, Parts DEF DropQueued, Typed, Views, Pasts
  <1>t. Typed'
    <2>1. view' \in Views /\ cache' = FALSE
      BY <1>1 DEF DropQueued, Typed, Views
    <2>2. past' \in Pasts
      BY <1>1 DEF DropQueued, Typed, Pasts
    <2> QED
      BY <1>1, <1>e, <2>1, <2>2 DEF Typed
  <1>20. Numbered'
    BY <1>1, <1>e, Parts, Bounds DEF Numbered, Waiting, NoProc
  <1>21. Staged'
    BY <1>1, <1>e, Parts, Bounds DEF Staged, InFlight, Waiting, Started, OpenCode
  <1>22. Printed'
    BY <1>1, <1>e, Parts, Bounds DEF Printed, Claude
  <1>23. Owned'
    BY <1>1, <1>e, Parts, Bounds DEF Owned, Owner, OpenCode, Claude, StoppedFirst
  <1>24. Alone'
    BY <1>1, <1>e, Parts, Bounds DEF Alone, InFlight, OpenCode, Working, Started
  <1>25. Followed'
    BY <1>1, <1>e, Parts, Bounds DEF Followed, Busy, Claude, Working, Visible,
       FailureDue, InFlight
  <1> QED
    BY <1>t, <1>20, <1>21, <1>22, <1>23, <1>24, <1>25 DEF Sound

\* The page is left.
LEMMA LeaveKeeps ==
    ASSUME Sound, Tidy, Tidy', Leave
    PROVE  Sound'
  <1>1. Typed /\ Numbered /\ Staged /\ Printed /\ Owned /\ Alone /\ Followed
    BY DEF Sound
  <1>e. /\ UNCHANGED <<provider, handle, send, cancel, proc>>
        /\ UNCHANGED <<row, cache, past>>
        /\ view'.number = view.number /\ view.number < MaxViews
    BY <1>1, Parts DEF Leave, Typed, Views
  <1>t. Typed'
    <2>1. view' \in Views
      BY <1>1 DEF Leave, Typed, Views
    <2>2. wire' \in Seq({"run", "stop"})
      BY DEF Leave
    <2> QED
      BY <1>1, <1>e, <2>1, <2>2 DEF Typed
  <1>20. Numbered'
    BY <1>1, <1>e, Parts, Bounds DEF Numbered, Waiting, NoProc
  <1>21. Staged'
    BY <1>1, <1>e, Parts, Bounds DEF Staged, InFlight, Waiting, Started, OpenCode
  <1>22. Printed'
    BY <1>1, <1>e, Parts, Bounds DEF Printed, Claude
  <1>23. Owned'
    BY <1>1, <1>e, Parts, Bounds DEF Owned, Owner, OpenCode, Claude, StoppedFirst
  <1>24. Alone'
    BY <1>1, <1>e, Parts, Bounds DEF Alone, InFlight, OpenCode, Working, Started
  <1>25. Followed'
    BY <1>1, <1>e, Parts, Bounds DEF Followed, Busy, Claude, Working, Visible,
       FailureDue, InFlight
  <1> QED
    BY <1>t, <1>20, <1>21, <1>22, <1>23, <1>24, <1>25 DEF Sound

\* The page is opened again, with a composer of its own.
LEMMA EnterKeeps ==
    ASSUME Sound, Tidy, Tidy', Enter
    PROVE  Sound'
  <1>1. Typed /\ Numbered /\ Staged /\ Printed /\ Owned /\ Alone /\ Followed
    BY DEF Sound
  <1>e. /\ UNCHANGED <<provider, handle, send, cancel, proc>>
        /\ UNCHANGED <<row, wire, cache, past>>
        /\ view'.mounted /\ ~view.mounted
    BY <1>1, Parts DEF Enter
  <1>t. Typed'
    <2>1. view.number \in 1..MaxViews /\ view.number + 1 \in 1..MaxViews
      BY <1>1, <1>e, Bounds DEF Typed, Views, Numbered
    <2>2. view' \in Views
      BY <1>1, <2>1, Parts DEF Enter, Typed, Views
    <2> QED
      BY <1>1, <1>e, <2>2 DEF Typed
  <1>20. Numbered'
    BY <1>1, <1>e, Parts, Bounds DEF Numbered, Waiting, NoProc
  <1>21. Staged'
    BY <1>1, <1>e, Parts, Bounds DEF Staged, InFlight, Waiting, Started, OpenCode
  <1>22. Printed'
    BY <1>1, <1>e, Parts, Bounds DEF Printed, Claude
  <1>23. Owned'
    BY <1>1, <1>e, Parts, Bounds DEF Owned, Owner, OpenCode, Claude, StoppedFirst
  <1>24. Alone'
    BY <1>1, <1>e, Parts, Bounds DEF Alone, InFlight, OpenCode, Working, Started
  <1>25. Followed'
    BY <1>1, <1>e, Parts, Bounds DEF Followed, Busy, Claude, Working, Visible,
       FailureDue, InFlight
  <1> QED
    BY <1>t, <1>20, <1>21, <1>22, <1>23, <1>24, <1>25 DEF Sound

\* The user stops the turn that is under way.
LEMMA StopKeeps ==
    ASSUME Sound, Tidy, Tidy', Stop
    PROVE  Sound'
  <1>1. Typed /\ Numbered /\ Staged /\ Printed /\ Owned /\ Alone /\ Followed
    BY DEF Sound
  <1>e. /\ UNCHANGED <<provider, handle, send, proc, row, wire, view, cache>>
        /\ past'.told = past.told /\ past'.sent = past.sent
        /\ past'.prompts = past.prompts
        /\ cancel.at = "none" /\ cancel'.at = "read" /\ cancel'.killed = 0
        /\ cancel'.turn = IF Claude THEN handle.current ELSE 0
    BY <1>1 DEF Stop, NoCancel, Typed, Pasts, Cancels
  <1>t. Typed'
    <2>1. cancel' \in Cancels
      BY <1>1, Parts DEF Stop, NoCancel, Cancels
    <2>2. past.cancels + 1 \in 0..MaxCancels
      BY <1>1, Bounds DEF Stop, Typed, Pasts
    <2>3. past' \in Pasts
      BY <1>1, <2>2 DEF Stop, Typed, Pasts
    <2> QED
      BY <1>1, <1>e, <2>1, <2>3 DEF Typed
  <1>20. Numbered'
    BY <1>1, <1>e, Parts, Bounds DEF Numbered, Waiting, NoProc
  <1>21. Staged'
    BY <1>1, <1>e, Parts, Bounds DEF Staged, InFlight, Waiting, Started, OpenCode
  <1>22. Printed'
    BY <1>1, <1>e, Parts, Bounds DEF Printed, Claude
  <1>23. Owned'
    BY <1>1, <1>e, Parts, Bounds DEF Owned, Owner, OpenCode, Claude, StoppedFirst
  <1>24. Alone'
    BY <1>1, <1>e, Parts, Bounds DEF Alone, InFlight, OpenCode, Working, Started
  <1>25. Followed'
    BY <1>1, <1>e, Parts, Bounds DEF Followed, Busy, Claude, Working, Visible,
       FailureDue, InFlight
  <1> QED
    BY <1>t, <1>20, <1>21, <1>22, <1>23, <1>24, <1>25 DEF Sound

\* A completion sends a prompt.
LEMMA InjectKeeps ==
    ASSUME Sound, Tidy, Tidy', Inject
    PROVE  Sound'
  <1>1. Typed /\ Numbered /\ Staged /\ Printed /\ Owned /\ Alone /\ Followed
    BY DEF Sound
  <1>2. past.odd = {} /\ past'.odd = {} /\ past.odd \in SUBSET Deviations
    BY <1>1, Parts DEF Tidy
  <1>3. past'.odd = past.odd \cup Odd("overlap", UnderWay \/
                                       \E c \in Callers : InFlight(c))
    BY <1>1 DEF Inject, Typed, Pasts
  <1>4. ~UnderWay /\ \A c \in Callers : ~InFlight(c)
    BY <1>2, <1>3 DEF Odd
  <1>5. Calm
    BY <1>4, CalmRow DEF UnderWay
  <1>6. /\ past'.told = past.told /\ past'.sent = past.sent
        /\ past'.prompts = past.prompts + 1 /\ past.prompts < MaxPrompts
        /\ UNCHANGED <<view, cache>>
        /\ Begin(0, FALSE)
    BY <1>1 DEF Inject, Typed, Pasts
  <1>11. 0 \in Callers
    BY Bounds DEF Callers
  <1>7. past.prompts + 1 \in Nat /\ past.prompts + 1 \in 0..MaxPrompts
    BY <1>1, <1>6, Parts, Bounds
  <1>8. /\ past.sent + 1 <= past'.prompts
        /\ cache' => past.sent + 2 <= past'.prompts
        /\ past.prompts <= past'.prompts /\ past'.prompts \in Nat
    BY <1>1, <1>6, <1>7, Parts, Bounds DEF Numbered
  <1>9. /\ send' \in [Callers -> Sends]
        /\ Numbered' /\ Staged' /\ Printed' /\ Owned' /\ Alone' /\ Followed'
    BY <1>5, <1>6, <1>8, <1>11, BeginKeeps
  <1>10. past' \in Pasts
    BY <1>1, <1>7 DEF Inject, Typed, Pasts, Odd, Deviations
  <1>t. Typed'
    BY <1>1, <1>6, <1>9, <1>10 DEF Begin, Typed
  <1> QED
    BY <1>9, <1>t DEF Sound

\* The user sends a message.
LEMMA SubmitKeeps ==
    ASSUME Sound, Tidy, Tidy', Submit
    PROVE  Sound'
  <1>1. Typed /\ Numbered /\ Staged /\ Printed /\ Owned /\ Alone /\ Followed
    BY DEF Sound
  <1>2. past.odd = {} /\ past'.odd = {} /\ past.odd \in SUBSET Deviations
    BY <1>1, Parts DEF Tidy
  <1>3. past'.odd = past.odd \cup Risks
    BY <1>1 DEF Submit, Typed, Pasts
  <1>4. Risks = {}
    BY <1>2, <1>3
  <1>5. /\ ~InFlight(0) /\ ~Behind
        /\ \A c \in Callers \ {0, view.number} : ~InFlight(c)
    BY <1>4 DEF Risks, Odd
  <1>6. ~InFlight(view.number) /\ ~view.row
    BY DEF Submit, Locked, Effective
  <1>7. ~row.live /\ \A c \in Callers : ~InFlight(c)
    BY <1>5, <1>6 DEF Behind
  <1>8. Calm
    BY <1>7, CalmRow
  <1>9. /\ past'.told = past.told /\ past'.sent = past.sent
        /\ past'.prompts = past.prompts + 1 /\ past.prompts < MaxPrompts
        /\ UNCHANGED cache
        /\ view'.mounted = view.mounted /\ view'.number = view.number
        /\ Begin(view.number, FALSE) /\ view.number \in Callers
    BY <1>1, Parts DEF Submit, Typed, Pasts, Views
  <1>10. past'.prompts \in Nat /\ past'.prompts \in 0..MaxPrompts
    BY <1>1, <1>9, Parts, Bounds
  <1>11. /\ past.sent + 1 <= past'.prompts
         /\ cache' => past.sent + 2 <= past'.prompts
         /\ past.prompts <= past'.prompts
    BY <1>1, <1>9, <1>10, Parts, Bounds DEF Numbered
  <1>12. /\ send' \in [Callers -> Sends]
         /\ Numbered' /\ Staged' /\ Printed' /\ Owned' /\ Alone' /\ Followed'
    BY <1>8, <1>9, <1>10, <1>11, BeginKeeps
  <1>13. Risks \in SUBSET Deviations
    BY <1>4
  <1>14. past' \in Pasts
    BY <1>1, <1>9, <1>10, <1>13 DEF Submit, Typed, Pasts
  <1>15. view' \in Views /\ cache' \in BOOLEAN
    BY <1>1 DEF Submit, Typed, Views
  <1>t. Typed'
    BY <1>1, <1>12, <1>14, <1>15 DEF Submit, Begin, Typed
  <1> QED
    BY <1>12, <1>t DEF Sound

\* The queued message is sent.
LEMMA SendQueuedKeeps ==
    ASSUME Sound, Tidy, Tidy', SendQueued
    PROVE  Sound'
  <1>1. Typed /\ Numbered /\ Staged /\ Printed /\ Owned /\ Alone /\ Followed
    BY DEF Sound
  <1>2. past.odd = {} /\ past'.odd = {} /\ past.odd \in SUBSET Deviations
    BY <1>1, Parts DEF Tidy
  <1>3. past'.odd = past.odd \cup Risks
    BY <1>1 DEF SendQueued, Typed, Pasts
  <1>4. Risks = {}
    BY <1>2, <1>3
  <1>5. /\ ~InFlight(0) /\ ~Behind
        /\ \A c \in Callers \ {0, view.number} : ~InFlight(c)
    BY <1>4 DEF Risks, Odd
  <1>6. ~InFlight(view.number) /\ ~view.row
    BY DEF SendQueued, Locked, Effective
  <1>7. ~row.live /\ \A c \in Callers : ~InFlight(c)
    BY <1>5, <1>6 DEF Behind
  <1>8. Calm
    BY <1>7, CalmRow
  <1>9. /\ past'.told = past.told /\ past'.sent = past.sent
        /\ past'.prompts = past.prompts /\ cache /\ ~cache'
        /\ view'.mounted = view.mounted /\ view'.number = view.number
        /\ Begin(view.number, TRUE) /\ view.number \in Callers
    BY <1>1, Parts DEF SendQueued, Typed, Pasts, Views
  <1>10. past'.prompts \in Nat /\ past'.prompts \in 0..MaxPrompts
    BY <1>1, <1>9, Parts, Bounds
  <1>11. /\ past.sent + 1 <= past'.prompts
         /\ cache' => past.sent + 2 <= past'.prompts
         /\ past.prompts <= past'.prompts
    BY <1>1, <1>9, <1>10, Parts, Bounds DEF Numbered
  <1>12. /\ send' \in [Callers -> Sends]
         /\ Numbered' /\ Staged' /\ Printed' /\ Owned' /\ Alone' /\ Followed'
    BY <1>8, <1>9, <1>10, <1>11, BeginKeeps
  <1>13. Risks \in SUBSET Deviations
    BY <1>4
  <1>14. past' \in Pasts
    BY <1>1, <1>9, <1>10, <1>13 DEF SendQueued, Typed, Pasts
  <1>15. view' \in Views /\ cache' \in BOOLEAN
    BY <1>1 DEF SendQueued, Typed, Views
  <1>t. Typed'
    BY <1>1, <1>12, <1>14, <1>15 DEF SendQueued, Begin, Typed
  <1> QED
    BY <1>12, <1>t DEF Sound

\* An earlier process is shut before the next is started.
LEMMA ShutEarlierKeeps ==
    ASSUME Sound, Tidy, Tidy', NEW c \in Callers, ShutEarlier(c)
    PROVE  Sound'
  <1>1. Typed /\ Numbered /\ Staged /\ Printed /\ Owned /\ Alone /\ Followed
    BY DEF Sound
  <1>2. past.odd = {} /\ past'.odd = {} /\ past.odd \in SUBSET Deviations
    BY <1>1, Parts DEF Tidy
  <1> DEFINE r == [send[c] EXCEPT !.at = "cleared"]
  <1>3. /\ send[c] \in Sends
        /\ send[c].at = "begun" /\ OpenCode
    BY <1>1, Parts DEF ShutEarlier
  <1>4. r \in Sends /\ r.at = "cleared" /\ r.proc = send[c].proc
    BY <1>3 DEF Sends, Stages
  <1>5. send' = [send EXCEPT ![c] = r]
    BY <1>1, <1>3 DEF ShutEarlier, Typed
  <1> HIDE DEF r
  <1>6. /\ send' \in [Callers -> Sends] /\ send'[c] = r
        /\ \A d \in Callers \ {c} : send'[d] = send[d]
    BY <1>1, <1>4, <1>5, OneCaller
  <1>7. past'.odd = past.odd \cup Odd("cut", handle.transport \notin past.told \cup {0})
    BY <1>1 DEF ShutEarlier, Typed, Pasts
  <1>8. handle.transport \in past.told \cup {0}
    BY <1>2, <1>7 DEF Odd
  <1>9. proc' = Shut(handle.transport) /\ handle.transport \in {0} \cup Procs
    BY <1>1, Parts DEF ShutEarlier
  <1>10. /\ proc' \in [Procs -> Processes]
         /\ \A q \in Procs \ {handle.transport} : proc'[q] = proc[q]
         /\ \A q \in Procs : q = handle.transport =>
                /\ proc'[q].life = "exited"
                /\ proc'[q].closed = IF proc[q].closed = "no" THEN "client"
                                                           ELSE proc[q].closed
                /\ proc'[q].out = proc[q].out /\ proc'[q].done = proc[q].done
                /\ proc'[q].listens = proc[q].listens
                /\ proc'[q].reads = proc[q].reads /\ proc'[q].exit = proc[q].exit
    BY <1>1, <1>9, ShutEffect
  <1>e. /\ UNCHANGED <<provider, cancel, row, wire, view, cache>>
        /\ handle'.current = handle.current /\ handle'.finalized = handle.finalized
        /\ handle'.transport = 0
        /\ past'.told = past.told /\ past'.sent = past.sent
        /\ past'.prompts = past.prompts
        /\ send[c].at = "begun" /\ OpenCode
        /\ send'[c].at = "cleared" /\ send'[c].proc = send[c].proc
        /\ \A d \in Callers \ {c} : send'[d] = send[d]
    BY <1>1, <1>3, <1>4, <1>6 DEF ShutEarlier, Typed, Pasts, Handles
  <1>t. Typed'
    <2>1. handle' \in Handles
      BY <1>1 DEF ShutEarlier, Typed, Handles
    <2>2. past' \in Pasts
      BY <1>1, <1>7, <1>8 DEF ShutEarlier, Typed, Pasts, Odd
    <2> QED
      BY <1>1, <1>2, <1>6, <1>10, <2>1, <2>2 DEF ShutEarlier, Typed
  <1>20. Numbered'
    BY <1>1, <1>8, <1>10, <1>e, Parts, Bounds DEF Numbered, Waiting, NoProc
  <1>21. Staged'
    BY <1>1, <1>8, <1>10, <1>e, Parts, Bounds DEF Staged, InFlight, Waiting,
       Started, OpenCode
  <1>22. Printed'
    BY <1>1, <1>8, <1>10, <1>e, Parts, Bounds DEF Printed, Claude
  <1>23. Owned'
    BY <1>1, <1>8, <1>10, <1>e, Parts, Bounds DEF Owned, Owner, OpenCode, Claude,
       StoppedFirst
  <1>24. Alone'
    <2>1. \A d \in Callers : ~Started(d)
      BY <1>1, <1>e DEF Staged, InFlight, Started
    <2>2. \A q \in Procs : Working(q) => q = handle.transport
      BY <1>1, <2>1 DEF Alone
    <2>3. \A q \in Procs : ~Working(q)'
      BY <1>10, <2>2 DEF Working
    <2> QED
      BY <2>3 DEF Alone
  <1>25. Followed'
    BY <1>1, <1>8, <1>10, <1>e, Parts, Bounds DEF Followed, Busy, Claude, Working,
       Visible, FailureDue, InFlight
  <1> QED
    BY <1>t, <1>20, <1>21, <1>22, <1>23, <1>24, <1>25 DEF Sound

\* The process of a message cannot be started.
LEMMA SpawnFailsKeeps ==
    ASSUME Sound, Tidy, Tidy', NEW c \in Callers, SpawnFails(c)
    PROVE  Sound'
  <1>1. Typed /\ Numbered /\ Staged /\ Printed /\ Owned /\ Alone /\ Followed
    BY DEF Sound
  <1>2. past.odd = {} /\ past'.odd = {} /\ past.odd \in SUBSET Deviations
    BY <1>1, Parts DEF Tidy
  <1> DEFINE r == NoSend
  <1>3. /\ send[c] \in Sends
        /\ TRUE
    BY <1>1, Parts DEF SpawnFails, ReadyToSpawn
  <1>4. r \in Sends /\ r.at = "none" /\ r.proc = 0
    BY DEF NoSend, Sends, Stages
  <1>5. send' = [send EXCEPT ![c] = r]
    BY <1>1, <1>3 DEF SpawnFails, Typed
  <1> HIDE DEF r
  <1>6. /\ send' \in [Callers -> Sends] /\ send'[c] = r
        /\ \A d \in Callers \ {c} : send'[d] = send[d]
    BY <1>1, <1>4, <1>5, OneCaller
  <1>e. /\ UNCHANGED <<provider, handle, cancel, proc, row, wire, view, cache, past>>
        /\ send[c].at \in {"begun", "cleared"} /\ send'[c].at = "none"
        /\ \A d \in Callers \ {c} : send'[d] = send[d]
    BY <1>1, <1>4, <1>6 DEF SpawnFails, ReadyToSpawn
  <1>t. Typed'
    <2> QED
      BY <1>1, <1>6, <1>e DEF SpawnFails, Typed
  <1>20. Numbered'
    BY <1>1, <1>e, Parts, Bounds DEF Numbered, Waiting, NoProc
  <1>21. Staged'
    BY <1>1, <1>e, Parts, Bounds DEF Staged, InFlight, Waiting, Started, OpenCode
  <1>22. Printed'
    BY <1>1, <1>e, Parts, Bounds DEF Printed, Claude
  <1>23. Owned'
    BY <1>1, <1>e, Parts, Bounds DEF Owned, Owner, OpenCode, Claude, StoppedFirst
  <1>24. Alone'
    BY <1>1, <1>e, Parts, Bounds DEF Alone, InFlight, OpenCode, Working, Started
  <1>25. Followed'
    BY <1>1, <1>e, Parts, Bounds DEF Followed, Busy, Claude, Working, Visible,
       FailureDue, InFlight
  <1> QED
    BY <1>t, <1>20, <1>21, <1>22, <1>23, <1>24, <1>25 DEF Sound

\* The process of a message is started.
LEMMA SpawnKeeps ==
    ASSUME Sound, Tidy, Tidy', NEW c \in Callers, Spawn(c)
    PROVE  Sound'
  <1>1. Typed /\ Numbered /\ Staged /\ Printed /\ Owned /\ Alone /\ Followed
    BY DEF Sound
  <1>2. past.odd = {} /\ past'.odd = {} /\ past.odd \in SUBSET Deviations
    BY <1>1, Parts DEF Tidy
  <1> DEFINE r == [send[c] EXCEPT !.at = "spawned", !.proc = past.sent + 1]
  <1>3. /\ send[c] \in Sends
        /\ Waiting(c)
        /\ Claude => send[c].at = "begun"
        /\ OpenCode => send[c].at = "cleared"
    BY <1>1, Parts DEF Spawn, ReadyToSpawn, Waiting, Claude, OpenCode, Typed
  <1>7. past.sent + 1 \in Procs
    BY <1>1, <1>3, Parts, Bounds DEF Numbered
  <1>4. r \in Sends /\ r.at = "spawned" /\ r.proc = past.sent + 1
    BY <1>3, <1>7 DEF Sends, Stages
  <1>5. send' = [send EXCEPT ![c] = r]
    BY <1>1, <1>3 DEF Spawn, Typed
  <1> HIDE DEF r
  <1>6. /\ send' \in [Callers -> Sends] /\ send'[c] = r
        /\ \A d \in Callers \ {c} : send'[d] = send[d]
    BY <1>1, <1>4, <1>5, OneCaller
  <1>8. /\ proc[past.sent + 1] = NoProc /\ NoProc \in Processes
    <2>1. <<>> \in Seq(Lines)
      OBVIOUS
    <2>2. past.sent + 1 > past.sent
      BY <1>1, Parts
    <2> QED
      BY <1>1, <1>7, <2>1, <2>2 DEF Numbered, NoProc, Processes
  <1> DEFINE new == [NoProc EXCEPT !.life = "alive", !.reads = TRUE]
  <1>9. /\ new \in Processes
        /\ new.life = "alive" /\ new.reads /\ ~new.listens /\ new.out = <<>>
        /\ new.closed = "no" /\ new.exit = "none" /\ ~new.done
    BY <1>8 DEF NoProc, Processes
  <1>10. proc' = [proc EXCEPT ![past.sent + 1] = new]
    BY <1>1, <1>7, <1>8 DEF Spawn, Typed
  <1> HIDE DEF new
  <1>11. /\ proc' \in [Procs -> Processes] /\ proc'[past.sent + 1] = new
         /\ \A q \in Procs \ {past.sent + 1} : proc'[q] = proc[q]
    BY <1>1, <1>7, <1>9, <1>10, OneProcess
  <1>e. /\ UNCHANGED <<provider, handle, cancel, row, wire, view, cache>>
        /\ past'.told = past.told /\ past'.sent = past.sent + 1
        /\ past'.prompts = past.prompts
        /\ send'[c].at = "spawned" /\ send'[c].proc = past.sent + 1
        /\ \A d \in Callers \ {c} : send'[d] = send[d]
    BY <1>1, <1>4, <1>6 DEF Spawn, Typed, Pasts
  <1>t. Typed'
    <2>1. past' \in Pasts
      BY <1>1, <1>7 DEF Spawn, Typed, Pasts
    <2> QED
      BY <1>1, <1>2, <1>6, <1>11, <2>1 DEF Spawn, Typed
  <1>20. Numbered'
    <2>1. \A p \in Procs : p # past.sent + 1 => proc'[p] = proc[p]
      BY <1>11
    <2>3. past.sent \in Nat /\ past.prompts \in Nat /\ Procs \subseteq Nat
      BY <1>1, Parts, Bounds
    <2>2. \A p \in Procs : p > past.sent + 1 => p > past.sent /\ p # past.sent + 1
      BY <2>3
    <2>4. \A p \in Procs : ~(p > past.sent + 1) /\ p # past.sent + 1 => ~(p > past.sent)
      BY <2>3
    <2>5. \A p \in Procs : IF p > past'.sent THEN proc'[p] = NoProc
                                                ELSE proc'[p].life # "none"
      BY <1>1, <1>9, <1>11, <1>e, <2>1, <2>2, <2>4 DEF Numbered
    <2>6. \A p \in {handle'.current, handle'.transport, cancel'.turn, cancel'.killed} :
              p <= past'.sent
      BY <1>1, <1>e, Parts DEF Numbered
    <2>7. /\ past.sent + 1 <= past.prompts
          /\ cache => past.sent + 2 <= past.prompts
          /\ \A d \in Callers : ~Waiting(d)'
      BY <1>1, <1>3, <1>e, Parts DEF Numbered, Staged, InFlight, Waiting
    <2>10. cache => past.sent + 2 <= past.prompts
      BY <2>7
    <2>8. cache => past.sent + 1 + 1 <= past.prompts
      BY <2>3, <2>10
    <2>9. /\ past'.sent <= past'.prompts
          /\ cache' => past'.sent + 1 <= past'.prompts
          /\ ~view'.mounted => view'.number < MaxViews
      BY <1>1, <1>e, <2>7, <2>8 DEF Numbered
    <2> QED
      BY <2>5, <2>6, <2>7, <2>9 DEF Numbered, Waiting
  <1>21. Staged'
    BY <1>1, <1>3, <1>7, <1>8, <1>9, <1>11, <1>e, Parts, Bounds DEF Staged,
       InFlight, Waiting, Started, OpenCode
  <1>22. Printed'
    BY <1>1, <1>3, <1>7, <1>8, <1>9, <1>11, <1>e, Parts, Bounds DEF Printed, Claude
  <1>23. Owned'
    <2>1. \A d \in Callers : send[d].at # "spawned"
      BY <1>1, <1>3 DEF Staged, InFlight, Waiting
    <2>2. \A p \in Procs : p <= past.sent + 1 /\ p # past.sent + 1 => p <= past.sent
      BY <1>1, Parts, Bounds
    <2>3. /\ handle.current # past.sent + 1 /\ cancel.killed # past.sent + 1
          /\ cancel.turn # past.sent + 1
      BY <1>1, Parts DEF Numbered
    <2>4. ASSUME NEW p \in Procs, p # past.sent + 1  PROVE Owner(p)'
      BY <1>1, <1>11, <1>e, <2>1, <2>2, <2>4 DEF Owned, Owner, StoppedFirst, Claude
    <2>5. ASSUME NEW p \in Procs, p = past.sent + 1  PROVE Owner(p)'
      BY <1>9, <1>11, <1>e, <2>3, <2>5 DEF Owner, StoppedFirst
    <2> QED
      BY <1>1, <1>7, <1>e, <2>4, <2>5 DEF Owned, OpenCode
  <1>24. Alone'
    <2>1. \A d \in Callers \ {c} : ~InFlight(d) /\ ~InFlight(d)'
      BY <1>1, <1>3, <1>e DEF Staged, InFlight, Waiting
    <2>2. \A p \in Procs : ~Working(p)
      BY <1>1, <1>3, Bounds, Parts DEF Alone, Staged, InFlight, Waiting, Claude,
         OpenCode, Typed
    <2>3. \A p \in Procs : Working(p)' => p = past.sent + 1
      BY <1>11, <2>2 DEF Working
    <2>4. Started(c)' /\ InFlight(c)'
      BY <1>e DEF Started, InFlight
    <2> QED
      BY <1>e, <2>1, <2>3, <2>4 DEF Alone
  <1>25. Followed'
    <2>1. \A d \in Callers : send[d].at \notin {"spawned", "reset", "heard"}
      BY <1>1, <1>3 DEF Staged, InFlight, Waiting
    <2>2. \A p \in Procs : ~Working(p)
      BY <1>1, <1>3, Bounds, Parts DEF Alone, Staged, InFlight, Waiting, Claude,
         OpenCode, Typed
    <2>3. /\ handle.current # past.sent + 1 /\ cancel.killed # past.sent + 1
          /\ cancel.turn # past.sent + 1
      BY <1>1, Parts DEF Numbered
    <2>4. ~Visible(handle.current) /\ \A p \in Procs : ~Visible(p)
      BY <1>3, <2>1 DEF Visible, InFlight, Waiting
    <2>5. Claude => /\ handle.finalized
                    /\ \A p \in Procs : ~FailureDue(p)
      BY <1>1, <2>1, <2>4 DEF Followed
    <2>6. \A p \in Procs : Working(p)' => p = past.sent + 1
      BY <1>11, <2>2 DEF Working
    <2>7. Claude' => /\ handle'.finalized
                     /\ \A p \in Procs : ~FailureDue(p)'
      BY <1>9, <1>11, <1>e, <2>5 DEF FailureDue, Claude
    <2>8. \A p \in Procs : cancel'.killed = p => proc'[p].life = "exited"
      BY <1>1, <1>11, <1>e, <2>3 DEF Followed
    <2>9. \A p \in Procs : Busy(p)'
      BY <1>e, <2>6 DEF Busy
    <2> QED
      BY <1>e, <2>3, <2>6, <2>7, <2>8, <2>9 DEF Followed
  <1> QED
    BY <1>t, <1>20, <1>21, <1>22, <1>23, <1>24, <1>25 DEF Sound

\* The turn of a message is made the current one.
LEMMA ResetKeeps ==
    ASSUME Sound, Tidy, Tidy', NEW c \in Callers, Reset(c)
    PROVE  Sound'
  <1>1. Typed /\ Numbered /\ Staged /\ Printed /\ Owned /\ Alone /\ Followed
    BY DEF Sound
  <1>2. past.odd = {} /\ past'.odd = {} /\ past.odd \in SUBSET Deviations
    BY <1>1, Parts DEF Tidy
  <1> DEFINE r == [send[c] EXCEPT !.at = "reset"]
  <1>3. /\ send[c] \in Sends
        /\ send[c].at = "spawned"
    BY <1>1, Parts DEF Reset
  <1>4. r \in Sends /\ r.at = "reset" /\ r.proc = send[c].proc
    BY <1>3 DEF Sends, Stages
  <1>5. send' = [send EXCEPT ![c] = r]
    BY <1>1, <1>3 DEF Reset, Typed
  <1> HIDE DEF r
  <1>6. /\ send' \in [Callers -> Sends] /\ send'[c] = r
        /\ \A d \in Callers \ {c} : send'[d] = send[d]
    BY <1>1, <1>4, <1>5, OneCaller
  <1>7. past'.odd = past.odd \cup Odd("crossed", ~handle.finalized)
    BY <1>1 DEF Reset, Typed, Pasts
  <1>8. handle.finalized
    BY <1>2, <1>7 DEF Odd
  <1>9. send[c].proc = past.sent /\ past.sent \in Procs
    BY <1>1, <1>3, Parts DEF Staged, Started
  <1>e. /\ UNCHANGED <<provider, cancel, proc, row, wire, view, cache>>
        /\ handle'.current = past.sent /\ ~handle'.finalized
        /\ handle'.transport = handle.transport
        /\ past'.told = past.told /\ past'.sent = past.sent
        /\ past'.prompts = past.prompts
        /\ send[c].at = "spawned"
        /\ send'[c].at = "reset" /\ send'[c].proc = past.sent
        /\ \A d \in Callers \ {c} : send'[d] = send[d]
    BY <1>1, <1>3, <1>4, <1>6, <1>9 DEF Reset, Typed, Pasts, Handles
  <1>t. Typed'
    <2>1. handle' \in Handles
      BY <1>1, <1>9 DEF Reset, Typed, Handles
    <2>2. past' \in Pasts
      BY <1>1, <1>7, <1>8 DEF Reset, Typed, Pasts, Odd
    <2> QED
      BY <1>1, <1>2, <1>6, <2>1, <2>2 DEF Reset, Typed
  <1>20. Numbered'
    BY <1>1, <1>8, <1>9, <1>e, Parts, Bounds DEF Numbered, Waiting, NoProc
  <1>21. Staged'
    BY <1>1, <1>8, <1>9, <1>e, Parts, Bounds DEF Staged, InFlight, Waiting, Started,
       OpenCode
  <1>22. Printed'
    BY <1>1, <1>8, <1>9, <1>e, Parts, Bounds DEF Printed, Claude
  <1>23. Owned'
    <2>1. proc[past.sent].exit = "none" /\ past.sent # 0
      BY <1>1, <1>e, <1>9, Bounds DEF Staged
    <2>2. ASSUME NEW p \in Procs  PROVE Owner(p)'
      <3>1. Owner(p)
        BY <1>1 DEF Owned
      <3>2. CASE p = past.sent
        BY <1>e, <2>1, <3>1, <3>2 DEF Owner, StoppedFirst, Claude
      <3>3. CASE p # past.sent
        BY <1>8, <1>e, <3>1, <3>3 DEF Owner, StoppedFirst, Claude
      <3> QED
        BY <3>2, <3>3
    <2> QED
      BY <1>1, <1>e, <2>1, <2>2 DEF Owned, OpenCode
  <1>24. Alone'
    <2>1. \A d \in Callers :
              /\ send'[d].proc = send[d].proc
              /\ (InFlight(d)' <=> InFlight(d)) /\ (Started(d)' <=> Started(d))
              /\ send'[d].at = "begun" <=> send[d].at = "begun"
      BY <1>e, <1>3, <1>9 DEF InFlight, Started
    <2>2. \A q \in Procs : Working(q)' <=> Working(q)
      BY <1>e DEF Working
    <2>3. OpenCode' <=> OpenCode
      BY <1>e DEF OpenCode
    <2> QED
      BY <1>1, <1>e, <2>1, <2>2, <2>3 DEF Alone
  <1>25. Followed'
    BY <1>1, <1>8, <1>9, <1>e, Parts, Bounds DEF Followed, Busy, Claude, Working,
       Visible, FailureDue, InFlight
  <1> QED
    BY <1>t, <1>20, <1>21, <1>22, <1>23, <1>24, <1>25 DEF Sound

\* The turn is announced, and its output heard.
LEMMA ListenKeeps ==
    ASSUME Sound, Tidy, Tidy', NEW c \in Callers, Listen(c)
    PROVE  Sound'
  <1>1. Typed /\ Numbered /\ Staged /\ Printed /\ Owned /\ Alone /\ Followed
    BY DEF Sound
  <1>2. past.odd = {} /\ past'.odd = {} /\ past.odd \in SUBSET Deviations
    BY <1>1, Parts DEF Tidy
  <1> DEFINE r == [send[c] EXCEPT !.at = "heard"]
  <1>3. /\ send[c] \in Sends
        /\ send[c].at = "reset"
    BY <1>1, Parts DEF Listen
  <1>4. r \in Sends /\ r.at = "heard" /\ r.proc = send[c].proc
    BY <1>3 DEF Sends, Stages
  <1>5. send' = [send EXCEPT ![c] = r]
    BY <1>1, <1>3 DEF Listen, Typed
  <1> HIDE DEF r
  <1>6. /\ send' \in [Callers -> Sends] /\ send'[c] = r
        /\ \A d \in Callers \ {c} : send'[d] = send[d]
    BY <1>1, <1>4, <1>5, OneCaller
  <1>7. send[c].proc = past.sent /\ past.sent \in Procs
    BY <1>1, <1>3, Parts DEF Staged, Started
  <1>8. past'.odd = past.odd \cup Odd("missed", ~proc[past.sent].reads)
    BY <1>1, <1>7 DEF Listen, Typed, Pasts
  <1>9. proc[past.sent].reads
    BY <1>2, <1>8 DEF Odd
  <1> DEFINE new == [proc[past.sent] EXCEPT !.listens = TRUE, !.exit = "waits"]
  <1>10. /\ new \in Processes
         /\ new.life = proc[past.sent].life /\ new.reads = proc[past.sent].reads
         /\ new.out = proc[past.sent].out /\ new.closed = proc[past.sent].closed
         /\ new.done = proc[past.sent].done
         /\ new.listens /\ new.exit = "waits"
    <2>1. proc[past.sent] \in Processes
      BY <1>1, <1>7, Parts
    <2> QED
      BY <2>1 DEF Processes
  <1>11. proc' = [proc EXCEPT ![past.sent] = new]
    BY <1>1, <1>7 DEF Listen, Typed
  <1> HIDE DEF new
  <1>12. /\ proc' \in [Procs -> Processes] /\ proc'[past.sent] = new
         /\ \A q \in Procs \ {past.sent} : proc'[q] = proc[q]
    BY <1>1, <1>7, <1>10, <1>11, OneProcess
  <1>e. /\ UNCHANGED <<provider, handle, cancel, view, cache>>
        /\ past'.told = past.told /\ past'.sent = past.sent
        /\ past'.prompts = past.prompts
        /\ Claude => row'.live /\ ~row'.grace
        /\ send[c].at = "reset"
        /\ send'[c].at = "heard" /\ send'[c].proc = past.sent
        /\ \A d \in Callers \ {c} : send'[d] = send[d]
    BY <1>1, <1>3, <1>4, <1>6, <1>7 DEF Listen, Typed, Pasts, TurnStarted, Emits
  <1>t. Typed'
    <2>1. row' \in Rows /\ wire' \in Seq({"run", "stop"})
      <3>1. CASE Claude
        <4>1. [live |-> TRUE, grace |-> FALSE] \in Rows
          BY DEF Rows
        <4>2. /\ wire \in Seq({"run", "stop"})
              /\ Append(wire, "run") \in Seq({"run", "stop"})
          BY <1>1 DEF Typed
        <4> QED
          BY <3>1, <4>1, <4>2 DEF Listen, TurnStarted, Emits
      <3>2. CASE ~Claude
        BY <1>1, <3>2 DEF Listen, Typed, Silently
      <3> QED
        BY <3>1, <3>2
    <2>2. past' \in Pasts
      BY <1>1, <1>8, <1>9 DEF Listen, Typed, Pasts, Odd
    <2> QED
      BY <1>1, <1>2, <1>6, <1>12, <2>1, <2>2 DEF Listen, Typed
  <1>20. Numbered'
    <2>1. proc[past.sent].life # "none" /\ ~(past.sent > past.sent)
      BY <1>1, <1>7, Parts DEF Numbered
    <2>2. ASSUME NEW q \in Procs
          PROVE  IF q > past'.sent THEN proc'[q] = NoProc ELSE proc'[q].life # "none"
      <3>1. CASE q = past.sent
        BY <1>10, <1>12, <1>e, <2>1, <3>1
      <3>2. CASE q # past.sent
        BY <1>1, <1>12, <1>e, <3>2 DEF Numbered
      <3> QED
        BY <3>1, <3>2
    <2>3. \A d \in Callers : Waiting(d)' => Waiting(d)
      BY <1>e DEF Waiting
    <2> QED
      BY <1>1, <1>e, <2>2, <2>3 DEF Numbered
  <1>21. Staged'
    BY <1>1, <1>7, <1>9, <1>10, <1>12, <1>e, Parts, Bounds DEF Staged, InFlight,
       Waiting, Started, OpenCode
  <1>22. Printed'
    BY <1>1, <1>7, <1>9, <1>10, <1>12, <1>e, Parts, Bounds DEF Printed, Claude
  <1>23. Owned'
    <2>1. \A d \in Callers : send[d].at # "spawned" /\ send'[d].at # "spawned"
      BY <1>1, <1>e DEF Staged, InFlight
    <2>2. proc[past.sent].exit = "none"
      BY <1>1, <1>e DEF Staged
    <2>3. ASSUME NEW p \in Procs  PROVE Owner(p)'
      <3>1. Owner(p)
        BY <1>1 DEF Owned
      <3>2. CASE p = past.sent
        BY <1>e, <1>10, <1>12, <2>1, <2>2, <3>1, <3>2 DEF Owner, StoppedFirst,
           Claude
      <3>3. CASE p # past.sent
        BY <1>e, <1>12, <2>1, <3>1, <3>3 DEF Owner, StoppedFirst, Claude
      <3> QED
        BY <3>2, <3>3
    <2> QED
      BY <1>1, <1>e, <2>3 DEF Owned, OpenCode
  <1>24. Alone'
    BY <1>1, <1>7, <1>9, <1>10, <1>12, <1>e, Parts, Bounds DEF Alone, InFlight,
       OpenCode, Working, Started
  <1>25. Followed'
    <2>1. \A d \in Callers \ {c} : ~InFlight(d) /\ ~InFlight(d)'
      BY <1>1, <1>e DEF Staged, InFlight
    <2>2. \A p \in Procs : Working(p)' => Working(p)
      BY <1>10, <1>12 DEF Working
    <2>3. \A p \in Procs : ~Visible(p)
      BY <1>e DEF Visible, InFlight
    <2>4. Claude => \A p \in Procs : ~FailureDue(p)
      BY <1>1, <2>3 DEF Followed
    <2>5. Claude' => \A p \in Procs : ~FailureDue(p)'
      BY <1>10, <1>12, <1>e, <2>4 DEF FailureDue, Claude
    <2>6. Claude' => Visible(past.sent)'
      BY <1>e, <2>1 DEF Visible, Claude
    <2>7. ~handle.finalized => handle.current = past.sent
      BY <1>1, <1>e DEF Staged, Owned
    <2>8. \A p \in Procs : cancel'.killed = p => proc'[p].life = "exited"
      BY <1>1, <1>10, <1>12, <1>e DEF Followed
    <2>9. Claude' => \A p \in Procs : Busy(p)'
      BY <1>1, <1>e, <2>1, <2>2 DEF Followed, Busy, Claude, InFlight
    <2>10. Claude' => \A p \in Procs :
               cancel'.at = "killed" /\ cancel'.turn = p => ~Working(p)'
      BY <1>1, <1>e, <2>2 DEF Followed, Claude
    <2> QED
      BY <1>e, <2>5, <2>6, <2>7, <2>8, <2>9, <2>10 DEF Followed
  <1> QED
    BY <1>t, <1>20, <1>21, <1>22, <1>23, <1>24, <1>25 DEF Sound

\* The process is stored, the call returns.
LEMMA StoreKeeps ==
    ASSUME Sound, Tidy, Tidy', NEW c \in Callers, Store(c)
    PROVE  Sound'
  <1>1. Typed /\ Numbered /\ Staged /\ Printed /\ Owned /\ Alone /\ Followed
    BY DEF Sound
  <1>2. past.odd = {} /\ past'.odd = {} /\ past.odd \in SUBSET Deviations
    BY <1>1, Parts DEF Tidy
  <1> DEFINE r == NoSend
  <1>3. /\ send[c] \in Sends
        /\ send[c].at = "heard"
    BY <1>1, Parts DEF Store
  <1>4. r \in Sends /\ r.at = "none" /\ r.proc = 0
    BY DEF NoSend, Sends, Stages
  <1>5. send' = [send EXCEPT ![c] = r]
    BY <1>1, <1>3 DEF Store, Typed
  <1> HIDE DEF r
  <1>6. /\ send' \in [Callers -> Sends] /\ send'[c] = r
        /\ \A d \in Callers \ {c} : send'[d] = send[d]
    BY <1>1, <1>4, <1>5, OneCaller
  <1>7. send[c].proc = past.sent /\ past.sent \in Procs
    BY <1>1, <1>3, Parts DEF Staged, Started
  <1>8. /\ past'.told = past.told /\ past'.sent = past.sent
        /\ past'.prompts = past.prompts /\ (cache' => cache) /\ cache' \in BOOLEAN
    BY <1>1 DEF Store, Typed, Pasts
  <1>e. /\ UNCHANGED <<provider, cancel, proc, row, wire, view>>
        /\ handle'.current = handle.current /\ handle'.finalized = handle.finalized
        /\ handle'.transport = past.sent
        /\ send[c].at = "heard" /\ send'[c].at = "none"
        /\ \A d \in Callers \ {c} : send'[d] = send[d]
    BY <1>1, <1>3, <1>4, <1>6, <1>7 DEF Store, Typed, Handles
  <1>t. Typed'
    <2>1. handle' \in Handles
      BY <1>1, <1>7 DEF Store, Typed, Handles
    <2>2. past' \in Pasts
      BY <1>1, <1>2 DEF Store, Typed, Pasts, Odd, Deviations
    <2> QED
      BY <1>1, <1>2, <1>6, <1>8, <2>1, <2>2 DEF Store, Typed
  <1>20. Numbered'
    BY <1>1, <1>3, <1>7, <1>8, <1>e, Parts, Bounds DEF Numbered, Waiting, NoProc
  <1>21. Staged'
    BY <1>1, <1>3, <1>7, <1>8, <1>e, Parts, Bounds DEF Staged, InFlight, Waiting,
       Started, OpenCode
  <1>22. Printed'
    BY <1>1, <1>3, <1>7, <1>8, <1>e, Parts, Bounds DEF Printed, Claude
  <1>23. Owned'
    <2>1. \A d \in Callers : send[d].at # "spawned" /\ send'[d].at # "spawned"
      BY <1>1, <1>e DEF Staged, InFlight
    <2>2. ASSUME NEW p \in Procs  PROVE Owner(p)'
      <3>1. Owner(p)
        BY <1>1 DEF Owned
      <3> QED
        BY <1>8, <1>e, <2>1, <3>1 DEF Owner, StoppedFirst, Claude
    <2> QED
      BY <1>1, <1>e, <2>2 DEF Owned, OpenCode
  <1>24. Alone'
    <2>1. \A d \in Callers : ~InFlight(d)'
      BY <1>1, <1>e DEF Staged, InFlight
    <2>2. \A q \in Procs : Working(q) => q = past.sent
      BY <1>1, <1>7, <1>e DEF Alone, InFlight
    <2>3. \A q \in Procs : Working(q)' => q = handle'.transport
      BY <1>e, <2>2 DEF Working
    <2> QED
      BY <2>1, <2>3 DEF Alone
  <1>25. Followed'
    BY <1>1, <1>3, <1>7, <1>8, <1>e, Parts, Bounds DEF Followed, Busy, Claude,
       Working, Visible, FailureDue, InFlight
  <1> QED
    BY <1>t, <1>20, <1>21, <1>22, <1>23, <1>24, <1>25 DEF Sound

\* A process dies.
LEMMA ExitKeeps ==
    ASSUME Sound, Tidy, Tidy', NEW p \in Procs, Exit(p)
    PROVE  Sound'
  <1>1. Typed /\ Numbered /\ Staged /\ Printed /\ Owned /\ Alone /\ Followed
    BY DEF Sound
  <1>2. past.odd = {} /\ past'.odd = {} /\ past.odd \in SUBSET Deviations
    BY <1>1, Parts DEF Tidy
  <1> DEFINE new == [proc[p] EXCEPT !.life = "exited"]
  <1>3. proc[p] \in Processes /\ proc[p].life = "alive"
    BY <1>1, Parts DEF Exit
  <1>4. /\ new \in Processes
        /\ new.life = "exited" /\ new.reads = proc[p].reads
        /\ new.listens = proc[p].listens /\ new.exit = proc[p].exit
        /\ new.out = proc[p].out /\ new.closed = proc[p].closed
        /\ new.done = proc[p].done
    BY <1>3 DEF Processes
  <1>5. proc' = [proc EXCEPT ![p] = new]
    BY <1>1 DEF Exit, Typed
  <1> HIDE DEF new
  <1>6. /\ proc' \in [Procs -> Processes] /\ proc'[p] = new
        /\ \A q \in Procs \ {p} : proc'[q] = proc[q]
    BY <1>1, <1>4, <1>5, OneProcess
  <1>7. p <= past.sent
    BY <1>1, <1>3, StartedNumber
  <1>e. UNCHANGED <<provider, handle, send, cancel, row, wire, view, cache, past>>
    BY DEF Exit
  <1>p. /\ proc[p].life = "alive" /\ p <= past.sent
        /\ proc'[p].life = "exited" /\ proc'[p].reads = proc[p].reads
        /\ proc'[p].listens = proc[p].listens /\ proc'[p].exit = proc[p].exit
        /\ proc'[p].out = proc[p].out /\ proc'[p].closed = proc[p].closed
        /\ proc'[p].done = proc[p].done
        /\ \A q \in Procs \ {p} : proc'[q] = proc[q]
    BY <1>3, <1>4, <1>6, <1>7
  <1>t. Typed'
    BY <1>1, <1>6, <1>e DEF Typed
  <1>20. Numbered'
    BY <1>1, <1>p, <1>e, Parts, Bounds DEF Numbered, Waiting, NoProc
  <1>21. Staged'
    BY <1>1, <1>p, <1>e, Parts, Bounds DEF Staged, InFlight, Waiting, Started,
       OpenCode
  <1>22. Printed'
    BY <1>1, <1>p, <1>e, Parts, Bounds DEF Printed, Claude
  <1>23. Owned'
    BY <1>1, <1>p, <1>e, Parts, Bounds DEF Owned, Owner, OpenCode, Claude,
       StoppedFirst
  <1>24. Alone'
    BY <1>1, <1>p, <1>e, Parts, Bounds DEF Alone, InFlight, OpenCode, Working,
       Started
  <1>25. Followed'
    BY <1>1, <1>p, <1>e, Parts, Bounds DEF Followed, Busy, Claude, Working, Visible,
       FailureDue, InFlight
  <1> QED
    BY <1>t, <1>20, <1>21, <1>22, <1>23, <1>24, <1>25 DEF Sound

\* A process prints a line.
LEMMA PrintLineKeeps ==
    ASSUME Sound, Tidy, Tidy', NEW p \in Procs, NEW line \in Lines,
           NEW done \in BOOLEAN, NEW step \in BOOLEAN,
           Claude => line \in {"text", "ok", "error"}, line \in {"ok", "error"} => done,
           line = "start" => past.steps < MaxSteps,
           PrintLine(p, line, done, step)
    PROVE  Sound'
  <1>1. Typed /\ Numbered /\ Staged /\ Printed /\ Owned /\ Alone /\ Followed
    BY DEF Sound
  <1>2. past.odd = {} /\ past'.odd = {} /\ past.odd \in SUBSET Deviations
    BY <1>1, Parts DEF Tidy
  <1> DEFINE new == [proc[p] EXCEPT !.out = Append(@, line), !.done = done,
                                    !.step = step]
  <1>3. /\ proc[p] \in Processes /\ proc[p].life = "alive" /\ ~proc[p].done
        /\ proc[p].out \in Seq(Lines)
    BY <1>1, Parts DEF PrintLine, Working, Processes
  <1>4. /\ Append(proc[p].out, line) \in Seq(Lines)
        /\ \A i \in DOMAIN Append(proc[p].out, line) :
               \/ Append(proc[p].out, line)[i] = line
               \/ /\ i \in DOMAIN proc[p].out
                  /\ Append(proc[p].out, line)[i] = proc[p].out[i]
    BY <1>3
  <1>5. /\ new \in Processes
        /\ new.life = "alive" /\ new.reads = proc[p].reads
        /\ new.listens = proc[p].listens /\ new.exit = proc[p].exit
        /\ new.out = Append(proc[p].out, line) /\ new.closed = proc[p].closed
        /\ new.done = done
    BY <1>3, <1>4 DEF Processes
  <1>6. proc' = [proc EXCEPT ![p] = new]
    BY <1>1 DEF PrintLine, Typed
  <1> HIDE DEF new
  <1>7. /\ proc' \in [Procs -> Processes] /\ proc'[p] = new
        /\ \A q \in Procs \ {p} : proc'[q] = proc[q]
    BY <1>1, <1>5, <1>6, OneProcess
  <1>8. p <= past.sent
    BY <1>1, <1>3, StartedNumber
  <1>e. /\ UNCHANGED <<provider, handle, send, cancel, row, wire, view, cache>>
        /\ past'.told = past.told /\ past'.sent = past.sent
        /\ past'.prompts = past.prompts
    BY <1>1 DEF PrintLine, Typed, Pasts
  <1>p. /\ Working(p) /\ p <= past.sent
        /\ proc[p].life = "alive" /\ proc'[p].life = "alive"
        /\ proc'[p].reads = proc[p].reads
        /\ proc'[p].listens = proc[p].listens /\ proc'[p].exit = proc[p].exit
        /\ proc'[p].closed = proc[p].closed
        /\ proc'[p].done = done
        /\ \A i \in DOMAIN proc'[p].out :
               \/ proc'[p].out[i] = line
               \/ i \in DOMAIN proc[p].out /\ proc'[p].out[i] = proc[p].out[i]
        /\ \A q \in Procs \ {p} : proc'[q] = proc[q]
    BY <1>3, <1>4, <1>5, <1>7, <1>8 DEF Working
  <1>t. Typed'
    <2>1. line = "start" => past.steps + 1 \in 0..MaxSteps
      BY <1>1, Bounds DEF Typed, Pasts
    <2>2. past' \in Pasts
      BY <1>1, <2>1 DEF PrintLine, Typed, Pasts
    <2> QED
      BY <1>1, <1>7, <1>e, <2>2 DEF Typed
  <1>20. Numbered'
    BY <1>1, <1>p, <1>e, Parts, Bounds DEF Numbered, Waiting, NoProc
  <1>21. Staged'
    BY <1>1, <1>p, <1>e, Parts, Bounds DEF Staged, InFlight, Waiting, Started,
       OpenCode
  <1>22. Printed'
    <2>1. ASSUME NEW i \in DOMAIN proc'[p].out
          PROVE  /\ proc'[p].out[i] \in {"ok", "error"} => done
                 /\ Claude => proc'[p].out[i] \in {"text", "ok", "error"}
      <3>1. CASE proc'[p].out[i] = line
        BY <3>1
      <3>2. CASE i \in DOMAIN proc[p].out /\ proc'[p].out[i] = proc[p].out[i]
        BY <1>1, <1>p, <3>2 DEF Printed, Working
      <3> QED
        BY <1>p, <3>1, <3>2
    <2>2. proc[p].exit \notin {"told", "fails", "over"}
      BY <1>1, <1>p DEF Printed
    <2> QED
      BY <1>1, <1>p, <1>e, <2>1, <2>2 DEF Printed, Claude
  <1>23. Owned'
    BY <1>1, <1>p, <1>e, Parts, Bounds DEF Owned, Owner, OpenCode, Claude,
       StoppedFirst
  <1>24. Alone'
    BY <1>1, <1>p, <1>e, Parts, Bounds DEF Alone, InFlight, OpenCode, Working,
       Started
  <1>25. Followed'
    BY <1>1, <1>p, <1>e, Parts, Bounds DEF Followed, Busy, Claude, Working, Visible,
       FailureDue, InFlight
  <1> QED
    BY <1>t, <1>20, <1>21, <1>22, <1>23, <1>24, <1>25 DEF Sound

\* A line is dropped before there is a handler.
LEMMA DropsKeeps ==
    ASSUME Sound, Tidy, Tidy', NEW p \in Procs, Drops(p)
    PROVE  Sound'
  <1>1. Typed /\ Numbered /\ Staged /\ Printed /\ Owned /\ Alone /\ Followed
    BY DEF Sound
  <1>2. past.odd = {} /\ past'.odd = {} /\ past.odd \in SUBSET Deviations
    BY <1>1, Parts DEF Tidy
  <1>3. PICK line \in Lines : Reads(p, line)
    BY DEF Drops
  <1>p. /\ proc' \in [Procs -> Processes]
        /\ \A q \in Procs \ {p} : proc'[q] = proc[q]
        /\ proc'[p].life = proc[p].life /\ proc'[p].done = proc[p].done
        /\ proc'[p].closed = proc[p].closed /\ proc'[p].reads = proc[p].reads
        /\ proc'[p].listens = proc[p].listens /\ proc'[p].exit = proc[p].exit
        /\ \A i \in DOMAIN proc'[p].out :
               \E j \in DOMAIN proc[p].out : proc'[p].out[i] = proc[p].out[j]
        /\ proc[p].reads
        /\ \E j \in DOMAIN proc[p].out : proc[p].out[j] = line
        /\ UNCHANGED <<provider, send, cancel, view, cache>>
    BY <1>1, <1>3, ReadsEffect DEF Lines
  <1>4. p <= past.sent
    BY <1>1, <1>p, StartedNumber
  <1>e. UNCHANGED <<handle, row, wire, past>>
    BY DEF Drops
  <1>t. Typed'
    BY <1>1, <1>p, <1>e DEF Typed
  <1>20. Numbered'
    BY <1>1, <1>p, <1>4, <1>e, Parts, Bounds DEF Numbered, Waiting, NoProc
  <1>21. Staged'
    BY <1>1, <1>p, <1>4, <1>e, Parts, Bounds DEF Staged, InFlight, Waiting, Started,
       OpenCode
  <1>22. Printed'
    BY <1>1, <1>p, <1>4, <1>e, Parts, Bounds DEF Printed, Claude
  <1>23. Owned'
    BY <1>1, <1>p, <1>4, <1>e, Parts, Bounds DEF Owned, Owner, OpenCode, Claude,
       StoppedFirst
  <1>24. Alone'
    BY <1>1, <1>p, <1>4, <1>e, Parts, Bounds DEF Alone, InFlight, OpenCode, Working,
       Started
  <1>25. Followed'
    BY <1>1, <1>p, <1>4, <1>e, Parts, Bounds DEF Followed, Busy, Claude, Working,
       Visible, FailureDue, InFlight
  <1> QED
    BY <1>t, <1>20, <1>21, <1>22, <1>23, <1>24, <1>25 DEF Sound

\* A text makes a row live that is not.
LEMMA ReadTextKeeps ==
    ASSUME Sound, Tidy, Tidy', NEW p \in Procs, ReadText(p)
    PROVE  Sound'
  <1>1. Typed /\ Numbered /\ Staged /\ Printed /\ Owned /\ Alone /\ Followed
    BY DEF Sound
  <1>2. past.odd = {} /\ past'.odd = {} /\ past.odd \in SUBSET Deviations
    BY <1>1, Parts DEF Tidy
  <1>3. PICK line \in {"text"} : Reads(p, line)
    BY DEF ReadText
  <1>p. /\ proc' \in [Procs -> Processes]
        /\ \A q \in Procs \ {p} : proc'[q] = proc[q]
        /\ proc'[p].life = proc[p].life /\ proc'[p].done = proc[p].done
        /\ proc'[p].closed = proc[p].closed /\ proc'[p].reads = proc[p].reads
        /\ proc'[p].listens = proc[p].listens /\ proc'[p].exit = proc[p].exit
        /\ \A i \in DOMAIN proc'[p].out :
               \E j \in DOMAIN proc[p].out : proc'[p].out[i] = proc[p].out[j]
        /\ proc[p].reads
        /\ \E j \in DOMAIN proc[p].out : proc[p].out[j] = line
        /\ UNCHANGED <<provider, send, cancel, view, cache>>
    BY <1>1, <1>3, ReadsEffect DEF Lines
  <1>4. p <= past.sent
    BY <1>1, <1>p, StartedNumber
  <1>e. /\ UNCHANGED <<handle, wire>>
        /\ past'.told = past.told /\ past'.sent = past.sent
        /\ past'.prompts = past.prompts
        /\ UNCHANGED row \/ (row'.live /\ ~row'.grace)
    BY <1>1 DEF ReadText, Revives, Typed, Pasts
  <1>t. Typed'
    <2>1. row' \in Rows
      <3>1. row \in Rows /\ [live |-> TRUE, grace |-> FALSE] \in Rows
        BY <1>1 DEF Typed, Rows
      <3> QED
        BY <3>1 DEF ReadText
    <2>2. past' \in Pasts
      BY <1>1 DEF ReadText, Revives, Odd, Deviations, Typed, Pasts
    <2> QED
      BY <1>1, <1>p, <1>e, <2>1, <2>2 DEF Typed
  <1>20. Numbered'
    BY <1>1, <1>p, <1>4, <1>e, Parts, Bounds DEF Numbered, Waiting, NoProc
  <1>21. Staged'
    BY <1>1, <1>p, <1>4, <1>e, Parts, Bounds DEF Staged, InFlight, Waiting, Started,
       OpenCode
  <1>22. Printed'
    BY <1>1, <1>p, <1>4, <1>e, Parts, Bounds DEF Printed, Claude
  <1>23. Owned'
    BY <1>1, <1>p, <1>4, <1>e, Parts, Bounds DEF Owned, Owner, OpenCode, Claude,
       StoppedFirst
  <1>24. Alone'
    BY <1>1, <1>p, <1>4, <1>e, Parts, Bounds DEF Alone, InFlight, OpenCode, Working,
       Started
  <1>25. Followed'
    BY <1>1, <1>p, <1>4, <1>e, Parts, Bounds DEF Followed, Busy, Claude, Working,
       Visible, FailureDue, InFlight
  <1> QED
    BY <1>t, <1>20, <1>21, <1>22, <1>23, <1>24, <1>25 DEF Sound

\* OpenCode announces the turn with its first step.
LEMMA ReadStartKeeps ==
    ASSUME Sound, Tidy, Tidy', NEW p \in Procs, ReadStart(p)
    PROVE  Sound'
  <1>1. Typed /\ Numbered /\ Staged /\ Printed /\ Owned /\ Alone /\ Followed
    BY DEF Sound
  <1>2. past.odd = {} /\ past'.odd = {} /\ past.odd \in SUBSET Deviations
    BY <1>1, Parts DEF Tidy
  <1>3. PICK line \in {"start"} : Reads(p, line)
    BY DEF ReadStart
  <1>p. /\ proc' \in [Procs -> Processes]
        /\ \A q \in Procs \ {p} : proc'[q] = proc[q]
        /\ proc'[p].life = proc[p].life /\ proc'[p].done = proc[p].done
        /\ proc'[p].closed = proc[p].closed /\ proc'[p].reads = proc[p].reads
        /\ proc'[p].listens = proc[p].listens /\ proc'[p].exit = proc[p].exit
        /\ \A i \in DOMAIN proc'[p].out :
               \E j \in DOMAIN proc[p].out : proc'[p].out[i] = proc[p].out[j]
        /\ proc[p].reads
        /\ \E j \in DOMAIN proc[p].out : proc[p].out[j] = line
        /\ UNCHANGED <<provider, send, cancel, view, cache>>
    BY <1>1, <1>3, ReadsEffect DEF Lines
  <1>4. p <= past.sent
    BY <1>1, <1>p, StartedNumber
  <1>e. /\ UNCHANGED handle
        /\ past'.told = past.told /\ past'.sent = past.sent
        /\ past'.prompts = past.prompts
        /\ row'.live /\ ~row'.grace
    BY <1>1 DEF ReadStart, Revives, Typed, Pasts, TurnStarted, Emits
  <1>t. Typed'
    <2>1. row' \in Rows /\ wire' \in Seq({"run", "stop"})
      BY <1>1 DEF ReadStart, Typed, Rows, TurnStarted, Emits
    <2>2. past' \in Pasts
      BY <1>1 DEF ReadStart, Revives, Odd, Deviations, Typed, Pasts
    <2> QED
      BY <1>1, <1>p, <1>e, <2>1, <2>2 DEF Typed
  <1>20. Numbered'
    BY <1>1, <1>p, <1>4, <1>e, Parts, Bounds DEF Numbered, Waiting, NoProc
  <1>21. Staged'
    BY <1>1, <1>p, <1>4, <1>e, Parts, Bounds DEF Staged, InFlight, Waiting, Started,
       OpenCode
  <1>22. Printed'
    BY <1>1, <1>p, <1>4, <1>e, Parts, Bounds DEF Printed, Claude
  <1>23. Owned'
    BY <1>1, <1>p, <1>4, <1>e, Parts, Bounds DEF Owned, Owner, OpenCode, Claude,
       StoppedFirst
  <1>24. Alone'
    BY <1>1, <1>p, <1>4, <1>e, Parts, Bounds DEF Alone, InFlight, OpenCode, Working,
       Started
  <1>25. Followed'
    BY <1>1, <1>p, <1>4, <1>e, Parts, Bounds DEF Followed, Busy, Claude, Working,
       Visible, FailureDue, InFlight
  <1> QED
    BY <1>t, <1>20, <1>21, <1>22, <1>23, <1>24, <1>25 DEF Sound

\* OpenCode ends a step.
LEMMA ReadFinishKeeps ==
    ASSUME Sound, Tidy, Tidy', NEW p \in Procs, ReadFinish(p)
    PROVE  Sound'
  <1>1. Typed /\ Numbered /\ Staged /\ Printed /\ Owned /\ Alone /\ Followed
    BY DEF Sound
  <1>2. past.odd = {} /\ past'.odd = {} /\ past.odd \in SUBSET Deviations
    BY <1>1, Parts DEF Tidy
  <1>3. PICK line \in {"finish"} : Reads(p, line)
    BY DEF ReadFinish
  <1>p. /\ proc' \in [Procs -> Processes]
        /\ \A q \in Procs \ {p} : proc'[q] = proc[q]
        /\ proc'[p].life = proc[p].life /\ proc'[p].done = proc[p].done
        /\ proc'[p].closed = proc[p].closed /\ proc'[p].reads = proc[p].reads
        /\ proc'[p].listens = proc[p].listens /\ proc'[p].exit = proc[p].exit
        /\ \A i \in DOMAIN proc'[p].out :
               \E j \in DOMAIN proc[p].out : proc'[p].out[i] = proc[p].out[j]
        /\ proc[p].reads
        /\ \E j \in DOMAIN proc[p].out : proc[p].out[j] = line
        /\ UNCHANGED <<provider, send, cancel, view, cache>>
    BY <1>1, <1>3, ReadsEffect DEF Lines
  <1>4. p <= past.sent
    BY <1>1, <1>p, StartedNumber
  <1>5. past'.odd = past.odd \cup Odd("crossed", Others(p) \/ FailureOwed({p}))
    BY <1>1 DEF ReadFinish, Tells, Typed, Pasts
  <1>6. handle.current \in {0, p} /\ \A q \in Procs \ {p} : proc[q].exit # "fails"
    BY <1>2, <1>5 DEF Odd, Others, FailureOwed
  <1>e. /\ handle'.finalized /\ handle'.transport = handle.transport
        /\ handle'.current = handle.current
        /\ past'.told = past.told \cup {p} /\ past'.sent = past.sent
        /\ past'.prompts = past.prompts
    BY <1>1 DEF ReadFinish, Tells, Typed, Pasts, Handles, TurnCompleted, Emits, Rows
  <1>t. Typed'
    <2>1. handle' \in Handles
      BY <1>1 DEF ReadFinish, Typed, Handles
    <2>2. row' \in Rows /\ wire' \in Seq({"run", "stop"})
      BY <1>1 DEF ReadFinish, Typed, Rows, TurnCompleted, Emits
    <2>3. past' \in Pasts
      BY <1>1, <1>2 DEF ReadFinish, Tells, Odd, Deviations, Typed, Pasts
    <2> QED
      BY <1>1, <1>p, <2>1, <2>2, <2>3 DEF Typed
  <1>20. Numbered'
    BY <1>1, <1>p, <1>4, <1>e, <1>6, Parts, Bounds DEF Numbered, Waiting, NoProc
  <1>21. Staged'
    BY <1>1, <1>p, <1>4, <1>e, <1>6, Parts, Bounds DEF Staged, InFlight, Waiting,
       Started, OpenCode
  <1>22. Printed'
    BY <1>1, <1>p, <1>4, <1>e, <1>6, Parts, Bounds DEF Printed, Claude
  <1>23. Owned'
    BY <1>1, <1>p, <1>4, <1>e, <1>6, Parts, Bounds DEF Owned, Owner, OpenCode,
       Claude, StoppedFirst
  <1>24. Alone'
    BY <1>1, <1>p, <1>4, <1>e, <1>6, Parts, Bounds DEF Alone, InFlight, OpenCode,
       Working, Started
  <1>25. Followed'
    <2>1. ~Claude
      BY <1>1, <1>p DEF Printed
    <2>2. ~Claude'
      BY <2>1, <1>p DEF Claude
    <2>3. \A q \in Procs : cancel'.killed = q => proc'[q].life = "exited"
      BY <1>1, <1>p DEF Followed
    <2> QED
      BY <2>2, <2>3 DEF Followed
  <1> QED
    BY <1>t, <1>20, <1>21, <1>22, <1>23, <1>24, <1>25 DEF Sound

\* Claude prints its result.
LEMMA ReadOkKeeps ==
    ASSUME Sound, Tidy, Tidy', NEW p \in Procs, ReadOk(p)
    PROVE  Sound'
  <1>1. Typed /\ Numbered /\ Staged /\ Printed /\ Owned /\ Alone /\ Followed
    BY DEF Sound
  <1>2. past.odd = {} /\ past'.odd = {} /\ past.odd \in SUBSET Deviations
    BY <1>1, Parts DEF Tidy
  <1>3. PICK line \in {"ok"} : Reads(p, line)
    BY DEF ReadOk
  <1>p. /\ proc' \in [Procs -> Processes]
        /\ \A q \in Procs \ {p} : proc'[q] = proc[q]
        /\ proc'[p].life = proc[p].life /\ proc'[p].done = proc[p].done
        /\ proc'[p].closed = proc[p].closed /\ proc'[p].reads = proc[p].reads
        /\ proc'[p].listens = proc[p].listens /\ proc'[p].exit = proc[p].exit
        /\ \A i \in DOMAIN proc'[p].out :
               \E j \in DOMAIN proc[p].out : proc'[p].out[i] = proc[p].out[j]
        /\ proc[p].reads
        /\ \E j \in DOMAIN proc[p].out : proc[p].out[j] = line
        /\ UNCHANGED <<provider, send, cancel, view, cache>>
    BY <1>1, <1>3, ReadsEffect DEF Lines
  <1>4. p <= past.sent
    BY <1>1, <1>p, StartedNumber
  <1>5. past'.odd = past.odd \cup Odd("crossed", Others(p) \/ FailureOwed({p}))
    BY <1>1 DEF ReadOk, Tells, Typed, Pasts
  <1>6. handle.current \in {0, p} /\ \A q \in Procs \ {p} : proc[q].exit # "fails"
    BY <1>2, <1>5 DEF Odd, Others, FailureOwed
  <1>e. /\ handle'.finalized /\ handle'.transport = handle.transport
        /\ handle'.current = 0
        /\ past'.told = past.told \cup {p} /\ past'.sent = past.sent
        /\ past'.prompts = past.prompts
    BY <1>1 DEF ReadOk, Tells, Typed, Pasts, Handles, TurnCompleted, Emits, Rows
  <1>t. Typed'
    <2>1. handle' \in Handles
      BY <1>1 DEF ReadOk, Typed, Handles
    <2>2. row' \in Rows /\ wire' \in Seq({"run", "stop"})
      BY <1>1 DEF ReadOk, Typed, Rows, TurnCompleted, Emits
    <2>3. past' \in Pasts
      BY <1>1, <1>2 DEF ReadOk, Tells, Odd, Deviations, Typed, Pasts
    <2> QED
      BY <1>1, <1>p, <2>1, <2>2, <2>3 DEF Typed
  <1>20. Numbered'
    BY <1>1, <1>p, <1>4, <1>e, <1>6, Parts, Bounds DEF Numbered, Waiting, NoProc
  <1>21. Staged'
    BY <1>1, <1>p, <1>4, <1>e, <1>6, Parts, Bounds DEF Staged, InFlight, Waiting,
       Started, OpenCode
  <1>22. Printed'
    BY <1>1, <1>p, <1>4, <1>e, <1>6, Parts, Bounds DEF Printed, Claude
  <1>23. Owned'
    BY <1>1, <1>p, <1>4, <1>e, <1>6, Parts, Bounds DEF Owned, Owner, OpenCode,
       Claude, StoppedFirst
  <1>24. Alone'
    BY <1>1, <1>p, <1>4, <1>e, <1>6, Parts, Bounds DEF Alone, InFlight, OpenCode,
       Working, Started
  <1>25. Followed'
    <2>1. Claude => proc[p].done
      BY <1>1, <1>p DEF Printed
    <2>2. \A q \in Procs : Working(q)' => Working(q)
      BY <1>p DEF Working
    <2>7. Claude => ~Working(p)
      BY <2>1 DEF Working
    <2>8. Claude => \A q \in Procs : Working(q) =>
              \E c \in Callers : send[c].at = "spawned" /\ q = past.sent
      BY <1>1, <1>6, <2>7, Bounds DEF Followed, Busy
    <2>3. Claude' => \A q \in Procs : Busy(q)'
      BY <1>p, <1>e, <2>2, <2>8 DEF Busy, Claude
    <2>4. \A q \in Procs : ~FailureDue(q)'
      BY <1>p, <1>e, <1>6 DEF FailureDue
    <2>5. \A q \in Procs : cancel'.killed = q => proc'[q].life = "exited"
      BY <1>1, <1>p DEF Followed
    <2>6. Claude' => \A q \in Procs :
              cancel'.at = "killed" /\ cancel'.turn = q => ~Working(q)'
      BY <1>1, <1>p, <2>2 DEF Followed, Claude
    <2> QED
      BY <1>e, <2>3, <2>4, <2>5, <2>6 DEF Followed
  <1> QED
    BY <1>t, <1>20, <1>21, <1>22, <1>23, <1>24, <1>25 DEF Sound

\* An error is printed.
LEMMA ReadErrorKeeps ==
    ASSUME Sound, Tidy, Tidy', NEW p \in Procs, ReadError(p)
    PROVE  Sound'
  <1>1. Typed /\ Numbered /\ Staged /\ Printed /\ Owned /\ Alone /\ Followed
    BY DEF Sound
  <1>2. past.odd = {} /\ past'.odd = {} /\ past.odd \in SUBSET Deviations
    BY <1>1, Parts DEF Tidy
  <1>3. PICK line \in {"error"} : Reads(p, line)
    BY DEF ReadError
  <1>p. /\ proc' \in [Procs -> Processes]
        /\ \A q \in Procs \ {p} : proc'[q] = proc[q]
        /\ proc'[p].life = proc[p].life /\ proc'[p].done = proc[p].done
        /\ proc'[p].closed = proc[p].closed /\ proc'[p].reads = proc[p].reads
        /\ proc'[p].listens = proc[p].listens /\ proc'[p].exit = proc[p].exit
        /\ \A i \in DOMAIN proc'[p].out :
               \E j \in DOMAIN proc[p].out : proc'[p].out[i] = proc[p].out[j]
        /\ proc[p].reads
        /\ \E j \in DOMAIN proc[p].out : proc[p].out[j] = line
        /\ UNCHANGED <<provider, send, cancel, view, cache>>
    BY <1>1, <1>3, ReadsEffect DEF Lines
  <1>4. p <= past.sent
    BY <1>1, <1>p, StartedNumber
  <1>5. past'.odd = past.odd \cup Odd("crossed", Others(p) \/ FailureOwed({p}))
    BY <1>1 DEF ReadError, Tells, Typed, Pasts
  <1>6. handle.current \in {0, p} /\ \A q \in Procs \ {p} : proc[q].exit # "fails"
    BY <1>2, <1>5 DEF Odd, Others, FailureOwed
  <1>e. /\ handle'.finalized /\ handle'.transport = handle.transport
        /\ handle'.current = IF Claude THEN 0 ELSE handle.current
        /\ past'.told = past.told \cup {p} /\ past'.sent = past.sent
        /\ past'.prompts = past.prompts
    BY <1>1 DEF ReadError, Tells, Typed, Pasts, Handles, TurnFailed, Emits, Rows
  <1>t. Typed'
    <2>1. handle' \in Handles
      BY <1>1 DEF ReadError, Typed, Handles
    <2>2. row' \in Rows /\ wire' \in Seq({"run", "stop"})
      BY <1>1 DEF ReadError, Typed, Rows, TurnFailed, Emits
    <2>3. past' \in Pasts
      BY <1>1, <1>2 DEF ReadError, Tells, Odd, Deviations, Typed, Pasts
    <2> QED
      BY <1>1, <1>p, <2>1, <2>2, <2>3 DEF Typed
  <1>20. Numbered'
    BY <1>1, <1>p, <1>4, <1>e, <1>6, Parts, Bounds DEF Numbered, Waiting, NoProc
  <1>21. Staged'
    BY <1>1, <1>p, <1>4, <1>e, <1>6, Parts, Bounds DEF Staged, InFlight, Waiting,
       Started, OpenCode
  <1>22. Printed'
    BY <1>1, <1>p, <1>4, <1>e, <1>6, Parts, Bounds DEF Printed, Claude
  <1>23. Owned'
    BY <1>1, <1>p, <1>4, <1>e, <1>6, Parts, Bounds DEF Owned, Owner, OpenCode,
       Claude, StoppedFirst
  <1>24. Alone'
    BY <1>1, <1>p, <1>4, <1>e, <1>6, Parts, Bounds DEF Alone, InFlight, OpenCode,
       Working, Started
  <1>25. Followed'
    <2>1. Claude => proc[p].done
      BY <1>1, <1>p DEF Printed
    <2>2. \A q \in Procs : Working(q)' => Working(q)
      BY <1>p DEF Working
    <2>7. Claude => ~Working(p)
      BY <2>1 DEF Working
    <2>8. Claude => \A q \in Procs : Working(q) =>
              \E c \in Callers : send[c].at = "spawned" /\ q = past.sent
      BY <1>1, <1>6, <2>7, Bounds DEF Followed, Busy
    <2>3. Claude' => \A q \in Procs : Busy(q)'
      BY <1>p, <1>e, <2>2, <2>8 DEF Busy, Claude
    <2>4. \A q \in Procs : ~FailureDue(q)'
      BY <1>p, <1>e, <1>6 DEF FailureDue
    <2>5. \A q \in Procs : cancel'.killed = q => proc'[q].life = "exited"
      BY <1>1, <1>p DEF Followed
    <2>6. Claude' => \A q \in Procs :
              cancel'.at = "killed" /\ cancel'.turn = q => ~Working(q)'
      BY <1>1, <1>p, <2>2 DEF Followed, Claude
    <2> QED
      BY <1>e, <2>3, <2>4, <2>5, <2>6 DEF Followed
  <1> QED
    BY <1>t, <1>20, <1>21, <1>22, <1>23, <1>24, <1>25 DEF Sound

\* The output of a process ends.
LEMMA ReadEndKeeps ==
    ASSUME Sound, Tidy, Tidy', NEW p \in Procs, ReadEnd(p)
    PROVE  Sound'
  <1>1. Typed /\ Numbered /\ Staged /\ Printed /\ Owned /\ Alone /\ Followed
    BY DEF Sound
  <1>2. past.odd = {} /\ past'.odd = {} /\ past.odd \in SUBSET Deviations
    BY <1>1, Parts DEF Tidy
  <1> DEFINE new == [proc[p] EXCEPT !.reads = FALSE,
                    !.closed = IF @ = "no" THEN "eof" ELSE @,
                    !.exit = IF @ = "waits" THEN "told" ELSE @]
  <1>3. proc[p] \in Processes
    BY <1>1, Parts
  <1>4. /\ new \in Processes
        /\ new.life = proc[p].life /\ new.done = proc[p].done
        /\ new.out = proc[p].out /\ new.listens = proc[p].listens
        /\ ~new.reads
        /\ new.closed = IF proc[p].closed = "no" THEN "eof" ELSE proc[p].closed
        /\ new.exit = IF proc[p].exit = "waits" THEN "told" ELSE proc[p].exit
    BY <1>3 DEF Processes
  <1>5. proc' = [proc EXCEPT ![p] = new]
    BY <1>1 DEF ReadEnd, Typed
  <1> HIDE DEF new
  <1>6. /\ proc' \in [Procs -> Processes] /\ proc'[p] = new
        /\ \A q \in Procs \ {p} : proc'[q] = proc[q]
    BY <1>1, <1>4, <1>5, OneProcess
  <1>p. /\ \A q \in Procs \ {p} : proc'[q] = proc[q]
        /\ proc'[p].life = proc[p].life /\ proc'[p].done = proc[p].done
        /\ proc'[p].out = proc[p].out /\ proc'[p].listens = proc[p].listens
        /\ ~proc'[p].reads
        /\ proc'[p].closed = IF proc[p].closed = "no" THEN "eof" ELSE proc[p].closed
        /\ proc'[p].exit = IF proc[p].exit = "waits" THEN "told" ELSE proc[p].exit
    BY <1>4, <1>6
  <1>7. /\ proc[p].reads /\ proc[p].life = "exited"
        /\ proc[p].out = <<>>
    BY DEF ReadEnd
  <1>8. p <= past.sent
    BY <1>1, <1>7, StartedNumber
  <1>e. UNCHANGED <<provider, handle, send, cancel, row, wire, view, cache, past>>
    BY DEF ReadEnd
  <1>t. Typed'
    BY <1>1, <1>6, <1>e DEF Typed
  <1>20. Numbered'
    BY <1>1, <1>p, <1>e, <1>7, <1>8, Parts, Bounds DEF Numbered, Waiting, NoProc
  <1>21. Staged'
    BY <1>1, <1>p, <1>e, <1>7, <1>8, Parts, Bounds DEF Staged, InFlight, Waiting,
       Started, OpenCode
  <1>22. Printed'
    BY <1>1, <1>p, <1>e, <1>7, <1>8, Parts, Bounds DEF Printed, Claude
  <1>23. Owned'
    BY <1>1, <1>p, <1>e, <1>7, <1>8, Parts, Bounds DEF Owned, Owner, OpenCode,
       Claude, StoppedFirst
  <1>24. Alone'
    BY <1>1, <1>p, <1>e, <1>7, <1>8, Parts, Bounds DEF Alone, InFlight, OpenCode,
       Working, Started
  <1>25. Followed'
    <2>1. \A q \in Procs : Working(q)' => Working(q)
      BY <1>p DEF Working
    <2>2. \A q \in Procs : FailureDue(q)' => FailureDue(q)
      BY <1>p, <1>e DEF FailureDue
    <2>3. \A q \in Procs : cancel'.killed = q => proc'[q].life = "exited"
      BY <1>1, <1>p, <1>e DEF Followed
    <2>4. Claude' => \A q \in Procs : Busy(q)'
      BY <1>1, <1>e, <2>1 DEF Followed, Busy, Claude
    <2>5. \A n : Visible(n)' <=> Visible(n)
      BY <1>e DEF Visible, InFlight
    <2>6. Claude' => /\ ~handle'.finalized =>
                          \/ \E c \in Callers : send'[c].at = "reset"
                          \/ Visible(handle.current)'
                     /\ \A q \in Procs : FailureDue(q)' =>
                           handle'.current = 0 /\ Visible(q)'
                     /\ \A q, s \in Procs : FailureDue(q)' /\ FailureDue(s)' => q = s
                     /\ \A q \in Procs : cancel'.at = "killed" /\ cancel'.turn = q =>
                           ~Working(q)'
      BY <1>1, <1>e, <2>1, <2>2, <2>5 DEF Followed, Claude
    <2> QED
      BY <2>3, <2>4, <2>6 DEF Followed
  <1> QED
    BY <1>t, <1>20, <1>21, <1>22, <1>23, <1>24, <1>25 DEF Sound

\* A failure is reported.
LEMMA ReportFailureKeeps ==
    ASSUME Sound, Tidy, Tidy', NEW p \in Procs, ReportFailure(p)
    PROVE  Sound'
  <1>1. Typed /\ Numbered /\ Staged /\ Printed /\ Owned /\ Alone /\ Followed
    BY DEF Sound
  <1>2. past.odd = {} /\ past'.odd = {} /\ past.odd \in SUBSET Deviations
    BY <1>1, Parts DEF Tidy
  <1> DEFINE new == [proc[p] EXCEPT !.exit = "over"]
  <1>3. proc[p] \in Processes
    BY <1>1, Parts
  <1>4. /\ new \in Processes
        /\ new.life = proc[p].life /\ new.done = proc[p].done
        /\ new.out = proc[p].out /\ new.listens = proc[p].listens
        /\ new.reads = proc[p].reads /\ new.closed = proc[p].closed
        /\ new.exit = "over"
    BY <1>3 DEF Processes
  <1>5. proc' = [proc EXCEPT ![p] = new]
    BY <1>1 DEF ReportFailure, Typed
  <1> HIDE DEF new
  <1>6. /\ proc' \in [Procs -> Processes] /\ proc'[p] = new
        /\ \A q \in Procs \ {p} : proc'[q] = proc[q]
    BY <1>1, <1>4, <1>5, OneProcess
  <1>p. /\ \A q \in Procs \ {p} : proc'[q] = proc[q]
        /\ proc'[p].life = proc[p].life /\ proc'[p].done = proc[p].done
        /\ proc'[p].out = proc[p].out /\ proc'[p].listens = proc[p].listens
        /\ proc'[p].reads = proc[p].reads /\ proc'[p].closed = proc[p].closed
        /\ proc'[p].exit = "over"
    BY <1>4, <1>6
  <1>7. proc[p].exit = "fails" /\ proc[p].life = "exited" /\ ~proc[p].reads
    BY <1>1 DEF ReportFailure, Printed
  <1>8. p <= past.sent
    BY <1>1, <1>7, StartedNumber
  <1>9. past'.odd = past.odd \cup Odd("late", p \in past.told)
    BY <1>1 DEF ReportFailure, Typed, Pasts
  <1>10. p \notin past.told
    BY <1>2, <1>9 DEF Odd
  <1>e. /\ UNCHANGED <<provider, handle, send, cancel, view, cache>>
        /\ past'.told = past.told \cup {p} /\ past'.sent = past.sent
        /\ past'.prompts = past.prompts
    BY <1>1 DEF ReportFailure, Typed, Pasts
  <1>t. Typed'
    <2>1. row' \in Rows /\ wire' \in Seq({"run", "stop"})
      BY <1>1 DEF ReportFailure, Typed, Rows, TurnFailed, Emits
    <2>2. past' \in Pasts
      BY <1>1, <1>2, <1>9, <1>10 DEF ReportFailure, Odd, Typed, Pasts
    <2> QED
      BY <1>1, <1>6, <1>e, <2>1, <2>2 DEF Typed
  <1>20. Numbered'
    BY <1>1, <1>p, <1>e, <1>7, <1>8, <1>10, Parts, Bounds DEF Numbered, Waiting,
       NoProc
  <1>21. Staged'
    BY <1>1, <1>p, <1>e, <1>7, <1>8, <1>10, Parts, Bounds DEF Staged, InFlight,
       Waiting, Started, OpenCode
  <1>22. Printed'
    BY <1>1, <1>p, <1>e, <1>7, <1>8, <1>10, Parts, Bounds DEF Printed, Claude
  <1>23. Owned'
    BY <1>1, <1>p, <1>e, <1>7, <1>8, <1>10, Parts, Bounds DEF Owned, Owner,
       OpenCode, Claude, StoppedFirst
  <1>24. Alone'
    BY <1>1, <1>p, <1>e, <1>7, <1>8, <1>10, Parts, Bounds DEF Alone, InFlight,
       OpenCode, Working, Started
  <1>25. Followed'
    <2>1. \A q \in Procs : Working(q)' => Working(q)
      BY <1>p DEF Working
    <2>2. Claude => /\ handle.current = 0 /\ handle.finalized
                    /\ \A q \in Procs : q # p => ~FailureDue(q)
      BY <1>1, <1>7, <1>10 DEF Followed, Owned, FailureDue
    <2>3. Claude' => \A q \in Procs : Busy(q)'
      BY <1>1, <1>p, <1>e, <2>1 DEF Followed, Busy, Claude
    <2>4. Claude' => \A q \in Procs : ~FailureDue(q)'
      BY <1>p, <1>e, <2>2 DEF FailureDue, Claude
    <2>5. \A q \in Procs : cancel'.killed = q => proc'[q].life = "exited"
      BY <1>1, <1>p, <1>e DEF Followed
    <2>6. Claude' => \A q \in Procs :
              cancel'.at = "killed" /\ cancel'.turn = q => ~Working(q)'
      BY <1>1, <1>e, <2>1 DEF Followed, Claude
    <2>7. Claude' => handle'.finalized
      BY <1>e, <2>2 DEF Claude
    <2> QED
      BY <2>3, <2>4, <2>5, <2>6, <2>7 DEF Followed
  <1> QED
    BY <1>t, <1>20, <1>21, <1>22, <1>23, <1>24, <1>25 DEF Sound

\* The end of a process is looked at: its turn has failed, or is over.
LEMMA HandleExitKeeps ==
    ASSUME Sound, Tidy, Tidy', NEW p \in Procs, HandleExit(p)
    PROVE  Sound'
  <1>1. Typed /\ Numbered /\ Staged /\ Printed /\ Owned /\ Alone /\ Followed
    BY DEF Sound
  <1>2. past.odd = {} /\ past'.odd = {} /\ past.odd \in SUBSET Deviations
    BY <1>1, Parts DEF Tidy
  <1> DEFINE new == [proc[p] EXCEPT !.exit =
            IF ~handle.finalized /\ proc[p].closed # "client" THEN "fails" ELSE "over"]
  <1>3. proc[p] \in Processes
    BY <1>1, Parts
  <1>4. /\ new \in Processes
        /\ new.life = proc[p].life /\ new.done = proc[p].done
        /\ new.out = proc[p].out /\ new.listens = proc[p].listens
        /\ new.reads = proc[p].reads /\ new.closed = proc[p].closed
        /\ new.exit = IF ~handle.finalized /\ proc[p].closed # "client"
                       THEN "fails" ELSE "over"
    BY <1>3 DEF Processes
  <1>5. proc' = [proc EXCEPT ![p] = new]
    BY <1>1 DEF HandleExit, Typed
  <1> HIDE DEF new
  <1>6. /\ proc' \in [Procs -> Processes] /\ proc'[p] = new
        /\ \A q \in Procs \ {p} : proc'[q] = proc[q]
    BY <1>1, <1>4, <1>5, OneProcess
  <1>p. /\ \A q \in Procs \ {p} : proc'[q] = proc[q]
        /\ proc'[p].life = proc[p].life /\ proc'[p].done = proc[p].done
        /\ proc'[p].out = proc[p].out /\ proc'[p].listens = proc[p].listens
        /\ proc'[p].reads = proc[p].reads /\ proc'[p].closed = proc[p].closed
        /\ proc'[p].exit = IF ~handle.finalized /\ proc[p].closed # "client"
                       THEN "fails" ELSE "over"
    BY <1>4, <1>6
  <1>7. proc[p].exit = "told" /\ proc[p].life = "exited" /\ ~proc[p].reads
    BY <1>1 DEF HandleExit, Printed
  <1>8. p <= past.sent
    BY <1>1, <1>7, StartedNumber
  <1>9. past'.odd = past.odd \cup Odd("crossed", Others(p)) \cup
             Odd("midway", handle.finalized /\ proc[p].step
                               /\ proc[p].closed # "client")
    BY <1>1 DEF HandleExit, Typed, Pasts
  <1>10. handle.current \in {0, p}
    BY <1>2, <1>9 DEF Odd, Others
  <1>e. /\ UNCHANGED <<provider, send, cancel, row, wire, view, cache>>
        /\ handle'.current = 0 /\ handle'.finalized
        /\ handle'.transport = handle.transport
        /\ past'.told = past.told /\ past'.sent = past.sent
        /\ past'.prompts = past.prompts
    BY <1>1 DEF HandleExit, Typed, Pasts, Handles
  <1>t. Typed'
    <2>1. handle' \in Handles
      BY <1>1 DEF HandleExit, Typed, Handles
    <2>2. past' \in Pasts
      BY <1>1, <1>2, <1>9 DEF HandleExit, Typed, Pasts
    <2> QED
      BY <1>1, <1>6, <1>e, <2>1, <2>2 DEF Typed
  <1>20. Numbered'
    BY <1>1, <1>p, <1>e, <1>7, <1>8, <1>10, Parts, Bounds DEF Numbered, Waiting,
       NoProc
  <1>21. Staged'
    BY <1>1, <1>p, <1>e, <1>7, <1>8, <1>10, Parts, Bounds DEF Staged, InFlight,
       Waiting, Started, OpenCode
  <1>22. Printed'
    BY <1>1, <1>p, <1>e, <1>7, <1>8, <1>10, Parts, Bounds DEF Printed, Claude
  <1>23. Owned'
    BY <1>1, <1>p, <1>e, <1>7, <1>8, <1>10, Parts, Bounds DEF Owned, Owner,
       OpenCode, Claude, StoppedFirst
  <1>24. Alone'
    BY <1>1, <1>p, <1>e, <1>7, <1>8, <1>10, Parts, Bounds DEF Alone, InFlight,
       OpenCode, Working, Started
  <1>25. Followed'
    <2>1. \A q \in Procs : (Working(q)' => Working(q)) /\ ~Working(p)
      BY <1>7, <1>p DEF Working
    <2>2. Claude' => \A q \in Procs : Busy(q)'
      BY <1>1, <1>e, <1>10, <2>1, Bounds DEF Followed, Busy, Claude
    <2>3. \A q \in Procs : cancel'.killed = q => proc'[q].life = "exited"
      BY <1>1, <1>p, <1>e DEF Followed
    <2>4. Claude' => \A q \in Procs :
              cancel'.at = "killed" /\ cancel'.turn = q => ~Working(q)'
      BY <1>1, <1>e, <2>1 DEF Followed, Claude
    <2>5. \A q \in Procs : FailureDue(q)' =>
              FailureDue(q) \/ (q = p /\ ~handle.finalized)
      BY <1>p, <1>e DEF FailureDue
    <2>6. \A q \in Procs : Visible(q)' <=> Visible(q)
      BY <1>e DEF Visible, InFlight
    <2>7. ~handle.finalized => handle.current = p
      BY <1>1, <1>10 DEF Owned
    <2>8. ~handle.finalized => \A c \in Callers : send[c].at # "reset"
      BY <1>1, <1>7, <2>7 DEF Staged, Owned, Started
    <2>9. Claude /\ ~handle.finalized => Visible(p) /\ \A q \in Procs : ~FailureDue(q)
      BY <1>1, <2>7, <2>8, Bounds DEF Followed
    <2>10. Claude' => \A q \in Procs : FailureDue(q)' =>
               handle'.current = 0 /\ Visible(q)'
      BY <1>1, <1>e, <2>5, <2>6, <2>9 DEF Followed, Claude
    <2>11. Claude' => \A q, s \in Procs : FailureDue(q)' /\ FailureDue(s)' => q = s
      BY <1>1, <1>e, <2>5, <2>9 DEF Followed, Claude
    <2> QED
      BY <1>e, <2>2, <2>3, <2>4, <2>10, <2>11 DEF Followed
  <1> QED
    BY <1>t, <1>20, <1>21, <1>22, <1>23, <1>24, <1>25 DEF Sound

\* A stop kills the process that is stored.
LEMMA KillKeeps ==
    ASSUME Sound, Tidy, Tidy', Kill
    PROVE  Sound'
  <1>1. Typed /\ Numbered /\ Staged /\ Printed /\ Owned /\ Alone /\ Followed
    BY DEF Sound
  <1>2. past.odd = {} /\ past'.odd = {} /\ past.odd \in SUBSET Deviations
    BY <1>1, Parts DEF Tidy
  <1>3. past'.odd = past.odd \cup Odd("unstored", Unstored)
             \cup Odd("slipped", Claude /\ cancel.turn # handle.transport
                                 /\ handle.transport \notin past.told \cup {0})
    BY <1>1 DEF Kill, Typed, Pasts
  <1>4. /\ ~Unstored
        /\ Claude /\ handle.transport \notin past.told \cup {0} =>
               cancel.turn = handle.transport
    BY <1>2, <1>3 DEF Odd
  <1>5. proc' = Shut(handle.transport) /\ handle.transport \in {0} \cup Procs
    BY <1>1, Parts DEF Kill
  <1>p. /\ proc' \in [Procs -> Processes]
        /\ \A q \in Procs \ {handle.transport} : proc'[q] = proc[q]
        /\ \A q \in Procs : q = handle.transport =>
               /\ proc'[q].life = "exited"
               /\ proc'[q].closed = IF proc[q].closed = "no" THEN "client"
                                                          ELSE proc[q].closed
               /\ proc'[q].out = proc[q].out /\ proc'[q].done = proc[q].done
               /\ proc'[q].listens = proc[q].listens
               /\ proc'[q].reads = proc[q].reads /\ proc'[q].exit = proc[q].exit
    BY <1>1, <1>5, ShutEffect
  <1>6. \A c \in Callers : ~Started(c)
    BY <1>4 DEF Unstored, Started
  <1>e. /\ UNCHANGED <<provider, send, row, wire, view, cache>>
        /\ handle'.current = handle.current /\ handle'.finalized = handle.finalized
        /\ handle'.transport = 0
        /\ cancel.at = "read" /\ cancel'.at = "killed"
        /\ cancel'.turn = cancel.turn /\ cancel'.killed = handle.transport
        /\ past'.told = past.told /\ past'.sent = past.sent
        /\ past'.prompts = past.prompts
    BY <1>1 DEF Kill, Typed, Pasts, Handles, Cancels
  <1>t. Typed'
    <2>1. handle' \in Handles /\ cancel' \in Cancels
      BY <1>1, <1>5 DEF Kill, Typed, Handles, Cancels
    <2>2. past' \in Pasts
      BY <1>1, <1>2, <1>3 DEF Kill, Typed, Pasts
    <2> QED
      BY <1>1, <1>p, <1>e, <2>1, <2>2 DEF Typed
  <1>20. Numbered'
    BY <1>1, <1>4, <1>p, <1>6, <1>e, Parts, Bounds DEF Numbered, Waiting, NoProc
  <1>21. Staged'
    BY <1>1, <1>4, <1>p, <1>6, <1>e, Parts, Bounds DEF Staged, InFlight, Waiting,
       Started, OpenCode
  <1>22. Printed'
    BY <1>1, <1>4, <1>p, <1>6, <1>e, Parts, Bounds DEF Printed, Claude
  <1>23. Owned'
    BY <1>1, <1>4, <1>p, <1>6, <1>e, Parts, Bounds DEF Owned, Owner, OpenCode,
       Claude, StoppedFirst
  <1>24. Alone'
    BY <1>1, <1>4, <1>p, <1>6, <1>e, Parts, Bounds DEF Alone, InFlight, OpenCode,
       Working, Started
  <1>25. Followed'
    <2>1. \A q \in Procs : Working(q) => q = handle.transport
      BY <1>1, <1>6 DEF Alone
    <2>2. \A q \in Procs : ~Working(q)'
      BY <1>p, <2>1 DEF Working
    <2>3. \A q \in Procs : FailureDue(q)' <=> FailureDue(q)
      BY <1>p, <1>e DEF FailureDue
    <2>4. \A n : Visible(n)' <=> Visible(n)
      BY <1>e DEF Visible, InFlight
    <2>5. \A q \in Procs : cancel'.killed = q => proc'[q].life = "exited"
      BY <1>p, <1>e
    <2>6. \A q \in Procs : Busy(q)'
      BY <2>2 DEF Busy
    <2>7. Claude' => /\ ~handle'.finalized =>
                          \/ \E c \in Callers : send'[c].at = "reset"
                          \/ Visible(handle.current)'
                     /\ \A q \in Procs : FailureDue(q)' =>
                           handle'.current = 0 /\ Visible(q)'
                     /\ \A q, s \in Procs : FailureDue(q)' /\ FailureDue(s)' => q = s
      BY <1>1, <1>e, <2>3, <2>4 DEF Followed, Claude
    <2> QED
      BY <2>2, <2>5, <2>6, <2>7, <1>e DEF Followed
  <1> QED
    BY <1>t, <1>20, <1>21, <1>22, <1>23, <1>24, <1>25 DEF Sound

\* The stop reports a cancellation, or finds no turn.
LEMMA ReportCancelKeeps ==
    ASSUME Sound, Tidy, Tidy', ReportCancel
    PROVE  Sound'
  <1>1. Typed /\ Numbered /\ Staged /\ Printed /\ Owned /\ Alone /\ Followed
    BY DEF Sound
  <1>2. past.odd = {} /\ past'.odd = {} /\ past.odd \in SUBSET Deviations
    BY <1>1, Parts DEF Tidy
  <1> DEFINE Ends == OpenCode \/ cancel.turn # 0
             stopped == IF OpenCode THEN {handle.current, cancel.killed}
                                    ELSE {cancel.turn}
  <1>3. Ends => Canceled(stopped)
    <2>1. CASE OpenCode
      BY <2>1 DEF ReportCancel, OpenCode, Claude
    <2>2. CASE ~OpenCode
      BY <1>1, <2>2 DEF ReportCancel, OpenCode, Claude, Typed
    <2> QED
      BY <2>1, <2>2
  <1>4. ~Ends => UNCHANGED <<handle, row, wire, past>>
    BY <1>1 DEF ReportCancel, OpenCode, Claude, Typed
  <1>5. Ends => past'.odd = past.odd \cup Odd("crossed", FailureOwed(stopped) \/
                   handle.current \notin {0, cancel.turn, cancel.killed})
    BY <1>1, <1>3 DEF Canceled, Typed, Pasts
  <1>6. Ends => /\ handle.current \in {0, cancel.turn, cancel.killed}
                /\ \A q \in Procs \ stopped : proc[q].exit # "fails"
    BY <1>2, <1>5 DEF Odd, FailureOwed
  <1>7. Ends => /\ handle'.current = 0 /\ handle'.finalized
                /\ handle'.transport = handle.transport
                /\ past'.told = past.told \cup (stopped \ {0})
                /\ past'.sent = past.sent /\ past'.prompts = past.prompts
    BY <1>1, <1>3 DEF Canceled, Typed, Pasts, Handles
  <1>e. /\ UNCHANGED <<provider, send, proc, view, cache>>
        /\ cancel.at = "killed"
        /\ cancel'.at = "none" /\ cancel'.turn = 0 /\ cancel'.killed = 0
    BY DEF ReportCancel, NoCancel
  <1>8. stopped \subseteq {0} \cup Procs
    BY <1>1, Parts
  <1>t. Typed'
    <2>1. cancel' \in Cancels
      BY DEF ReportCancel, NoCancel, Cancels
    <2>2. CASE ~Ends
      BY <1>1, <1>4, <1>e, <2>1, <2>2 DEF Typed
    <2>3. CASE Ends
      <3>1. handle' \in Handles
        BY <1>1, <1>3, <2>3 DEF Canceled, Typed, Handles
      <3>2. row' \in Rows /\ wire' \in Seq({"run", "stop"})
        <4>1. [live |-> FALSE, grace |-> FALSE] \in Rows
          BY DEF Rows
        <4>2. /\ wire \in Seq({"run", "stop"})
              /\ Append(wire, "stop") \in Seq({"run", "stop"})
          BY <1>1 DEF Typed
        <4> QED
          BY <1>3, <2>3, <4>1, <4>2 DEF Canceled, TurnCanceled, Emits
      <3>3. past' \in Pasts
        <4>1. past.told \cup (stopped \ {0}) \in SUBSET Procs
          BY <1>1, <1>8, Parts
        <4> HIDE DEF stopped
        <4>2. /\ past' = [past EXCEPT !.told = past.told \cup (stopped \ {0}),
                                       !.odd = past'.odd]
              /\ past'.odd \in SUBSET Deviations
          BY <1>1, <1>2, <1>3, <1>5, <2>3 DEF Canceled, Typed, Pasts
        <4> QED
          BY <1>1, <4>1, <4>2 DEF Typed, Pasts
      <3> QED
        BY <1>1, <1>e, <2>1, <3>1, <3>2, <3>3 DEF Typed
    <2> QED
      BY <2>2, <2>3
  <1> HIDE DEF Ends
  <1>20. Numbered'
    BY <1>1, <1>4, <1>6, <1>7, <1>e, Parts, Bounds DEF Numbered, Waiting, NoProc
  <1>21. Staged'
    BY <1>1, <1>4, <1>6, <1>7, <1>e, Parts, Bounds DEF Staged, InFlight, Waiting,
       Started, OpenCode
  <1>22. Printed'
    BY <1>1, <1>4, <1>6, <1>7, <1>e, Parts, Bounds DEF Printed, Claude
  <1>23. Owned'
    <2>1. \A p \in Procs : StoppedFirst(p) <=> p = cancel.killed
      BY <1>e DEF StoppedFirst
    <2>2. \A p \in Procs : p = cancel.killed /\ p \notin past.told =>
              Ends /\ p \in stopped
      BY <1>1, <2>1, Bounds DEF Owned, Owner, Ends, Claude, OpenCode, Typed
    <2>3. \A p \in Procs : Ends /\ handle.current = p /\ p \notin past.told =>
              p \in stopped
      BY <1>1, <1>6, <2>2, Bounds DEF Ends, OpenCode
    <2>4. \A p \in Procs : ~StoppedFirst(p)'
      BY <1>e DEF StoppedFirst
    <2>5. past'.sent = past.sent /\ \A p \in Procs : p \in past.told => p \in past'.told
      BY <1>4, <1>7
    <2>6. \A p \in Procs : Ends /\ p \in stopped => p \in past'.told
      BY <1>7, Bounds
    <2>7. ASSUME NEW p \in Procs  PROVE Owner(p)'
      <3>1. Owner(p) /\ 0 # p
        BY <1>1, Bounds DEF Owned
      <3>2. CASE Ends
        BY <1>7, <1>e, <2>1, <2>2, <2>3, <2>4, <2>5, <2>6, <3>1, <3>2 DEF Owner
      <3>3. CASE ~Ends
        BY <1>4, <1>e, <2>1, <2>2, <2>4, <3>1, <3>3 DEF Owner
      <3> QED
        BY <3>2, <3>3
    <2> QED
      BY <1>1, <1>4, <1>7, <1>e, <2>7 DEF Owned, OpenCode
  <1>24. Alone'
    BY <1>1, <1>4, <1>6, <1>7, <1>e, Parts, Bounds DEF Alone, InFlight, OpenCode,
       Working, Started
  <1>25. Followed'
    BY <1>1, <1>4, <1>6, <1>7, <1>e, Parts, Bounds DEF Followed, Busy, Claude,
       Working, Visible, FailureDue, InFlight
  <1> QED
    BY <1>t, <1>20, <1>21, <1>22, <1>23, <1>24, <1>25 DEF Sound

(***************************************************************************)
(* The specification.                                                      *)
(***************************************************************************)

\* Deviations are never forgotten, whatever else a state is like.
LEMMA OddGrows ==
    ASSUME "odd" \in DOMAIN past, [Next]_vars
    PROVE  "odd" \in DOMAIN past' /\ (Tidy' => Tidy)
  <1>1. ASSUME NEW c \in Callers, SendStep(c)
        PROVE  "odd" \in DOMAIN past' /\ (Tidy' => Tidy)
    <2>1. CASE ShutEarlier(c) \/ Spawn(c) \/ SpawnFails(c) \/ Reset(c)
      BY <2>1 DEF ShutEarlier, Spawn, SpawnFails, Reset, Tidy
    <2>2. CASE Listen(c)
      BY <2>2 DEF Listen, Tidy
    <2>3. CASE Store(c)
      BY <2>3 DEF Store, Tidy
    <2> QED
      BY <1>1, <2>1, <2>2, <2>3 DEF SendStep
  <1>2. ASSUME NEW p \in Procs, ReadStep(p)
        PROVE  "odd" \in DOMAIN past' /\ (Tidy' => Tidy)
    <2>1. CASE Drops(p) \/ ReadText(p) \/ ReadStart(p) \/ ReadEnd(p)
      BY <2>1 DEF Drops, ReadText, ReadStart, ReadEnd, Revives, Tidy
    <2>2. CASE ReadFinish(p) \/ ReadOk(p) \/ ReadError(p)
      BY <2>2 DEF ReadFinish, ReadOk, ReadError, Tells, Tidy
    <2> QED
      BY <1>2, <2>1, <2>2 DEF ReadStep
  <1>3. ASSUME NEW p \in Procs, ExitStep(p) \/ Prints(p) \/ Exit(p)
        PROVE  "odd" \in DOMAIN past' /\ (Tidy' => Tidy)
    <2>1. CASE HandleExit(p) \/ ReportFailure(p) \/ Exit(p)
      BY <2>1 DEF HandleExit, ReportFailure, Exit, Tidy
    <2>2. CASE Prints(p)
      BY <2>2 DEF Prints, PrintLine, Tidy
    <2> QED
      BY <1>3, <2>1, <2>2 DEF ExitStep
  <1>4. CASE Kill
    BY <1>4 DEF Kill, Tidy
  <1>5. CASE ReportCancel
    <2>1. UNCHANGED past \/ \E turns : Canceled(turns)
      BY <1>5 DEF ReportCancel
    <2> QED
      BY <2>1 DEF Canceled, Tidy
  <1>6. CASE GraceEnds \/ Deliver \/ RefreshRow \/ Enter \/ Leave
    BY <1>6 DEF GraceEnds, Deliver, RefreshRow, Enter, Leave, Tidy
  <1>7. CASE SendQueued \/ Submit \/ Inject
    BY <1>7 DEF SendQueued, Submit, Inject, Tidy
  <1>8. CASE Queue \/ DropQueued \/ Stop
    BY <1>8 DEF Queue, DropQueued, Stop, Tidy
  <1>9. CASE UNCHANGED vars
    BY <1>9 DEF vars, Tidy
  <1> QED
    BY <1>1, <1>2, <1>3, <1>4, <1>5, <1>6, <1>7, <1>8, <1>9
       DEF Next, BackendStep, ViewStep, CancelStep

\* A session that has just been started.
LEMMA InitSound == Init => IInv
  <1> SUFFICES ASSUME Init  PROVE IInv
    OBVIOUS
  <1>1. /\ 1 \in 1..MaxViews /\ 0 \in 0..MaxPrompts /\ 0 \in 0..MaxCancels
        /\ 0 \in 0..MaxSteps
    BY Bounds
  <1>2. Typed
    <2>1. handle \in Handles /\ cancel \in Cancels /\ row \in Rows
      BY DEF Init, NoCancel, Handles, Cancels, Rows
    <2>2. NoSend \in Sends /\ NoProc \in Processes
      <3>1. <<>> \in Seq(Lines)
        OBVIOUS
      <3> QED
        BY <3>1 DEF NoSend, Sends, Stages, NoProc, Processes
    <2>3. view \in Views /\ past \in Pasts
      BY <1>1 DEF Init, Views, Pasts
    <2>4. wire \in Seq({"run", "stop"})
      BY DEF Init
    <2>5. provider \in {"claude", "opencode"}
      BY ProviderAssumption DEF Init
    <2> QED
      BY <2>1, <2>2, <2>3, <2>4, <2>5 DEF Init, Typed
  <1>3. /\ handle.current = 0 /\ handle.transport = 0 /\ handle.finalized
        /\ cancel.at = "none" /\ cancel.turn = 0 /\ cancel.killed = 0
        /\ past.sent = 0 /\ past.prompts = 0 /\ view.mounted /\ ~cache
        /\ \A c \in Callers : send[c].at = "none"
        /\ \A p \in Procs : /\ proc[p] = NoProc /\ proc[p].life = "none"
                            /\ proc[p].exit = "none" /\ proc[p].closed = "no"
                            /\ proc[p].out = <<>>
    BY DEF Init, NoSend, NoCancel, NoProc
  <1>4. Numbered
    BY <1>3, Bounds DEF Numbered, Waiting
  <1>5. Staged
    BY <1>3 DEF Staged, InFlight, Waiting, Started
  <1>6. Printed
    BY <1>3 DEF Printed
  <1>7. Owned
    <2>1. \A p \in Procs : ~(p <= past.sent)
      BY <1>3, Bounds
    <2>2. ASSUME NEW p \in Procs  PROVE Owner(p)
      BY <1>3, <2>1 DEF Owner, StoppedFirst
    <2> QED
      BY <1>3, <2>2 DEF Owned
  <1>8. Alone
    BY <1>3 DEF Alone, InFlight, Working
  <1>9. Followed
    BY <1>3, Bounds DEF Followed, Busy, Working, FailureDue
  <1> QED
    BY <1>2, <1>4, <1>5, <1>6, <1>7, <1>8, <1>9 DEF IInv, Sound, Init

\* Every step of a session without a deviation keeps what holds of it.
LEMMA SoundKept ==
    ASSUME Sound, Tidy, Tidy', [Next]_vars
    PROVE  Sound'
  <1>1. ASSUME NEW c \in Callers, SendStep(c)  PROVE Sound'
    BY <1>1, ShutEarlierKeeps, SpawnKeeps, SpawnFailsKeeps, ResetKeeps, ListenKeeps,
       StoreKeeps DEF SendStep
  <1>2. ASSUME NEW p \in Procs, ReadStep(p)  PROVE Sound'
    BY <1>2, DropsKeeps, ReadTextKeeps, ReadStartKeeps, ReadFinishKeeps,
       ReadOkKeeps,
       ReadErrorKeeps, ReadEndKeeps DEF ReadStep
  <1>3. ASSUME NEW p \in Procs, ExitStep(p)  PROVE Sound'
    BY <1>3, HandleExitKeeps, ReportFailureKeeps DEF ExitStep
  <1>4. ASSUME NEW p \in Procs, Prints(p)  PROVE Sound'
    <2>1. CASE \/ Claude /\ PrintLine(p, "text", FALSE, FALSE)
               \/ Claude /\ PrintLine(p, "ok", TRUE, FALSE)
               \/ Claude /\ PrintLine(p, "error", TRUE, FALSE)
      BY <2>1, PrintLineKeeps DEF Lines
    <2>2. CASE OpenCode /\ PrintLine(p, "error", TRUE, FALSE)
      BY <2>2, PrintLineKeeps DEF Lines, OpenCode, Claude
    <2>3. CASE OpenCode /\ past.steps < MaxSteps /\ PrintLine(p, "start", FALSE, TRUE)
      BY <2>3, PrintLineKeeps DEF Lines, OpenCode, Claude
    <2>4. CASE OpenCode /\ PrintLine(p, "text", FALSE, TRUE)
      BY <2>4, PrintLineKeeps DEF Lines, OpenCode, Claude
    <2>5. ASSUME OpenCode, NEW done \in BOOLEAN, PrintLine(p, "finish", done, FALSE)
          PROVE  Sound'
      BY <2>5, PrintLineKeeps DEF Lines, OpenCode, Claude
    <2> QED
      BY <1>4, <2>1, <2>2, <2>3, <2>4, <2>5 DEF Prints
  <1>5. ASSUME NEW p \in Procs, Exit(p)  PROVE Sound'
    BY <1>5, ExitKeeps
  <1>6. CASE CancelStep \/ GraceEnds
    BY <1>6, KillKeeps, ReportCancelKeeps, GraceEndsKeeps DEF CancelStep
  <1>7. CASE ViewStep
    BY <1>7, DeliverKeeps, RefreshRowKeeps, SendQueuedKeeps, EnterKeeps DEF ViewStep
  <1>8. CASE Inject \/ Submit \/ Queue \/ DropQueued \/ Stop \/ Leave
    BY <1>8, InjectKeeps, SubmitKeeps, QueueKeeps, DropQueuedKeeps, StopKeeps,
       LeaveKeeps
  <1>9. CASE UNCHANGED vars
    BY <1>9 DEF vars, Sound, Typed, Numbered, Staged, Printed, Owned, Owner, Alone,
       Followed, Busy, Waiting, Started, InFlight, Working, StoppedFirst, Visible,
       FailureDue, Claude, OpenCode
  <1> QED
    BY <1>1, <1>2, <1>3, <1>4, <1>5, <1>6, <1>7, <1>8, <1>9 DEF Next, BackendStep

\* The invariant holds in every session.
LEMMA IInvHolds == Spec => []IInv
  <1>1. Init => IInv
    BY InitSound
  <1>2. IInv /\ [Next]_vars => IInv'
    <2> SUFFICES ASSUME IInv, [Next]_vars  PROVE IInv'
      OBVIOUS
    <2>1. "odd" \in DOMAIN past' /\ (Tidy' => Tidy)
      BY OddGrows DEF IInv
    <2>2. Tidy' => Sound'
      BY <2>1, SoundKept DEF IInv
    <2> QED
      BY <2>1, <2>2 DEF IInv
  <1> QED
    BY <1>1, <1>2, PTL DEF Spec

\* A process that is over has told its end: whoever had to tell it is done, and
\* had told it.
LEMMA EndsAreTold == IInv => OrderlyEndReported
  <1> SUFFICES ASSUME Sound, NEW p \in Procs, Over(p)  PROVE p \in past.told
    BY DEF IInv, Tidy, OrderlyEndReported
  <1>1. Numbered /\ Staged /\ Owned /\ Typed
    BY DEF Sound
  <1>2. proc[p].exit = "over" /\ cancel.killed # p
    BY DEF Over
  <1>3. p <= past.sent
    BY <1>1, <1>2, Parts, Bounds DEF Numbered, NoProc
  <1>4. ~ \E c \in Callers : send[c].at = "spawned" /\ p = past.sent
    BY <1>1, <1>2 DEF Staged
  <1> QED
    BY <1>1, <1>2, <1>3, <1>4 DEF Owned, Owner, StoppedFirst

\* Two processes that work would both be the one that is stored or sent.
LEMMA WorkersAreOne == IInv => OneWorker
  <1> SUFFICES ASSUME Sound  PROVE Cardinality({p \in Procs : Working(p)}) <= 1
    BY DEF IInv, Tidy, OneWorker
  <1>1. Staged /\ Alone
    BY DEF Sound
  <1>2. ASSUME NEW p \in Procs, NEW q \in Procs, Working(p), Working(q)  PROVE p = q
    <2>1. CASE \E c \in Callers : Started(c)
      BY <1>1, <1>2, <2>1 DEF Alone, Started, InFlight
    <2>2. CASE ~ \E c \in Callers : Started(c)
      BY <1>1, <1>2, <2>2 DEF Alone
    <2> QED
      BY <2>1, <2>2
  <1>3. CASE \A p \in Procs : ~Working(p)
    <2>1. {p \in Procs : Working(p)} = {}
      BY <1>3
    <2> QED
      BY <2>1, FS_EmptySet
  <1>4. ASSUME NEW p \in Procs, Working(p)
        PROVE  Cardinality({q \in Procs : Working(q)}) <= 1
    <2>1. {q \in Procs : Working(q)} = {p}
      BY <1>2, <1>4
    <2> QED
      BY <2>1, FS_Singleton
  <1> QED
    BY <1>3, <1>4

\* Whatever a turn dies of, its end is told to the front end when its process
\* is over: reader, waiting thread and cancel_turn share one finalized flag,
\* and none of them leaves the end to another that keeps silent.
THEOREM EndsAreReported == Spec => []OrderlyEndReported
  BY IInvHolds, EndsAreTold, PTL

\* Two processes of one session never work at once on its workspace.
THEOREM WorkersAlone == Spec => []OneWorker
  BY IInvHolds, WorkersAreOne, PTL

\* Every state up to the first deviation is well formed: no message is sent
\* that was not counted, and no number of a process or a view is out of range.
THEOREM SessionTyped == Spec => [](Orderly => TypeOK)
  <1>1. Typed => TypeOK
    BY DEF Typed, TypeOK, Handles, Sends, Cancels, Processes, Rows, Views, Pasts
  <1>2. IInv => (Orderly => TypeOK)
    BY <1>1 DEF IInv, Sound, Tidy, Orderly
  <1> QED
    BY <1>2, IInvHolds, PTL
=============================================================================
