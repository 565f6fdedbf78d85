---------------------------- MODULE LanguageHosts ----------------------------
(***************************************************************************)
(* The language servers of one project's code page: the registry that has  *)
(* one host per workspace (code_language/registry.rs), the host with its   *)
(* handshake, its readiness and its pending requests (host.rs, reader.rs,  *)
(* readiness.rs), and the page that asks for hosts, opens documents and    *)
(* requests definitions and references (use-code-language-*.ts).           *)
(*                                                                         *)
(* Each call of the page runs on a thread of its own, in any order. The    *)
(* registry's lock is held for one step, except by a notification, which   *)
(* waits for the handshake under it.                                       *)
(*                                                                         *)
(* A server answers before its project is loaded, with answers that lead   *)
(* to the import statement: the host keeps requests back until the load    *)
(* has ended, as far as it knows of the load.                              *)
(***************************************************************************)
EXTENDS Naturals, Sequences

CONSTANTS
    Workspaces, \* the project's checkout and its worktrees
    MaxHosts,   \* servers started in a behaviour
    MaxCalls    \* calls of the page in a behaviour

ASSUME HostsAssumption == MaxHosts \in Nat /\ MaxCalls \in Nat

VARIABLES
    slot, \* the registry: per workspace its host, 0 for none
    lock, \* the notification that holds the registry, 0 for none
    host, \* per host what the program and its server know
    out,  \* per host what its server has written and the reader has not read
    call, \* the calls in the order the page makes them
    page, \* the code page
    odd   \* history: the deviations that happened

vars == <<slot, lock, host, out, call, page, odd>>

Hosts == 1..MaxHosts

Calls == 1..MaxCalls

Nowhere == "nowhere"

\* What separates the page from its server: a stop and an ensure in another
\* order than the page meant, or one in the middle of another; a server that
\* ended by itself; a page that comes back to a workspace it takes for ready.
Separations == {"overtaken", "ended", "returned"}

\* What lets a request reach a server that loads: the load starts after the
\* grace window; a document is opened between a request's check and its write;
\* a document is opened while another load is expected or under way.
Slips == {"grace", "checked", "unseen"}

Unborn == [ws |-> Nowhere, server |-> "unborn", reader |-> "handshake", handshake |-> "pending",
           phase |-> "idle", opened |-> FALSE, due |-> 0, loading |-> FALSE, asked |-> {}]

NoCall == [op |-> "none", ws |-> Nowhere, at |-> "unused", host |-> 0, heard |-> TRUE,
           early |-> FALSE]

TypeOK ==
    /\ slot \in [Workspaces -> 0..MaxHosts]
    /\ lock \in 0..MaxCalls
    /\ host \in [Hosts -> [ws : Workspaces \cup {Nowhere}, server : {"unborn", "runs", "dead"},
                           reader : {"handshake", "listens", "ended"},
                           handshake : {"pending", "ready", "failed"},
                           phase : {"idle", "awaiting", "loading", "stopped"},
                           opened : BOOLEAN, due : 0..MaxCalls, loading : BOOLEAN,
                           asked : SUBSET [to : Calls, early : BOOLEAN]]]
    /\ out \in [Hosts -> Seq([kind : {"begin", "end", "answer"}, to : 0..MaxCalls,
                              early : BOOLEAN])]
    /\ call \in [Calls -> [op : {"none", "ensure", "stop", "open", "request"},
                           ws : Workspaces \cup {Nowhere},
                           at : {"unused", "start", "stop others", "spawn", "insert", "handshake",
                                 "await", "write", "asked", "done"},
                           host : 0..MaxHosts, heard : BOOLEAN, early : BOOLEAN]]
    /\ page \in [ws : Workspaces \cup {Nowhere}, code : BOOLEAN,
                 ready : Workspaces \cup {Nowhere}, synced : BOOLEAN]
    /\ odd \subseteq Separations \cup Slips

Init ==
    /\ slot = [w \in Workspaces |-> 0]
    /\ lock = 0
    /\ host = [h \in Hosts |-> Unborn]
    /\ out = [h \in Hosts |-> <<>>]
    /\ call = [c \in Calls |-> NoCall]
    /\ page = [ws |-> Nowhere, code |-> FALSE, ready |-> Nowhere, synced |-> FALSE]
    /\ odd = {}

Runs(h) == h # 0 /\ host[h].server = "runs"

\* Under way: an ensure that has not inserted its host yet.
Ensuring(w) == {c \in Calls : call[c].op = "ensure" /\ call[c].ws = w /\ call[c].at # "done"}

\* The first slip is kept, and the first separation, besides "overtaken".
Noted(d) ==
    LET kind == IF d \in Slips THEN Slips ELSE Separations
    IN  IF odd \cap kind = {} THEN odd \cup {d} ELSE odd

At(c, op, at) == call[c].op = op /\ call[c].at = at

Go(c, at) == call' = [call EXCEPT ![c].at = at]

\* A call that has ended is remembered by the answer it took, if any.
Ended(early) == [NoCall EXCEPT !.at = "done", !.early = early]

Done(c) == call' = [call EXCEPT ![c] = Ended(FALSE)]

\* The next calls of the page, in order: each takes the first unused places.
Unused == {c \in Calls : call[c].at = "unused"}

Issued(base, n, op, w) ==
    [c \in Calls |-> IF c = n THEN [NoCall EXCEPT !.op = op, !.ws = w, !.at = "start"] ELSE base[c]]

First == CHOOSE c \in Unused : \A d \in Unused : c <= d

\* A server that has ended knows nothing any more.
Killed(h) ==
    [host[h] EXCEPT !.server = "dead", !.opened = FALSE, !.due = 0, !.loading = FALSE, !.asked = {}]

(***************************************************************************)
(* A host.  stop: its waiters are woken, the handshake fails, the process  *)
(* is killed and waited for.                                               *)
(***************************************************************************)
Stopped(hs) ==
    [h \in Hosts |->
        IF h \in hs THEN [Killed(h) EXCEPT !.phase = "stopped", !.handshake = "failed"]
        ELSE host[h]]

\* The reader has the answer to initialize and has written initialized. The
\* server may have been killed since: the state is set whatever it was.
HandshakeEnds(h) ==
    /\ host[h].server # "unborn" /\ host[h].reader = "handshake"
    /\ host' = [host EXCEPT ![h].reader = "listens", ![h].handshake = "ready"]
    /\ UNCHANGED <<slot, lock, out, call, page, odd>>

\* The server's output has ended, or its answer to initialize is an error.
ReaderEnds(h) ==
    /\ \/ host[h].reader = "handshake" /\ host[h].server # "unborn"
       \/ host[h].reader = "listens" /\ host[h].server = "dead" /\ out[h] = <<>>
    /\ host' = [host EXCEPT ![h].reader = "ended", ![h].phase = "stopped",
                            ![h].handshake = IF host[h].reader = "handshake" THEN "failed" ELSE @]
    /\ odd' = IF Runs(h) THEN Noted("ended") ELSE odd
    /\ UNCHANGED <<slot, lock, out, call, page>>

\* A phase other than stopped is left.
Phase(h, phase) == IF host[h].phase = "stopped" THEN "stopped" ELSE phase

\* dispatch_loop. An answer nobody waits for any more is dropped.
ReadMessage(h) ==
    /\ host[h].reader = "listens" /\ out[h] # <<>>
    /\ LET m == Head(out[h]) IN
         /\ host' = CASE m.kind = "begin" -> [host EXCEPT ![h].phase = Phase(h, "loading")]
                      [] m.kind = "end"   -> [host EXCEPT ![h].phase = Phase(h, "idle")]
                      [] OTHER            -> host
         /\ call' = IF m.kind = "answer" /\ At(m.to, "request", "asked")
                    THEN [call EXCEPT ![m.to] = Ended(m.early)] ELSE call
    /\ out' = [out EXCEPT ![h] = Tail(@)]
    /\ UNCHANGED <<slot, lock, page, odd>>

(***************************************************************************)
(* The server: it loads a project for a document when it comes to it, one  *)
(* after the other, and answers in the meantime.                           *)
(***************************************************************************)
Says(h, kind, c, early) ==
    out' = [out EXCEPT ![h] = Append(@, [kind |-> kind, to |-> c, early |-> early])]

LoadBegins(h) ==
    /\ Runs(h) /\ host[h].due > 0 /\ ~host[h].loading
    /\ host' = [host EXCEPT ![h].due = @ - 1, ![h].loading = TRUE]
    /\ Says(h, "begin", 0, FALSE)
    /\ UNCHANGED <<slot, lock, call, page, odd>>

LoadEnds(h) ==
    /\ Runs(h) /\ host[h].loading
    /\ host' = [host EXCEPT ![h].loading = FALSE]
    /\ Says(h, "end", 0, FALSE)
    /\ UNCHANGED <<slot, lock, call, page, odd>>

Loads(h) == host[h].due > 0 \/ host[h].loading

\* What was written before the document that is loaded is answered before it.
Answers(h, request) ==
    /\ Runs(h)
    /\ host' = [host EXCEPT ![h].asked = @ \ {request}]
    /\ Says(h, "answer", request.to, request.early /\ Loads(h))
    /\ UNCHANGED <<slot, lock, call, page, odd>>

ServerEnds(h) ==
    /\ Runs(h)
    /\ host' = [host EXCEPT ![h] = Killed(h)]
    /\ odd' = Noted("ended")
    /\ UNCHANGED <<slot, lock, out, call, page>>

(***************************************************************************)
(* ensure: look for a host that runs, stop those of other workspaces,      *)
(* start one, insert it. The lock is released between the steps.           *)
(***************************************************************************)
\* The page hears of it unless it has turned to something else since.
Told(c, ready) == IF ~call[c].heard THEN page ELSE [page EXCEPT !.ready = ready]

ReadyStatus(c) ==
    /\ At(c, "ensure", "start") /\ lock = 0
    /\ IF Runs(slot[call[c].ws])
       THEN Done(c) /\ page' = Told(c, call[c].ws)
       ELSE Go(c, "stop others") /\ UNCHANGED page
    /\ odd' = IF \E d \in Calls : call[d].op = "ensure" /\ call[d].at \notin {"start", "done"}
              THEN odd \cup {"overtaken"} ELSE odd
    /\ UNCHANGED <<slot, lock, host, out>>

StopOtherWorkspaces(c) ==
    /\ At(c, "ensure", "stop others") /\ lock = 0
    /\ LET others == Workspaces \ {call[c].ws} IN
         /\ host' = Stopped({slot[w] : w \in others})
         /\ slot' = [w \in Workspaces |-> IF w \in others THEN 0 ELSE slot[w]]
         /\ odd' = IF \E w \in others : Ensuring(w) # {} \/ page.ws = w
                   THEN odd \cup {"overtaken"} ELSE odd
    /\ Go(c, "spawn")
    /\ UNCHANGED <<lock, out, page>>

SpawnHost(c, h) ==
    /\ At(c, "ensure", "spawn")
    /\ host[h].server = "unborn" /\ \A g \in 1..(h - 1) : host[g].server # "unborn"
    /\ host' = [host EXCEPT ![h].server = "runs", ![h].ws = call[c].ws]
    /\ call' = [call EXCEPT ![c].at = "insert", ![c].host = h]
    /\ UNCHANGED <<slot, lock, out, page, odd>>

\* No runtime is found, or the process does not start.
SpawnFails(c) ==
    /\ At(c, "ensure", "spawn")
    /\ Go(c, "insert")
    /\ UNCHANGED <<slot, lock, host, out, page, odd>>

\* A host that was inserted in the meantime is stopped.
InsertStatus(c) ==
    /\ At(c, "ensure", "insert") /\ lock = 0
    /\ LET w == call[c].ws IN
         /\ host' = Stopped({slot[w]})
         /\ slot' = [slot EXCEPT ![w] = call[c].host]
         /\ page' = Told(c, IF call[c].host = 0 THEN Nowhere ELSE w)
    /\ Done(c)
    /\ UNCHANGED <<lock, out, odd>>

\* Mutant of Stop: the slot is emptied, its server goes on.
StopForgets(c) ==
    /\ At(c, "stop", "start") /\ lock = 0
    /\ LET w == call[c].ws IN
         /\ slot' = [slot EXCEPT ![w] = 0]
         /\ odd' = IF Ensuring(w) # {} \/ page.ws = w THEN odd \cup {"overtaken"} ELSE odd
    /\ Done(c)
    /\ UNCHANGED <<lock, host, out, page>>

Stop(c) ==
    /\ At(c, "stop", "start") /\ lock = 0
    /\ LET w == call[c].ws IN
         /\ host' = Stopped({slot[w]})
         /\ slot' = [slot EXCEPT ![w] = 0]
         /\ odd' = IF Ensuring(w) # {} \/ page.ws = w THEN odd \cup {"overtaken"} ELSE odd
    /\ Done(c)
    /\ UNCHANGED <<lock, out, page>>

(***************************************************************************)
(* notify_document, for didOpen: it keeps the registry's lock while it     *)
(* waits for the handshake. A document that finds no host is dropped.      *)
(***************************************************************************)
\* Mutant of NotifyDocument: a document that comes during the handshake is dropped.
NotifyUnlessReady(c) ==
    /\ At(c, "open", "start") /\ lock = 0
    /\ LET h == slot[call[c].ws] IN
         IF h = 0 \/ (h # 0 /\ host[h].handshake # "ready") THEN Done(c) /\ UNCHANGED lock
         ELSE /\ call' = [call EXCEPT ![c].at = "handshake", ![c].host = h]
              /\ lock' = c
    /\ UNCHANGED <<slot, host, out, page, odd>>

NotifyDocument(c) ==
    /\ At(c, "open", "start") /\ lock = 0
    /\ LET h == slot[call[c].ws] IN
         IF h = 0 THEN Done(c) /\ UNCHANGED lock
         ELSE /\ call' = [call EXCEPT ![c].at = "handshake", ![c].host = h]
              /\ lock' = c
    /\ UNCHANGED <<slot, host, out, page, odd>>

\* Mutant of Opened: a document does not open the grace window.
OpenedQuietly(h) == host[h].phase

\* document_opened: only an idle host expects a load from now on.
Opened(h) == IF host[h].phase = "idle" THEN "awaiting" ELSE host[h].phase

\* The server may load a project for the document, or know it already.
WriteDocument(c) ==
    /\ At(c, "open", "handshake") /\ host[call[c].host].handshake = "ready"
    /\ LET h == call[c].host IN
         /\ \E load \in {0, 1} :
              host' = IF Runs(h) THEN [host EXCEPT ![h].phase = Opened(h), ![h].opened = TRUE,
                                                   ![h].due = @ + load]
                      ELSE [host EXCEPT ![h].phase = Opened(h)]
         /\ odd' = CASE \E d \in Calls : At(d, "request", "write") /\ call[d].host = h -> Noted("checked")
                     [] host[h].phase \in {"awaiting", "loading"} -> Noted("unseen")
                     [] OTHER -> odd
    /\ lock' = 0 /\ Done(c)
    /\ UNCHANGED <<slot, out, page>>

\* The handshake failed or has not ended in time.
DocumentDropped(c) ==
    /\ At(c, "open", "handshake") /\ host[call[c].host].handshake # "ready"
    /\ lock' = 0 /\ Done(c)
    /\ odd' = Noted("ended")
    /\ UNCHANGED <<slot, host, out, page>>

(***************************************************************************)
(* A request: take the host, wait until it is ready, wait for the          *)
(* handshake, write, wait for the answer. It holds no lock as it waits.    *)
(***************************************************************************)
HostFor(c) ==
    /\ At(c, "request", "start") /\ lock = 0
    /\ LET h == slot[call[c].ws] IN
         IF h = 0 THEN Done(c) ELSE call' = [call EXCEPT ![c].at = "await", ![c].host = h]
    /\ UNCHANGED <<slot, lock, host, out, page, odd>>

AwaitReady(c) ==
    /\ At(c, "request", "await")
    /\ \/ host[call[c].host].phase = "idle" /\ Go(c, "write")
       \/ host[call[c].host].phase = "stopped" /\ Done(c)
    /\ UNCHANGED <<slot, lock, host, out, page, odd>>

\* The grace window has passed without a sign of a load.
GraceEnds(c) ==
    /\ At(c, "request", "await") /\ host[call[c].host].phase = "awaiting"
    /\ LET h == call[c].host IN
         /\ host' = [host EXCEPT ![h].phase = "idle"]
         /\ odd' = IF Loads(h) \/ \E i \in DOMAIN out[h] : out[h][i].kind # "answer"
                   THEN Noted("grace") ELSE odd
    /\ Go(c, "write")
    /\ UNCHANGED <<slot, lock, out, page>>

LimitEnds(c) ==
    /\ At(c, "request", "await") /\ host[call[c].host].phase = "loading"
    /\ Done(c)
    /\ UNCHANGED <<slot, lock, host, out, page, odd>>

WriteRequest(c) ==
    /\ At(c, "request", "write") /\ host[call[c].host].handshake = "ready"
    /\ LET h == call[c].host IN
         IF Runs(h)
         THEN /\ Go(c, "asked")
              /\ host' = [host EXCEPT ![h].asked = @ \cup {[to |-> c, early |-> Loads(h)]}]
         ELSE Done(c) /\ UNCHANGED host
    /\ UNCHANGED <<slot, lock, out, page, odd>>

\* The handshake failed or has not ended in time; or no answer came in time.
RequestFails(c) ==
    /\ \/ At(c, "request", "write") /\ host[call[c].host].handshake # "ready"
       \/ At(c, "request", "asked")
    /\ Done(c)
    /\ UNCHANGED <<slot, lock, host, out, page, odd>>

(***************************************************************************)
(* The page.  Turning to another workspace, or away, stops the host of the *)
(* old one; a file of code asks for the host of the new one. What the page *)
(* takes for ready stays as long as it is mounted.                         *)
(***************************************************************************)
Unheard(base) == [c \in Calls |-> [base[c] EXCEPT !.heard = @ /\ base[c].at \in {"unused", "done"}]]

Turn(w, code) ==
    LET leaves == IF page.ws = Nowhere THEN {} ELSE {page.ws}
        ensures == w # Nowhere /\ code
        stops == IF leaves = {} THEN Unheard(call) ELSE Issued(Unheard(call), First, "stop", page.ws)
        second == IF leaves = {} THEN First ELSE First + 1
    IN  /\ w # page.ws /\ (w = Nowhere => ~code)
        /\ Unused # {} /\ (ensures => second \in Calls)
        /\ call' = IF ensures THEN Issued(stops, second, "ensure", w) ELSE stops
        /\ page' = [ws |-> w, code |-> code, synced |-> FALSE,
                    ready |-> IF w = Nowhere THEN Nowhere ELSE page.ready]
        /\ odd' = IF w # Nowhere /\ page.ready = w THEN Noted("returned") ELSE odd
        /\ UNCHANGED <<slot, lock, host, out>>

\* Another tab of the page becomes the active one.
ActivateTab ==
    /\ page.ws # Nowhere
    /\ ~page.code => Unused # {}
    /\ call' = IF page.code THEN Unheard(call) ELSE Issued(call, First, "ensure", page.ws)
    /\ page' = [page EXCEPT !.code = ~page.code]
    /\ UNCHANGED <<slot, lock, host, out, odd>>

\* The documents of a workspace that is ready are opened, once.
OpenDocument ==
    /\ page.ws # Nowhere /\ page.ready = page.ws /\ page.code /\ Unused # {}
    /\ call' = Issued(call, First, "open", page.ws)
    /\ page' = [page EXCEPT !.synced = TRUE]
    /\ UNCHANGED <<slot, lock, host, out, odd>>

RequestDefinition ==
    /\ page.ws # Nowhere /\ page.code /\ Unused # {}
    /\ call' = Issued(call, First, "request", page.ws)
    /\ UNCHANGED <<slot, lock, host, out, page, odd>>

CallSteps(c) ==
    \/ ReadyStatus(c) \/ StopOtherWorkspaces(c) \/ SpawnFails(c) \/ InsertStatus(c)
    \/ (\E h \in Hosts : SpawnHost(c, h))
    \/ Stop(c)
    \/ NotifyDocument(c) \/ WriteDocument(c) \/ DocumentDropped(c)
    \/ HostFor(c) \/ AwaitReady(c) \/ GraceEnds(c) \/ LimitEnds(c) \/ WriteRequest(c)
    \/ RequestFails(c)

ReaderSteps(h) == HandshakeEnds(h) \/ ReaderEnds(h) \/ ReadMessage(h)

ServerSteps(h) == LoadBegins(h) \/ LoadEnds(h) \/ ServerEnds(h) \/ \E r \in host[h].asked : Answers(h, r)

PageSteps ==
    \/ \E w \in Workspaces \cup {Nowhere}, code \in BOOLEAN : Turn(w, code)
    \/ ActivateTab \/ OpenDocument \/ RequestDefinition

Next ==
    \/ \E c \in Calls : CallSteps(c)
    \/ \E h \in Hosts : ReaderSteps(h) \/ ServerSteps(h)
    \/ PageSteps

Spec == Init /\ [][Next]_vars

(***************************************************************************)
(* Properties                                                              *)
(***************************************************************************)

Settled == lock = 0 /\ \A c \in Calls : call[c].at \in {"unused", "done"}

\* When the page's calls have ended, no server runs but the one of the
\* workspace it shows, unless calls have overtaken each other.
OneServer ==
    Settled /\ "overtaken" \notin odd =>
        \A h \in Hosts : Runs(h) => host[h].ws = page.ws /\ slot[page.ws] = h

\* And what the page takes for open, the server it has was told of.
DocumentsKnown ==
    Settled /\ odd \cap Separations = {} /\ page.synced =>
        slot[page.ws] # 0 /\ host[slot[page.ws]].opened

\* A request takes no answer from a server that loads, but for the slips.
AnswersAfterLoad ==
    \A c \in Calls : call[c].early => odd \cap Slips # {}
=============================================================================
