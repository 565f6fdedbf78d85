-------------------------- MODULE LanguageHostsProofs --------------------------
(***************************************************************************)
(* Theorems about LanguageHosts: for any number of workspaces, servers and *)
(* calls.                                                                  *)
(*                                                                         *)
(* What the host knows of a load and what its server does differ for as    *)
(* long as messages are on their way. Fits says by how much, while nothing *)
(* has slipped: what the phase has to make up for is exactly what is still *)
(* due, under way, or written and not read.                                *)
(*                                                                         *)
(* While no call has overtaken another, every server that runs is in the   *)
(* slot of its workspace or in the hands of the call that starts it, and a *)
(* workspace that has either is shown or about to be stopped (Ours); while *)
(* nothing else separates the page from its server, what the page takes    *)
(* for open was told to that server, or is on its way to it (Known).       *)
(***************************************************************************)
EXTENDS LanguageHosts, SequenceTheorems, TLAPS

Places == Workspaces \cup {Nowhere}

HostTypes == [ws : Places, server : {"unborn", "runs", "dead"},
              reader : {"handshake", "listens", "ended"},
              handshake : {"pending", "ready", "failed"},
              phase : {"idle", "awaiting", "loading", "stopped"},
              opened : BOOLEAN, due : Nat, loading : BOOLEAN,
              asked : SUBSET [to : Calls, early : BOOLEAN]]

MessageTypes == [kind : {"begin", "end", "answer"}, to : 0..MaxCalls, early : BOOLEAN]

CallTypes == [op : {"none", "ensure", "stop", "open", "request"}, ws : Places,
              at : {"unused", "start", "stop others", "spawn", "insert", "handshake",
                    "await", "write", "asked", "done"},
              host : 0..MaxHosts, heard : BOOLEAN, early : BOOLEAN]

\* The types the argument needs: how many loads may be due is not among them.
Typed ==
    /\ slot \in [Workspaces -> 0..MaxHosts]
    /\ host \in [Hosts -> HostTypes]
    /\ out \in [Hosts -> Seq(MessageTypes)]
    /\ call \in [Calls -> CallTypes]
    /\ page \in [ws : Places, code : BOOLEAN, ready : Places, synced : BOOLEAN]

\* A call is for a workspace; one that waits for a host, or has written to it,
\* has one.
GivenFor(r) ==
    /\ r.op # "none" => r.ws \in Workspaces
    /\ r.op = "open" /\ r.at = "handshake" => r.host \in Hosts
    /\ r.op = "request" /\ r.at \in {"await", "write", "asked"} => r.host \in Hosts

Given == \A c \in Calls : GivenFor(call[c])

NoSign(s) == \A i \in 1..Len(s) : s[i].kind = "answer"

OneSign(s, kind) ==
    \E i \in 1..Len(s) :
        /\ s[i].kind = kind
        /\ \A j \in 1..Len(s) : j # i => s[j].kind = "answer"

\* A load has begun and ended, and nothing of it was read.
TwoSigns(s) ==
    \E i, j \in 1..Len(s) :
        /\ i < j /\ s[i].kind = "begin" /\ s[j].kind = "end"
        /\ \A k \in 1..Len(s) : k # i /\ k # j => s[k].kind = "answer"

\* What the phase of a host that runs says of its server and of what this has
\* written; none was told of a document before the handshake was over.
Fits(r, s) ==
    r.server = "runs" =>
        /\ r.phase = "idle" => r.due = 0 /\ ~r.loading /\ NoSign(s)
        /\ r.phase = "awaiting" =>
             \/ ~r.loading /\ r.due \in {0, 1} /\ NoSign(s)
             \/ r.loading /\ r.due = 0 /\ OneSign(s, "begin")
             \/ ~r.loading /\ r.due = 0 /\ TwoSigns(s)
        /\ r.phase = "loading" =>
             /\ r.due = 0
             /\ \/ r.loading /\ NoSign(s)
                \/ ~r.loading /\ OneSign(s, "end")
        /\ r.phase = "stopped" =>
             r.due = 0 /\ ~r.loading /\ r.reader = "ended" /\ r.handshake = "failed"
        /\ r.reader = "handshake" => r.due = 0 /\ ~r.loading /\ r.handshake # "ready"

\* A server that was not started has a fresh host.
Fresh(r, s) ==
    r.server = "unborn" =>
        /\ r.reader = "handshake" /\ r.handshake = "pending" /\ r.phase = "idle"
        /\ r.due = 0 /\ ~r.loading /\ s = <<>>

\* A request that is about to be written was checked, and nothing has begun since.
Checked(c) ==
    call[c].op = "request" /\ call[c].at = "write" /\ host[call[c].host].server = "runs" =>
        host[call[c].host].phase \in {"idle", "stopped"}

\* No answer that was, is or will be on its way comes from a server that loads.
NoneEarly ==
    /\ \A h \in Hosts : \A r \in host[h].asked : ~r.early
    /\ \A h \in Hosts : \A i \in 1..Len(out[h]) : ~out[h][i].early
    /\ \A c \in Calls : ~call[c].early

Steady ==
    /\ \A h \in Hosts : Fits(host[h], out[h]) /\ Fresh(host[h], out[h])
    /\ \A c \in Calls : Checked(c)
    /\ NoneEarly

Slipless == odd \cap Slips = {}

LoadInv == Typed /\ Given /\ (Slipless => Steady)

(***************************************************************************)
(* Messages.                                                               *)
(***************************************************************************)
LEMMA Appended ==
    ASSUME NEW s \in Seq(MessageTypes), NEW m \in MessageTypes
    PROVE  /\ Append(s, m) \in Seq(MessageTypes)
           /\ Len(s) \in Nat /\ Len(Append(s, m)) = Len(s) + 1
           /\ Append(s, m)[Len(s) + 1] = m
           /\ \A i \in 1..Len(s) : Append(s, m)[i] = s[i]
  BY AppendProperties, LenProperties

LEMMA SignsAppended ==
    ASSUME NEW s \in Seq(MessageTypes), NEW m \in MessageTypes
    PROVE  /\ m.kind = "answer" /\ NoSign(s) => NoSign(Append(s, m))
           /\ \A kind \in {"begin", "end"} :
                m.kind = "answer" /\ OneSign(s, kind) => OneSign(Append(s, m), kind)
           /\ m.kind = "answer" /\ TwoSigns(s) => TwoSigns(Append(s, m))
           /\ \A kind \in {"begin", "end"} :
                m.kind = kind /\ NoSign(s) => OneSign(Append(s, m), kind)
           /\ m.kind = "end" /\ OneSign(s, "begin") => TwoSigns(Append(s, m))
  <1> DEFINE t == Append(s, m)
  <1>1. /\ Len(s) \in Nat /\ Len(t) = Len(s) + 1 /\ t[Len(s) + 1] = m
        /\ \A i \in 1..Len(s) : t[i] = s[i]
    BY Appended
  <1>2. 1..Len(t) = 1..Len(s) \cup {Len(s) + 1} /\ Len(s) + 1 \notin 1..Len(s)
    BY <1>1
  <1> HIDE DEF t
  <1>3. m.kind = "answer" /\ NoSign(s) => NoSign(t)
    BY <1>1, <1>2 DEF NoSign
  <1>4. ASSUME NEW kind \in {"begin", "end"}, m.kind = "answer", OneSign(s, kind)
        PROVE  OneSign(t, kind)
    <2>1. PICK i \in 1..Len(s) : /\ s[i].kind = kind
                                 /\ \A j \in 1..Len(s) : j # i => s[j].kind = "answer"
      BY <1>4 DEF OneSign
    <2>2. i \in 1..Len(t) /\ t[i].kind = kind
      BY <2>1, <1>1, <1>2
    <2>3. \A j \in 1..Len(t) : j # i => t[j].kind = "answer"
      BY <2>1, <1>1, <1>2, <1>4
    <2> QED
      BY <2>2, <2>3 DEF OneSign
  <1>5. ASSUME m.kind = "answer", TwoSigns(s)
        PROVE  TwoSigns(t)
    <2>1. PICK i \in 1..Len(s), j \in 1..Len(s) :
            /\ i < j /\ s[i].kind = "begin" /\ s[j].kind = "end"
            /\ \A k \in 1..Len(s) : k # i /\ k # j => s[k].kind = "answer"
      BY <1>5 DEF TwoSigns
    <2>2. /\ i \in 1..Len(t) /\ j \in 1..Len(t)
          /\ t[i].kind = "begin" /\ t[j].kind = "end"
      BY <2>1, <1>1, <1>2
    <2>3. \A k \in 1..Len(t) : k # i /\ k # j => t[k].kind = "answer"
      BY <2>1, <1>1, <1>2, <1>5
    <2> QED
      BY <2>1, <2>2, <2>3 DEF TwoSigns
  <1>6. ASSUME NEW kind \in {"begin", "end"}, m.kind = kind, NoSign(s)
        PROVE  OneSign(t, kind)
    <2>1. Len(s) + 1 \in 1..Len(t) /\ t[Len(s) + 1].kind = kind
      BY <1>1, <1>2, <1>6
    <2>2. \A j \in 1..Len(t) : j # Len(s) + 1 => t[j].kind = "answer"
      BY <1>1, <1>2, <1>6 DEF NoSign
    <2> QED
      BY <2>1, <2>2 DEF OneSign
  <1>7. ASSUME m.kind = "end", OneSign(s, "begin")
        PROVE  TwoSigns(t)
    <2>1. PICK i \in 1..Len(s) : /\ s[i].kind = "begin"
                                 /\ \A j \in 1..Len(s) : j # i => s[j].kind = "answer"
      BY <1>7 DEF OneSign
    <2>2. /\ i \in 1..Len(t) /\ Len(s) + 1 \in 1..Len(t) /\ i < Len(s) + 1
          /\ t[i].kind = "begin" /\ t[Len(s) + 1].kind = "end"
      BY <2>1, <1>1, <1>2, <1>7
    <2>3. \A k \in 1..Len(t) : k # i /\ k # Len(s) + 1 => t[k].kind = "answer"
      BY <2>1, <1>1, <1>2
    <2> QED
      BY <2>2, <2>3 DEF TwoSigns
  <1> QED
    BY <1>3, <1>4, <1>5, <1>6, <1>7 DEF t

LEMMA Read ==
    ASSUME NEW s \in Seq(MessageTypes), s # <<>>
    PROVE  /\ Tail(s) \in Seq(MessageTypes) /\ Head(s) = s[1] /\ Head(s) \in MessageTypes
           /\ Len(s) \in Nat \ {0} /\ Len(Tail(s)) = Len(s) - 1
           /\ \A i \in 1..(Len(s) - 1) : Tail(s)[i] = s[i + 1]
  <1>1. Len(s) \in Nat \ {0}
    BY LenProperties, EmptySeq
  <1> QED
    BY <1>1, HeadTailProperties

\* Reading a sequence with no, one or two signs.
LEMMA SignsRead ==
    ASSUME NEW s \in Seq(MessageTypes), s # <<>>
    PROVE  /\ NoSign(s) => Head(s).kind = "answer" /\ NoSign(Tail(s))
           /\ \A kind \in {"begin", "end"} :
                OneSign(s, kind) => \/ Head(s).kind = kind /\ NoSign(Tail(s))
                                    \/ Head(s).kind = "answer" /\ OneSign(Tail(s), kind)
           /\ TwoSigns(s) => \/ Head(s).kind = "begin" /\ OneSign(Tail(s), "end")
                             \/ Head(s).kind = "answer" /\ TwoSigns(Tail(s))
  <1> DEFINE t == Tail(s)
  <1>1. /\ Head(s) = s[1] /\ Len(s) \in Nat \ {0} /\ Len(t) = Len(s) - 1
        /\ \A i \in 1..(Len(s) - 1) : t[i] = s[i + 1]
    BY Read
  <1> HIDE DEF t
  <1>2. /\ 1 \in 1..Len(s)
        /\ \A i \in 1..Len(t) : i + 1 \in 1..Len(s) /\ i + 1 # 1 /\ t[i] = s[i + 1]
        /\ \A i \in 1..Len(s) : i # 1 => i - 1 \in 1..Len(t) /\ t[i - 1] = s[i]
    BY <1>1
  <1>3. NoSign(s) => Head(s).kind = "answer" /\ NoSign(t)
    BY <1>1, <1>2 DEF NoSign
  <1>4. ASSUME NEW kind \in {"begin", "end"}, OneSign(s, kind)
        PROVE  \/ Head(s).kind = kind /\ NoSign(t)
               \/ Head(s).kind = "answer" /\ OneSign(t, kind)
    <2>1. PICK i \in 1..Len(s) : /\ s[i].kind = kind
                                 /\ \A j \in 1..Len(s) : j # i => s[j].kind = "answer"
      BY <1>4 DEF OneSign
    <2>2. CASE i = 1
      BY <2>1, <2>2, <1>1, <1>2 DEF NoSign
    <2>3. CASE i # 1
      <3>1. i - 1 \in 1..Len(t) /\ t[i - 1].kind = kind /\ Head(s).kind = "answer"
        BY <2>1, <2>3, <1>1, <1>2
      <3>2. \A j \in 1..Len(t) : j # i - 1 => t[j].kind = "answer"
        <4> TAKE j \in 1..Len(t)
        <4> HAVE j # i - 1
        <4>1. j + 1 # i /\ j + 1 \in 1..Len(s) /\ t[j] = s[j + 1]
          BY <1>2
        <4> QED
          BY <4>1, <2>1
      <3> QED
        BY <3>1, <3>2 DEF OneSign
    <2> QED
      BY <2>2, <2>3
  <1>5. ASSUME TwoSigns(s)
        PROVE  \/ Head(s).kind = "begin" /\ OneSign(t, "end")
               \/ Head(s).kind = "answer" /\ TwoSigns(t)
    <2>1. PICK i \in 1..Len(s), j \in 1..Len(s) :
            /\ i < j /\ s[i].kind = "begin" /\ s[j].kind = "end"
            /\ \A k \in 1..Len(s) : k # i /\ k # j => s[k].kind = "answer"
      BY <1>5 DEF TwoSigns
    <2>2. j - 1 \in 1..Len(t) /\ t[j - 1].kind = "end"
      BY <2>1, <1>1, <1>2
    <2>3. CASE i = 1
      <3>1. \A k \in 1..Len(t) : k # j - 1 => t[k].kind = "answer"
        <4> TAKE k \in 1..Len(t)
        <4> HAVE k # j - 1
        <4>1. k + 1 # j /\ k + 1 # i /\ k + 1 \in 1..Len(s) /\ t[k] = s[k + 1]
          BY <1>2, <2>3
        <4> QED
          BY <4>1, <2>1
      <3> QED
        BY <3>1, <2>1, <2>2, <2>3, <1>1 DEF OneSign
    <2>4. CASE i # 1
      <3>1. i - 1 \in 1..Len(t) /\ t[i - 1].kind = "begin" /\ i - 1 < j - 1
        BY <2>1, <2>4, <1>2
      <3>2. \A k \in 1..Len(t) : k # i - 1 /\ k # j - 1 => t[k].kind = "answer"
        <4> TAKE k \in 1..Len(t)
        <4> HAVE k # i - 1 /\ k # j - 1
        <4>1. k + 1 # j /\ k + 1 # i /\ k + 1 \in 1..Len(s) /\ t[k] = s[k + 1]
          BY <1>2
        <4> QED
          BY <4>1, <2>1
      <3>3. Head(s).kind = "answer"
        BY <2>1, <2>4, <1>1, <1>2
      <3> QED
        BY <3>1, <3>2, <3>3, <2>2 DEF TwoSigns
    <2> QED
      BY <2>3, <2>4
  <1> QED
    BY <1>3, <1>4, <1>5 DEF t
(***************************************************************************)
(* Types.                                                                  *)
(***************************************************************************)
LEMMA NoCallTyped ==
    /\ NoCall \in CallTypes /\ NoCall.host = 0 /\ NoCall.early = FALSE
    /\ \A early \in BOOLEAN :
         /\ Ended(early) \in CallTypes /\ Ended(early).early = early
         /\ Ended(early).op = "none" /\ Ended(early).at = "done"
  <1>1. NoCall \in CallTypes
    <2>1. 0 \in 0..MaxHosts /\ Nowhere \in Places
      BY HostsAssumption DEF Places
    <2> QED
      BY <2>1 DEF NoCall, CallTypes
  <1>2. ASSUME NEW early \in BOOLEAN
        PROVE  /\ Ended(early) \in CallTypes /\ Ended(early).early = early
               /\ Ended(early).op = "none" /\ Ended(early).at = "done"
    BY <1>1, <1>2 DEF Ended, CallTypes, NoCall
  <1> QED
    BY <1>1, <1>2 DEF NoCall

LEMMA GoTyped ==
    ASSUME call \in [Calls -> CallTypes], NEW c \in Calls,
           NEW at \in {"stop others", "spawn", "insert", "await", "write", "asked"}, Go(c, at)
    PROVE  /\ call' \in [Calls -> CallTypes]
           /\ call'[c] = [call[c] EXCEPT !.at = at]
           /\ \A d \in Calls \ {c} : call'[d] = call[d]
  BY DEF Go, CallTypes

LEMMA DoneTyped ==
    ASSUME call \in [Calls -> CallTypes], NEW c \in Calls, Done(c)
    PROVE  /\ call' \in [Calls -> CallTypes]
           /\ call'[c] = Ended(FALSE)
           /\ \A d \in Calls \ {c} : call'[d] = call[d]
  BY NoCallTyped DEF Done

LEMMA UnheardTyped ==
    ASSUME call \in [Calls -> CallTypes]
    PROVE  /\ Unheard(call) \in [Calls -> CallTypes]
           /\ \A c \in Calls : /\ Unheard(call)[c].op = call[c].op
                               /\ Unheard(call)[c].ws = call[c].ws
                               /\ Unheard(call)[c].at = call[c].at
                               /\ Unheard(call)[c].host = call[c].host
                               /\ Unheard(call)[c].early = call[c].early
  BY DEF Unheard, CallTypes

LEMMA IssuedTyped ==
    ASSUME NEW base \in [Calls -> CallTypes], NEW n, NEW w \in Workspaces,
           NEW op \in {"ensure", "stop", "open", "request"}
    PROVE  /\ Issued(base, n, op, w) \in [Calls -> CallTypes]
           /\ \A c \in Calls : \/ Issued(base, n, op, w)[c] = base[c]
                               \/ /\ Issued(base, n, op, w)[c].at = "start"
                                  /\ Issued(base, n, op, w)[c].ws = w
                                  /\ Issued(base, n, op, w)[c].host = 0
                                  /\ ~Issued(base, n, op, w)[c].early
  <1> DEFINE new == [NoCall EXCEPT !.op = op, !.ws = w, !.at = "start"]
  <1>1. new \in CallTypes /\ new.at = "start" /\ new.ws = w /\ new.host = 0 /\ ~new.early
    BY NoCallTyped DEF CallTypes, Places
  <1> HIDE DEF new
  <1>2. Issued(base, n, op, w) = [c \in Calls |-> IF c = n THEN new ELSE base[c]]
    BY DEF Issued, new
  <1> QED
    BY <1>1, <1>2

\* What the steps do to a host leaves it one.
LEMMA ChangesTyped ==
    ASSUME NEW r \in HostTypes
    PROVE  /\ \A ws \in Places : [r EXCEPT !.server = "runs", !.ws = ws] \in HostTypes
           /\ \A phase \in {"idle", "awaiting", "loading", "stopped"} :
                /\ [r EXCEPT !.phase = phase] \in HostTypes
                /\ \A due \in Nat : [r EXCEPT !.phase = phase, !.opened = TRUE, !.due = due] \in HostTypes
           /\ [r EXCEPT !.reader = "listens", !.handshake = "ready"] \in HostTypes
           /\ \A handshake \in {"pending", "ready", "failed"} :
                [r EXCEPT !.reader = "ended", !.phase = "stopped", !.handshake = handshake] \in HostTypes
           /\ \A due \in Nat : [r EXCEPT !.due = due, !.loading = TRUE] \in HostTypes
           /\ [r EXCEPT !.loading = FALSE] \in HostTypes
           /\ \A asked \in SUBSET [to : Calls, early : BOOLEAN] :
                [r EXCEPT !.asked = asked] \in HostTypes
  BY DEF HostTypes

\* A host gets other values.
LEMMA HostTyped ==
    ASSUME host \in [Hosts -> HostTypes], NEW h \in Hosts, NEW r \in HostTypes,
           host' = [host EXCEPT ![h] = r]
    PROVE  /\ host' \in [Hosts -> HostTypes] /\ host'[h] = r
           /\ \A g \in Hosts \ {h} : host'[g] = host[g]
  OBVIOUS

LEMMA KilledTyped ==
    ASSUME host \in [Hosts -> HostTypes], NEW h \in Hosts
    PROVE  /\ Killed(h) \in HostTypes /\ Killed(h).server = "dead" /\ Killed(h).asked = {}
           /\ Killed(h).phase = host[h].phase
  <1>1. host[h] \in HostTypes
    OBVIOUS
  <1>2. 0 \in Nat /\ {} \in SUBSET [to : Calls, early : BOOLEAN]
    OBVIOUS
  <1> QED
    BY <1>1, <1>2 DEF Killed, HostTypes

\* Hosts are stopped: those of the set are dead.
LEMMA StoppedTyped ==
    ASSUME host \in [Hosts -> HostTypes], NEW hs
    PROVE  /\ Stopped(hs) \in [Hosts -> HostTypes]
           /\ \A h \in Hosts : \/ Stopped(hs)[h] = host[h]
                               \/ Stopped(hs)[h].server = "dead" /\ Stopped(hs)[h].asked = {}
  <1>1. ASSUME NEW r \in HostTypes, NEW t,
               t = [r EXCEPT !.phase = "stopped", !.handshake = "failed"]
        PROVE  t \in HostTypes /\ t.server = r.server /\ t.asked = r.asked
    BY <1>1 DEF HostTypes
  <1>2. ASSUME NEW h \in Hosts, NEW t,
               t = [Killed(h) EXCEPT !.phase = "stopped", !.handshake = "failed"]
        PROVE  t \in HostTypes /\ t.server = "dead" /\ t.asked = {}
    BY <1>1, <1>2, KilledTyped
  <1>3. ASSUME NEW h \in Hosts
        PROVE  /\ Stopped(hs)[h] \in HostTypes
               /\ \/ Stopped(hs)[h] = host[h]
                  \/ Stopped(hs)[h].server = "dead" /\ Stopped(hs)[h].asked = {}
    BY <1>2 DEF Stopped
  <1>4. Stopped(hs) = [h \in Hosts |-> Stopped(hs)[h]]
    BY DEF Stopped
  <1> QED
    BY <1>3, <1>4

LEMMA SaysTyped ==
    ASSUME out \in [Hosts -> Seq(MessageTypes)], NEW h \in Hosts,
           NEW kind \in {"begin", "end", "answer"}, NEW c \in 0..MaxCalls, NEW early \in BOOLEAN,
           Says(h, kind, c, early)
    PROVE  LET m == [kind |-> kind, to |-> c, early |-> early]
           IN  /\ m \in MessageTypes /\ out[h] \in Seq(MessageTypes)
               /\ out' \in [Hosts -> Seq(MessageTypes)]
               /\ out'[h] = Append(out[h], m)
               /\ \A g \in Hosts \ {h} : out'[g] = out[g]
  <1> DEFINE m == [kind |-> kind, to |-> c, early |-> early]
  <1>1. m \in MessageTypes /\ out[h] \in Seq(MessageTypes)
    BY DEF MessageTypes
  <1>2. Append(out[h], m) \in Seq(MessageTypes)
    BY <1>1, Appended
  <1> QED
    BY <1>1, <1>2 DEF Says

\* A step keeps the types, and calls have the hosts they wait for.
LEMMA TypedStep ==
    ASSUME Typed, Given, Next
    PROVE  Typed' /\ Given'
  <1>t. /\ host \in [Hosts -> HostTypes] /\ call \in [Calls -> CallTypes]
        /\ out \in [Hosts -> Seq(MessageTypes)] /\ slot \in [Workspaces -> 0..MaxHosts]
        /\ page \in [ws : Places, code : BOOLEAN, ready : Places, synced : BOOLEAN]
    BY DEF Typed
  <1>c. \A c \in Calls : /\ call[c].ws \in Places /\ call[c].host \in 0..MaxHosts
                         /\ call[c].early \in BOOLEAN
    BY <1>t DEF CallTypes
  <1>0. ASSUME NEW c \in Calls, NEW ready \in Places
        PROVE  Told(c, ready) \in [ws : Places, code : BOOLEAN, ready : Places, synced : BOOLEAN]
    BY <1>t DEF Told
  \* Calls that end, and calls that go on where nothing is given.
  <1>done. ASSUME NEW c \in Calls, Done(c)
           PROVE  call' \in [Calls -> CallTypes] /\ Given'
    BY <1>done, <1>t, DoneTyped, NoCallTyped DEF Given, GivenFor
  <1>go. ASSUME NEW c \in Calls, NEW at \in {"stop others", "spawn", "insert"}, Go(c, at)
         PROVE  call' \in [Calls -> CallTypes] /\ Given'
    <2>1. /\ call' \in [Calls -> CallTypes] /\ call'[c] = [call[c] EXCEPT !.at = at]
          /\ \A d \in Calls \ {c} : call'[d] = call[d]
      BY <1>go, <1>t, GoTyped
    <2>2. call[c] \in CallTypes /\ GivenFor(call[c])
      BY <1>t DEF Given
    <2>3. GivenFor(call'[c])
      BY <2>1, <2>2, <1>go DEF GivenFor, CallTypes
    <2>4. \A d \in Calls \ {c} : GivenFor(call'[d])
      BY <2>1 DEF Given, GivenFor
    <2> QED
      BY <2>1, <2>3, <2>4 DEF Given, GivenFor
  <1>goes. ASSUME NEW c \in Calls, NEW at \in {"write", "asked"}, Go(c, at),
                  call[c].op = "request", call[c].at \in {"await", "write"}
           PROVE  call' \in [Calls -> CallTypes] /\ Given'
    <2>1. /\ call' \in [Calls -> CallTypes] /\ call'[c] = [call[c] EXCEPT !.at = at]
          /\ \A d \in Calls \ {c} : call'[d] = call[d]
      BY <1>goes, <1>t, GoTyped
    <2>2. call[c] \in CallTypes /\ GivenFor(call[c])
      BY <1>t DEF Given
    <2>3. GivenFor(call'[c])
      BY <2>1, <2>2, <1>goes DEF GivenFor, CallTypes
    <2>4. \A d \in Calls \ {c} : GivenFor(call'[d])
      BY <2>1 DEF Given, GivenFor
    <2> QED
      BY <2>1, <2>3, <2>4 DEF Given, GivenFor
  <1>kept. ASSUME UNCHANGED call
           PROVE  call' \in [Calls -> CallTypes] /\ Given'
    BY <1>kept, <1>t DEF Given, GivenFor
  <1>1. ASSUME NEW c \in Calls, ReadyStatus(c) PROVE Typed' /\ Given'
    <2>1. call' \in [Calls -> CallTypes] /\ Given'
      BY <1>1, <1>done, <1>go DEF ReadyStatus
    <2>2. page' \in [ws : Places, code : BOOLEAN, ready : Places, synced : BOOLEAN]
      BY <1>1, <1>0, <1>c, <1>t DEF ReadyStatus
    <2> QED
      BY <2>1, <2>2, <1>1, <1>t DEF ReadyStatus, Typed
  <1>2. ASSUME NEW c \in Calls, StopOtherWorkspaces(c) PROVE Typed' /\ Given'
    <2>1. call' \in [Calls -> CallTypes] /\ Given'
      BY <1>2, <1>go DEF StopOtherWorkspaces
    <2>2. host' \in [Hosts -> HostTypes]
      BY <1>2, <1>t, StoppedTyped DEF StopOtherWorkspaces
    <2>3. slot' \in [Workspaces -> 0..MaxHosts]
      <3>1. 0 \in 0..MaxHosts
        BY HostsAssumption
      <3> QED
        BY <3>1, <1>2, <1>t DEF StopOtherWorkspaces
    <2> QED
      BY <2>1, <2>2, <2>3, <1>2, <1>t DEF StopOtherWorkspaces, Typed
  <1>3. ASSUME NEW c \in Calls, NEW h \in Hosts, SpawnHost(c, h) PROVE Typed' /\ Given'
    <2>1. /\ call' \in [Calls -> CallTypes] /\ Given'
      <3>1. h \in 0..MaxHosts /\ call[c].op = "ensure"
        BY <1>3, HostsAssumption DEF SpawnHost, At, Hosts
      <3>2. call' = [call EXCEPT ![c] = [call[c] EXCEPT !.at = "insert", !.host = h]]
        BY <1>3, <1>t DEF SpawnHost
      <3>3. [call[c] EXCEPT !.at = "insert", !.host = h] \in CallTypes
        BY <3>1, <1>t DEF CallTypes
      <3> QED
        BY <3>1, <3>2, <3>3, <1>t DEF Given, GivenFor, CallTypes
    <2>2. host' \in [Hosts -> HostTypes]
      <3>1. host' = [host EXCEPT ![h] = [host[h] EXCEPT !.server = "runs", !.ws = call[c].ws]]
        BY <1>3, <1>t DEF SpawnHost
      <3>2. [host[h] EXCEPT !.server = "runs", !.ws = call[c].ws] \in HostTypes
        BY <1>t, <1>c, ChangesTyped
      <3> QED
        BY <3>1, <3>2, <1>t
    <2> QED
      BY <2>1, <2>2, <1>3, <1>t DEF SpawnHost, Typed
  <1>4. ASSUME NEW c \in Calls, SpawnFails(c) PROVE Typed' /\ Given'
    BY <1>4, <1>go, <1>t DEF SpawnFails, Typed
  <1>5. ASSUME NEW c \in Calls, InsertStatus(c) PROVE Typed' /\ Given'
    <2>1. call' \in [Calls -> CallTypes] /\ Given'
      BY <1>5, <1>done DEF InsertStatus
    <2>2. host' \in [Hosts -> HostTypes]
      BY <1>5, <1>t, StoppedTyped DEF InsertStatus
    <2>3. slot' \in [Workspaces -> 0..MaxHosts]
      BY <1>5, <1>t, <1>c DEF InsertStatus
    <2>4. page' \in [ws : Places, code : BOOLEAN, ready : Places, synced : BOOLEAN]
      BY <1>5, <1>0, <1>c DEF InsertStatus, Places
    <2> QED
      BY <2>1, <2>2, <2>3, <2>4, <1>5, <1>t DEF InsertStatus, Typed
  <1>6. ASSUME NEW c \in Calls, Stop(c) PROVE Typed' /\ Given'
    <2>1. call' \in [Calls -> CallTypes] /\ Given'
      BY <1>6, <1>done DEF Stop
    <2>2. host' \in [Hosts -> HostTypes]
      BY <1>6, <1>t, StoppedTyped DEF Stop
    <2>3. slot' \in [Workspaces -> 0..MaxHosts]
      <3>1. 0 \in 0..MaxHosts
        BY HostsAssumption
      <3> QED
        BY <3>1, <1>6, <1>t DEF Stop
    <2> QED
      BY <2>1, <2>2, <2>3, <1>6, <1>t DEF Stop, Typed
  <1>7. ASSUME NEW c \in Calls, NotifyDocument(c) PROVE Typed' /\ Given'
    <2>1. CASE Done(c)
      BY <2>1, <1>7, <1>done, <1>t DEF NotifyDocument, Typed
    <2>2. CASE ~Done(c)
      <3>1. /\ slot[call[c].ws] # 0 /\ call[c].op = "open"
            /\ call' = [call EXCEPT ![c].at = "handshake", ![c].host = slot[call[c].ws]]
        BY <1>7, <2>2 DEF NotifyDocument, At
      <3>2. call[c].ws \in Workspaces
        BY <3>1 DEF Given, GivenFor
      <3>3. slot[call[c].ws] \in Hosts /\ slot[call[c].ws] \in 0..MaxHosts
        BY <3>1, <3>2, <1>t, HostsAssumption DEF Hosts
      <3>4. /\ call' = [call EXCEPT ![c] = [call[c] EXCEPT !.at = "handshake", !.host = slot[call[c].ws]]]
            /\ [call[c] EXCEPT !.at = "handshake", !.host = slot[call[c].ws]] \in CallTypes
        BY <3>1, <3>3, <1>t DEF CallTypes
      <3>5. call' \in [Calls -> CallTypes] /\ Given'
        <4> DEFINE new == [call[c] EXCEPT !.at = "handshake", !.host = slot[call[c].ws]]
        <4>1. call[c] \in CallTypes
          BY <1>t
        <4>2. new.op = call[c].op /\ new.ws = call[c].ws /\ new.at = "handshake" /\ new.host = slot[call[c].ws]
          BY <4>1 DEF CallTypes
        <4>3. new \in CallTypes /\ call' = [call EXCEPT ![c] = new]
          BY <3>4
        <4> HIDE DEF new
        <4>4. GivenFor(new)
          BY <4>2, <3>1, <3>2, <3>3 DEF GivenFor
        <4> QED
          BY <4>3, <4>4, <1>t DEF Given, GivenFor
      <3> QED
        BY <3>5, <1>7, <1>t DEF NotifyDocument, Typed
    <2> QED
      BY <2>1, <2>2
  <1>8. ASSUME NEW c \in Calls, WriteDocument(c) PROVE Typed' /\ Given'
    <2>1. call' \in [Calls -> CallTypes] /\ Given'
      BY <1>8, <1>done DEF WriteDocument
    <2>2. call[c].host \in Hosts
      BY <1>8 DEF WriteDocument, At, Given, GivenFor
    <2>3. Opened(call[c].host) \in {"idle", "awaiting", "loading", "stopped"}
      BY <2>2, <1>t DEF Opened, HostTypes
    <2>4. host' \in [Hosts -> HostTypes]
      <3>1. PICK load \in {0, 1} :
              host' = IF Runs(call[c].host)
                      THEN [host EXCEPT ![call[c].host].phase = Opened(call[c].host),
                                        ![call[c].host].opened = TRUE,
                                        ![call[c].host].due = @ + load]
                      ELSE [host EXCEPT ![call[c].host].phase = Opened(call[c].host)]
        BY <1>8 DEF WriteDocument
      <3> DEFINE h == call[c].host
      <3>2. host[h] \in HostTypes /\ host[h].due + load \in Nat
        BY <2>2, <1>t DEF HostTypes
      <3>3. CASE Runs(h)
        <4>1. host' = [host EXCEPT ![h] = [host[h] EXCEPT !.phase = Opened(h), !.opened = TRUE,
                                                          !.due = host[h].due + load]]
          BY <3>1, <3>3, <2>2, <1>t DEF HostTypes
        <4>2. [host[h] EXCEPT !.phase = Opened(h), !.opened = TRUE, !.due = host[h].due + load]
              \in HostTypes
          BY <3>2, <2>3, ChangesTyped
        <4> QED
          BY <4>1, <4>2, <2>2, <1>t
      <3>4. CASE ~Runs(h)
        <4>1. host' = [host EXCEPT ![h] = [host[h] EXCEPT !.phase = Opened(h)]]
          BY <3>1, <3>4, <2>2, <1>t DEF HostTypes
        <4>2. [host[h] EXCEPT !.phase = Opened(h)] \in HostTypes
          BY <3>2, <2>3, ChangesTyped
        <4> QED
          BY <4>1, <4>2, <2>2, <1>t
      <3> QED
        BY <3>3, <3>4
    <2> QED
      BY <2>1, <2>4, <1>8, <1>t DEF WriteDocument, Typed
  <1>9. ASSUME NEW c \in Calls, DocumentDropped(c) PROVE Typed' /\ Given'
    BY <1>9, <1>done, <1>t DEF DocumentDropped, Typed
  <1>10. ASSUME NEW c \in Calls, HostFor(c) PROVE Typed' /\ Given'
    <2>1. CASE Done(c)
      BY <2>1, <1>10, <1>done, <1>t DEF HostFor, Typed
    <2>2. CASE ~Done(c)
      <3>1. /\ slot[call[c].ws] # 0 /\ call[c].op = "request"
            /\ call' = [call EXCEPT ![c].at = "await", ![c].host = slot[call[c].ws]]
        BY <1>10, <2>2 DEF HostFor, At
      <3>2. call[c].ws \in Workspaces
        BY <3>1 DEF Given, GivenFor
      <3>3. slot[call[c].ws] \in Hosts /\ slot[call[c].ws] \in 0..MaxHosts
        BY <3>1, <3>2, <1>t, HostsAssumption DEF Hosts
      <3>4. /\ call' = [call EXCEPT ![c] = [call[c] EXCEPT !.at = "await", !.host = slot[call[c].ws]]]
            /\ [call[c] EXCEPT !.at = "await", !.host = slot[call[c].ws]] \in CallTypes
        BY <3>1, <3>3, <1>t DEF CallTypes
      <3>5. call' \in [Calls -> CallTypes] /\ Given'
        <4> DEFINE new == [call[c] EXCEPT !.at = "await", !.host = slot[call[c].ws]]
        <4>1. call[c] \in CallTypes
          BY <1>t
        <4>2. new.op = call[c].op /\ new.ws = call[c].ws /\ new.at = "await" /\ new.host = slot[call[c].ws]
          BY <4>1 DEF CallTypes
        <4>3. new \in CallTypes /\ call' = [call EXCEPT ![c] = new]
          BY <3>4
        <4> HIDE DEF new
        <4>4. GivenFor(new)
          BY <4>2, <3>1, <3>2, <3>3 DEF GivenFor
        <4> QED
          BY <4>3, <4>4, <1>t DEF Given, GivenFor
      <3> QED
        BY <3>5, <1>10, <1>t DEF HostFor, Typed
    <2> QED
      BY <2>1, <2>2
  <1>11. ASSUME NEW c \in Calls, AwaitReady(c) PROVE Typed' /\ Given'
    <2>1. call' \in [Calls -> CallTypes] /\ Given'
      BY <1>11, <1>done, <1>goes DEF AwaitReady, At
    <2> QED
      BY <2>1, <1>11, <1>t DEF AwaitReady, Typed
  <1>12. ASSUME NEW c \in Calls, GraceEnds(c) PROVE Typed' /\ Given'
    <2>1. call' \in [Calls -> CallTypes] /\ Given'
      BY <1>12, <1>goes DEF GraceEnds, At
    <2>2. call[c].host \in Hosts
      BY <1>12 DEF GraceEnds, At, Given, GivenFor
    <2>3. host' = [host EXCEPT ![call[c].host].phase = "idle"]
      BY <1>12 DEF GraceEnds
    <2>4. host' \in [Hosts -> HostTypes]
      <3>1. host' = [host EXCEPT ![call[c].host] = [host[call[c].host] EXCEPT !.phase = "idle"]]
        BY <2>2, <2>3, <1>t DEF HostTypes
      <3>2. [host[call[c].host] EXCEPT !.phase = "idle"] \in HostTypes
        BY <2>2, <1>t, ChangesTyped
      <3> QED
        BY <3>1, <3>2, <1>t
    <2> QED
      BY <2>1, <2>4, <1>12, <1>t DEF GraceEnds, Typed
  <1>13. ASSUME NEW c \in Calls, LimitEnds(c) PROVE Typed' /\ Given'
    BY <1>13, <1>done, <1>t DEF LimitEnds, Typed
  <1>14. ASSUME NEW c \in Calls, WriteRequest(c) PROVE Typed' /\ Given'
    <2>1. call' \in [Calls -> CallTypes] /\ Given'
      BY <1>14, <1>done, <1>goes DEF WriteRequest, At
    <2>2. call[c].host \in Hosts
      BY <1>14 DEF WriteRequest, At, Given, GivenFor
    <2>3. host' \in [Hosts -> HostTypes]
      <3>1. CASE host' = host
        BY <3>1, <1>t
      <3>2. CASE host' # host
        <4> DEFINE h == call[c].host
                   request == [to |-> c, early |-> Loads(h)]
        <4>1. host' = [host EXCEPT ![h].asked = @ \cup {request}]
          BY <1>14, <3>2 DEF WriteRequest
        <4>2. request \in [to : Calls, early : BOOLEAN]
          BY DEF Loads
        <4> HIDE DEF request
        <4>3. host[h].asked \cup {request} \in SUBSET [to : Calls, early : BOOLEAN]
          BY <4>2, <2>2, <1>t DEF HostTypes
        <4>4. [host[h] EXCEPT !.asked = host[h].asked \cup {request}] \in HostTypes
          BY <4>3, <2>2, <1>t, ChangesTyped
        <4>5. host' = [host EXCEPT ![h] = [host[h] EXCEPT !.asked = host[h].asked \cup {request}]]
          BY <4>1, <2>2, <1>t DEF HostTypes
        <4> QED
          BY <4>4, <4>5, <1>t
      <3> QED
        BY <3>1, <3>2
    <2> QED
      BY <2>1, <2>3, <1>14, <1>t DEF WriteRequest, Typed
  <1>15. ASSUME NEW c \in Calls, RequestFails(c) PROVE Typed' /\ Given'
    BY <1>15, <1>done, <1>t DEF RequestFails, Typed
  <1>16. ASSUME NEW h \in Hosts, HandshakeEnds(h) PROVE Typed' /\ Given'
    <2>1. host' = [host EXCEPT ![h].reader = "listens", ![h].handshake = "ready"]
      BY <1>16 DEF HandshakeEnds
    <2>2. host' \in [Hosts -> HostTypes]
      <3>1. host' = [host EXCEPT ![h] = [host[h] EXCEPT !.reader = "listens", !.handshake = "ready"]]
        BY <2>1, <1>t DEF HostTypes
      <3>2. [host[h] EXCEPT !.reader = "listens", !.handshake = "ready"] \in HostTypes
        BY <2>1, <1>t, ChangesTyped
      <3> QED
        BY <3>1, <3>2, <1>t
    <2> QED
      BY <2>2, <1>16, <1>kept, <1>t DEF HandshakeEnds, Typed
  <1>17. ASSUME NEW h \in Hosts, ReaderEnds(h) PROVE Typed' /\ Given'
    <2>1. PICK handshake \in {"pending", "ready", "failed"} :
            host' = [host EXCEPT ![h].reader = "ended", ![h].phase = "stopped",
                                 ![h].handshake = handshake]
      <3>1. host[h].handshake \in {"pending", "ready", "failed"}
        BY <1>t DEF HostTypes
      <3> QED
        BY <3>1, <1>17, <1>t DEF ReaderEnds
    <2>2. host' \in [Hosts -> HostTypes]
      <3>1. host' = [host EXCEPT ![h] = [host[h] EXCEPT !.reader = "ended", !.phase = "stopped", !.handshake = handshake]]
        BY <2>1, <1>t DEF HostTypes
      <3>2. [host[h] EXCEPT !.reader = "ended", !.phase = "stopped", !.handshake = handshake] \in HostTypes
        BY <2>1, <1>t, ChangesTyped
      <3> QED
        BY <3>1, <3>2, <1>t
    <2> QED
      BY <2>2, <1>17, <1>kept, <1>t DEF ReaderEnds, Typed
  <1>18. ASSUME NEW h \in Hosts, ReadMessage(h) PROVE Typed' /\ Given'
    <2> DEFINE m == Head(out[h])
    <2>1. out[h] \in Seq(MessageTypes) /\ out[h] # <<>>
      BY <1>18, <1>t DEF ReadMessage
    <2>2. m \in MessageTypes /\ Tail(out[h]) \in Seq(MessageTypes)
      BY <2>1, Read
    <2>3. out' \in [Hosts -> Seq(MessageTypes)]
      BY <1>18, <2>2, <1>t DEF ReadMessage
    <2>4. host' \in [Hosts -> HostTypes]
      <3>1. Phase(h, "loading") \in {"loading", "stopped"} /\ Phase(h, "idle") \in {"idle", "stopped"}
        BY DEF Phase
      <3>2. PICK phase \in {"idle", "loading", "stopped"} :
              host' = host \/ host' = [host EXCEPT ![h].phase = phase]
        BY <3>1, <1>18 DEF ReadMessage
      <3>3. CASE host' # host
        <4>1. host' = [host EXCEPT ![h] = [host[h] EXCEPT !.phase = phase]]
          BY <3>2, <3>3, <1>t DEF HostTypes
        <4>2. [host[h] EXCEPT !.phase = phase] \in HostTypes
          BY <1>t, ChangesTyped
        <4> QED
          BY <4>1, <4>2, <1>t
      <3> QED
        BY <3>3, <1>t
    <2>5. call' \in [Calls -> CallTypes] /\ Given'
      <3>1. CASE call' = call
        BY <3>1, <1>kept
      <3>2. CASE call' # call
        <4>1. call' = [call EXCEPT ![m.to] = Ended(m.early)]
          BY <1>18, <3>2 DEF ReadMessage
        <4>2. m.early \in BOOLEAN
          BY <2>2 DEF MessageTypes
        <4>3. Ended(m.early) \in CallTypes /\ Ended(m.early).op = "none"
          BY <4>2, NoCallTyped
        <4> HIDE DEF m
        <4> QED
          BY <4>1, <4>3, <1>t DEF Given, GivenFor
      <3> QED
        BY <3>1, <3>2
    <2> QED
      BY <2>3, <2>4, <2>5, <1>18, <1>t DEF ReadMessage, Typed
  <1>19. ASSUME NEW h \in Hosts, LoadBegins(h) PROVE Typed' /\ Given'
    <2>1. out' \in [Hosts -> Seq(MessageTypes)]
      <3>1. Says(h, "begin", 0, FALSE)
        BY <1>19 DEF LoadBegins
      <3>2. 0 \in 0..MaxCalls
        BY HostsAssumption
      <3> QED
        BY <3>1, <3>2, <1>t, SaysTyped
    <2>2. host' = [host EXCEPT ![h].due = @ - 1, ![h].loading = TRUE] /\ host[h].due > 0
      BY <1>19 DEF LoadBegins
    <2>3. host[h].due \in Nat /\ host[h].due - 1 \in Nat
      BY <2>2, <1>t DEF HostTypes
    <2>4. host' \in [Hosts -> HostTypes]
      <3>1. host' = [host EXCEPT ![h] = [host[h] EXCEPT !.due = host[h].due - 1, !.loading = TRUE]]
        BY <2>2, <2>3, <1>t DEF HostTypes
      <3>2. [host[h] EXCEPT !.due = host[h].due - 1, !.loading = TRUE] \in HostTypes
        BY <2>2, <2>3, <1>t, ChangesTyped
      <3> QED
        BY <3>1, <3>2, <1>t
    <2> QED
      BY <2>1, <2>4, <1>19, <1>kept, <1>t DEF LoadBegins, Typed
  <1>20. ASSUME NEW h \in Hosts, LoadEnds(h) PROVE Typed' /\ Given'
    <2>1. out' \in [Hosts -> Seq(MessageTypes)]
      <3>1. Says(h, "end", 0, FALSE)
        BY <1>20 DEF LoadEnds
      <3>2. 0 \in 0..MaxCalls
        BY HostsAssumption
      <3> QED
        BY <3>1, <3>2, <1>t, SaysTyped
    <2>2. host' = [host EXCEPT ![h].loading = FALSE]
      BY <1>20 DEF LoadEnds
    <2>4. host' \in [Hosts -> HostTypes]
      <3>1. host' = [host EXCEPT ![h] = [host[h] EXCEPT !.loading = FALSE]]
        BY <2>2, <1>t DEF HostTypes
      <3>2. [host[h] EXCEPT !.loading = FALSE] \in HostTypes
        BY <2>2, <1>t, ChangesTyped
      <3> QED
        BY <3>1, <3>2, <1>t
    <2> QED
      BY <2>1, <2>4, <1>20, <1>kept, <1>t DEF LoadEnds, Typed
  <1>21. ASSUME NEW h \in Hosts, NEW r \in host[h].asked, Answers(h, r) PROVE Typed' /\ Given'
    <2>1. r \in [to : Calls, early : BOOLEAN]
      BY <1>t DEF HostTypes
    <2>2. r.to \in 0..MaxCalls /\ (r.early /\ Loads(h)) \in BOOLEAN
      BY <2>1, HostsAssumption DEF Calls
    <2>3. out' \in [Hosts -> Seq(MessageTypes)]
      BY <1>21, <2>2, <1>t, SaysTyped DEF Answers
    <2>4. host' = [host EXCEPT ![h].asked = @ \ {r}]
      BY <1>21 DEF Answers
    <2>5. host' \in [Hosts -> HostTypes]
      <3>1. host' = [host EXCEPT ![h] = [host[h] EXCEPT !.asked = host[h].asked \ {r}]]
        BY <2>4, <1>t DEF HostTypes
      <3>2. host[h].asked \ {r} \in SUBSET [to : Calls, early : BOOLEAN]
        BY <1>t DEF HostTypes
      <3>3. [host[h] EXCEPT !.asked = host[h].asked \ {r}] \in HostTypes
        BY <3>2, <1>t, ChangesTyped
      <3> QED
        BY <3>1, <3>3, <1>t
    <2> QED
      BY <2>3, <2>5, <1>21, <1>kept, <1>t DEF Answers, Typed
  <1>22. ASSUME NEW h \in Hosts, ServerEnds(h) PROVE Typed' /\ Given'
    <2>1. host' \in [Hosts -> HostTypes]
      BY <1>22, <1>t, KilledTyped DEF ServerEnds
    <2> QED
      BY <2>1, <1>22, <1>kept, <1>t DEF ServerEnds, Typed
  <1>base. /\ Unheard(call) \in [Calls -> CallTypes]
           /\ \A c \in Calls : GivenFor(Unheard(call)[c])
    BY <1>t, UnheardTyped DEF Given, GivenFor
  <1>issued. ASSUME NEW base \in [Calls -> CallTypes], \A c \in Calls : GivenFor(base[c]),
                    NEW n, NEW w \in Workspaces, NEW op \in {"ensure", "stop", "open", "request"}
             PROVE  /\ Issued(base, n, op, w) \in [Calls -> CallTypes]
                    /\ \A c \in Calls : GivenFor(Issued(base, n, op, w)[c])
    BY <1>issued, IssuedTyped DEF GivenFor
  <1>23. ASSUME NEW w \in Places, NEW code \in BOOLEAN, Turn(w, code) PROVE Typed' /\ Given'
    <2> DEFINE stops == IF page.ws = Nowhere THEN Unheard(call)
                        ELSE Issued(Unheard(call), First, "stop", page.ws)
               second == IF page.ws = Nowhere THEN First ELSE First + 1
    <2>1. /\ stops \in [Calls -> CallTypes]
          /\ \A c \in Calls : GivenFor(stops[c])
      <3>1. page.ws = Nowhere \/ page.ws \in Workspaces
        BY <1>t DEF Places
      <3> QED
        BY <3>1, <1>base, <1>issued
    <2>2. call' = IF w # Nowhere /\ code THEN Issued(stops, second, "ensure", w) ELSE stops
      BY <1>23 DEF Turn
    <2> HIDE DEF stops, second
    <2>3. call' \in [Calls -> CallTypes] /\ \A c \in Calls : GivenFor(call'[c])
      <3>1. w = Nowhere \/ w \in Workspaces
        BY DEF Places
      <3> QED
        BY <3>1, <2>1, <2>2, <1>issued
    <2>4. page' \in [ws : Places, code : BOOLEAN, ready : Places, synced : BOOLEAN]
      BY <1>23, <1>t DEF Turn, Places
    <2> QED
      BY <2>3, <2>4, <1>23, <1>t DEF Turn, Typed, Given
  <1>24. ASSUME ActivateTab PROVE Typed' /\ Given'
    <2>1. page.ws \in Workspaces
      BY <1>24, <1>t DEF ActivateTab, Places
    <2>2. call' \in [Calls -> CallTypes] /\ \A c \in Calls : GivenFor(call'[c])
      <3>1. CASE page.code
        BY <3>1, <1>24, <1>base DEF ActivateTab
      <3>2. CASE ~page.code
        <4>1. call' = Issued(call, First, "ensure", page.ws)
          BY <3>2, <1>24 DEF ActivateTab
        <4> QED
          BY <4>1, <2>1, <1>t, <1>issued DEF Given
      <3> QED
        BY <3>1, <3>2
    <2>3. page' \in [ws : Places, code : BOOLEAN, ready : Places, synced : BOOLEAN]
      BY <1>24, <1>t DEF ActivateTab
    <2> QED
      BY <2>2, <2>3, <1>24, <1>t DEF ActivateTab, Typed, Given
  <1>25. ASSUME OpenDocument \/ RequestDefinition PROVE Typed' /\ Given'
    <2>1. page.ws \in Workspaces
      BY <1>25, <1>t DEF OpenDocument, RequestDefinition, Places
    <2>2. call' \in [Calls -> CallTypes] /\ \A c \in Calls : GivenFor(call'[c])
      <3>1. PICK op \in {"open", "request"} : call' = Issued(call, First, op, page.ws)
        BY <1>25 DEF OpenDocument, RequestDefinition
      <3> QED
        BY <3>1, <2>1, <1>t, <1>issued DEF Given
    <2>3. page' \in [ws : Places, code : BOOLEAN, ready : Places, synced : BOOLEAN]
      BY <1>25, <1>t DEF OpenDocument, RequestDefinition
    <2> QED
      BY <2>2, <2>3, <1>25, <1>t DEF OpenDocument, RequestDefinition, Typed, Given
  <1> QED
    BY <1>1, <1>2, <1>3, <1>4, <1>5, <1>6, <1>7, <1>8, <1>9, <1>10, <1>11, <1>12, <1>13, <1>14,
       <1>15, <1>16, <1>17, <1>18, <1>19, <1>20, <1>21, <1>22, <1>23, <1>24, <1>25
       DEF Next, CallSteps, ReaderSteps, ServerSteps, PageSteps, Places

(***************************************************************************)
(* Steps.                                                                  *)
(***************************************************************************)
LEMMA OddGrows ==
    ASSUME Next
    PROVE  odd \subseteq odd'
  BY DEF Next, CallSteps, ReaderSteps, ServerSteps, PageSteps, ReadyStatus, StopOtherWorkspaces,
     SpawnHost, SpawnFails, InsertStatus, Stop, NotifyDocument, WriteDocument, DocumentDropped,
     HostFor, AwaitReady, GraceEnds, LimitEnds, WriteRequest, RequestFails, HandshakeEnds,
     ReaderEnds, ReadMessage, LoadBegins, LoadEnds, Answers, ServerEnds, Turn, ActivateTab,
     OpenDocument, RequestDefinition, Noted

\* A slip is noted.
LEMMA SlipNoted ==
    ASSUME NEW d \in Slips, odd' = Noted(d)
    PROVE  ~Slipless'
  BY DEF Slipless, Noted

\* What the actions do to the host they are about; the others stay.
Only(h) == \A g \in Hosts \ {h} : host'[g] = host[g]

LEMMA SpawnSteps ==
    ASSUME Typed, NEW c \in Calls, NEW h \in Hosts, SpawnHost(c, h)
    PROVE  /\ host'[h] = [host[h] EXCEPT !.server = "runs", !.ws = call[c].ws]
           /\ Only(h) /\ out' = out
  BY DEF SpawnHost, Typed, Only, HostTypes

LEMMA DocumentSteps ==
    ASSUME Typed, Given, NEW c \in Calls, WriteDocument(c)
    PROVE  LET h == call[c].host
           IN  /\ h \in Hosts /\ host[h].handshake = "ready" /\ Only(h) /\ out' = out
               /\ Runs(h) => \E load \in {0, 1} :
                      host'[h] = [host[h] EXCEPT !.phase = Opened(h), !.opened = TRUE,
                                                 !.due = host[h].due + load]
               /\ ~Runs(h) => host'[h] = [host[h] EXCEPT !.phase = Opened(h)]
               /\ Slipless' => host[h].phase \notin {"awaiting", "loading"}
               /\ Slipless' => \A d \in Calls : ~(At(d, "request", "write") /\ call[d].host = h)
  <1> DEFINE h == call[c].host
  <1>1. h \in Hosts /\ host[h].handshake = "ready" /\ out' = out
    BY DEF WriteDocument, At, Given, GivenFor
  <1>2. PICK load \in {0, 1} :
          host' = IF Runs(h)
                  THEN [host EXCEPT ![h].phase = Opened(h), ![h].opened = TRUE, ![h].due = @ + load]
                  ELSE [host EXCEPT ![h].phase = Opened(h)]
    BY DEF WriteDocument
  <1>3. ASSUME Slipless'
        PROVE  /\ host[h].phase \notin {"awaiting", "loading"}
               /\ \A d \in Calls : ~(At(d, "request", "write") /\ call[d].host = h)
    <2>1. "checked" \in Slips /\ "unseen" \in Slips
      BY DEF Slips
    <2>2. odd' # Noted("checked") /\ odd' # Noted("unseen")
      BY <1>3, <2>1, SlipNoted
    <2>3. odd' = CASE \E d \in Calls : At(d, "request", "write") /\ call[d].host = h -> Noted("checked")
                   [] host[h].phase \in {"awaiting", "loading"} -> Noted("unseen")
                   [] OTHER -> odd
      BY DEF WriteDocument
    <2>4. (\E d \in Calls : At(d, "request", "write") /\ call[d].host = h)
          => odd' \in {Noted("checked"), Noted("unseen")}
      BY <2>3
    <2>5. host[h].phase \in {"awaiting", "loading"} => odd' \in {Noted("checked"), Noted("unseen")}
      BY <2>3
    <2> QED
      BY <2>2, <2>4, <2>5
  <1>4. Only(h)
    BY <1>1, <1>2 DEF Typed, Only
  <1>5. CASE Runs(h)
    <2>1. host'[h] = [host[h] EXCEPT !.phase = Opened(h), !.opened = TRUE, !.due = host[h].due + load]
      BY <1>1, <1>2, <1>5 DEF Typed, HostTypes
    <2> QED
      BY <2>1, <1>1, <1>3, <1>4, <1>5
  <1>6. CASE ~Runs(h)
    <2>1. host'[h] = [host[h] EXCEPT !.phase = Opened(h)]
      BY <1>1, <1>2, <1>6 DEF Typed, HostTypes
    <2> QED
      BY <2>1, <1>1, <1>3, <1>4, <1>6
  <1> QED
    BY <1>5, <1>6

LEMMA GraceSteps ==
    ASSUME Typed, Given, NEW c \in Calls, GraceEnds(c)
    PROVE  LET h == call[c].host
           IN  /\ h \in Hosts /\ host[h].phase = "awaiting" /\ Only(h) /\ out' = out
               /\ host'[h] = [host[h] EXCEPT !.phase = "idle"]
               /\ call' \in [Calls -> CallTypes] /\ call'[c].host = h /\ call'[c].early = call[c].early
               /\ \A d \in Calls \ {c} : call'[d] = call[d]
               /\ Slipless' => host[h].due = 0 /\ ~host[h].loading /\ NoSign(out[h])
  <1> DEFINE h == call[c].host
  <1>1. h \in Hosts /\ host[h].phase = "awaiting" /\ out' = out
    BY DEF GraceEnds, At, Given, GivenFor
  <1>2. host'[h] = [host[h] EXCEPT !.phase = "idle"] /\ Only(h)
    BY <1>1 DEF GraceEnds, Typed, Only, HostTypes
  <1>3. /\ call' \in [Calls -> CallTypes] /\ call'[c].host = h /\ call'[c].early = call[c].early
        /\ \A d \in Calls \ {c} : call'[d] = call[d]
    <2>1. /\ call' \in [Calls -> CallTypes] /\ call'[c] = [call[c] EXCEPT !.at = "write"]
          /\ \A d \in Calls \ {c} : call'[d] = call[d]
      BY GoTyped DEF GraceEnds, Typed
    <2>2. call[c] \in CallTypes
      BY DEF Typed
    <2>3. call'[c].host = h /\ call'[c].early = call[c].early
      BY <2>1, <2>2 DEF CallTypes
    <2> QED
      BY <2>1, <2>3
  <1>4. ASSUME Slipless'
        PROVE  host[h].due = 0 /\ ~host[h].loading /\ NoSign(out[h])
    <2>1. odd' # Noted("grace")
      BY <1>4, SlipNoted DEF Slips
    <2>2. ~Loads(h) /\ \A i \in DOMAIN out[h] : out[h][i].kind = "answer"
      BY <2>1 DEF GraceEnds
    <2>3. DOMAIN out[h] = 1..Len(out[h]) /\ host[h].due \in Nat
      BY <1>1, LenProperties DEF Typed, HostTypes
    <2> QED
      BY <2>2, <2>3 DEF Loads, NoSign
  <1> QED
    BY <1>1, <1>2, <1>3, <1>4

LEMMA RequestSteps ==
    ASSUME Typed, Given, NEW c \in Calls, WriteRequest(c)
    PROVE  LET h == call[c].host
           IN  /\ h \in Hosts /\ out' = out /\ call[c].op = "request" /\ call[c].at = "write"
               /\ \/ host' = host
                  \/ /\ Runs(h) /\ Only(h)
                     /\ host'[h] = [host[h] EXCEPT !.asked = host[h].asked \cup {[to |-> c, early |-> Loads(h)]}]
  <1> DEFINE h == call[c].host
             request == [to |-> c, early |-> Loads(h)]
  <1>1. h \in Hosts /\ out' = out /\ call[c].op = "request" /\ call[c].at = "write"
    BY DEF WriteRequest, At, Given, GivenFor
  <1>2. \/ host' = host
        \/ Runs(h) /\ host' = [host EXCEPT ![h].asked = @ \cup {request}]
    BY DEF WriteRequest
  <1> HIDE DEF request
  <1>3. ASSUME host' = [host EXCEPT ![h].asked = @ \cup {request}]
        PROVE  Only(h) /\ host'[h] = [host[h] EXCEPT !.asked = host[h].asked \cup {request}]
    BY <1>1, <1>3 DEF Typed, Only, HostTypes
  <1> QED
    BY <1>1, <1>2, <1>3 DEF request

LEMMA HandshakeSteps ==
    ASSUME Typed, NEW h \in Hosts, HandshakeEnds(h)
    PROVE  /\ host[h].reader = "handshake" /\ host[h].server # "unborn" /\ Only(h) /\ out' = out
           /\ host'[h] = [host[h] EXCEPT !.reader = "listens", !.handshake = "ready"]
  BY DEF HandshakeEnds, Typed, Only, HostTypes

LEMMA ReaderEndSteps ==
    ASSUME Typed, NEW h \in Hosts, ReaderEnds(h)
    PROVE  /\ Only(h) /\ out' = out
           /\ \E handshake \in {"pending", "ready", "failed"} :
                /\ host'[h] = [host[h] EXCEPT !.reader = "ended", !.phase = "stopped",
                                              !.handshake = handshake]
                /\ \/ host[h].reader = "handshake" /\ host[h].server # "unborn" /\ handshake = "failed"
                   \/ host[h].server = "dead"
  <1>1. host[h].handshake \in {"pending", "ready", "failed"}
    BY DEF Typed, HostTypes
  <1>2. PICK handshake \in {"pending", "ready", "failed"} :
          /\ handshake = IF host[h].reader = "handshake" THEN "failed" ELSE host[h].handshake
          /\ host' = [host EXCEPT ![h].reader = "ended", ![h].phase = "stopped",
                                  ![h].handshake = handshake]
    BY <1>1 DEF ReaderEnds, Typed
  <1>3. /\ Only(h)
        /\ host'[h] = [host[h] EXCEPT !.reader = "ended", !.phase = "stopped", !.handshake = handshake]
    BY <1>2 DEF Typed, Only, HostTypes
  <1> QED
    BY <1>2, <1>3 DEF ReaderEnds

LEMMA MessageSteps ==
    ASSUME Typed, NEW h \in Hosts, ReadMessage(h)
    PROVE  LET m == Head(out[h])
           IN  /\ host[h].reader = "listens" /\ out[h] # <<>> /\ Only(h)
               /\ out[h] \in Seq(MessageTypes) /\ m \in MessageTypes
               /\ out'[h] = Tail(out[h]) /\ \A g \in Hosts \ {h} : out'[g] = out[g]
               /\ m.kind = "begin" => host'[h] = [host[h] EXCEPT !.phase = Phase(h, "loading")]
               /\ m.kind = "end" => host'[h] = [host[h] EXCEPT !.phase = Phase(h, "idle")]
               /\ m.kind = "answer" => host' = host
               /\ call' = call \/ call' = [call EXCEPT ![m.to] = Ended(m.early)]
  <1> DEFINE m == Head(out[h])
  <1>1. out[h] \in Seq(MessageTypes) /\ out[h] # <<>> /\ host[h].reader = "listens"
    BY DEF ReadMessage, Typed
  <1>2. m \in MessageTypes
    BY <1>1, Read
  <1>3. out'[h] = Tail(out[h]) /\ \A g \in Hosts \ {h} : out'[g] = out[g]
    BY DEF ReadMessage, Typed
  <1>4. /\ m.kind = "begin" => host' = [host EXCEPT ![h].phase = Phase(h, "loading")]
        /\ m.kind = "end" => host' = [host EXCEPT ![h].phase = Phase(h, "idle")]
        /\ m.kind = "answer" => host' = host
        /\ call' = call \/ call' = [call EXCEPT ![m.to] = Ended(m.early)]
    BY DEF ReadMessage
  <1>5. m.kind \in {"begin", "end", "answer"}
    BY <1>2 DEF MessageTypes
  <1> HIDE DEF m
  <1>6. Only(h)
    BY <1>4, <1>5 DEF Typed, Only
  <1>7. /\ m.kind = "begin" => host'[h] = [host[h] EXCEPT !.phase = Phase(h, "loading")]
        /\ m.kind = "end" => host'[h] = [host[h] EXCEPT !.phase = Phase(h, "idle")]
    BY <1>4 DEF Typed, HostTypes
  <1> QED
    BY <1>1, <1>2, <1>3, <1>4, <1>6, <1>7 DEF m

LEMMA BeginsSteps ==
    ASSUME Typed, NEW h \in Hosts, LoadBegins(h)
    PROVE  /\ Runs(h) /\ host[h].due > 0 /\ ~host[h].loading /\ Only(h)
           /\ host'[h] = [host[h] EXCEPT !.due = host[h].due - 1, !.loading = TRUE]
           /\ \E m \in MessageTypes :
                /\ m.kind = "begin" /\ ~m.early /\ out[h] \in Seq(MessageTypes)
                /\ out'[h] = Append(out[h], m) /\ \A g \in Hosts \ {h} : out'[g] = out[g]
  <1>1. /\ Runs(h) /\ host[h].due > 0 /\ ~host[h].loading
        /\ host' = [host EXCEPT ![h].due = @ - 1, ![h].loading = TRUE]
    BY DEF LoadBegins
  <1>2. Only(h) /\ host'[h] = [host[h] EXCEPT !.due = host[h].due - 1, !.loading = TRUE]
    BY <1>1 DEF Typed, Only, HostTypes
  <1>3. Says(h, "begin", 0, FALSE)
    BY DEF LoadBegins
  <1>4. 0 \in 0..MaxCalls
    BY HostsAssumption
  <1>5. PICK m : /\ m = [kind |-> "begin", to |-> 0, early |-> FALSE]
                 /\ m \in MessageTypes /\ out[h] \in Seq(MessageTypes)
                 /\ out'[h] = Append(out[h], m) /\ \A g \in Hosts \ {h} : out'[g] = out[g]
    BY <1>3, <1>4, SaysTyped DEF Typed
  <1> QED
    BY <1>1, <1>2, <1>5

LEMMA EndsSteps ==
    ASSUME Typed, NEW h \in Hosts, LoadEnds(h)
    PROVE  /\ Runs(h) /\ host[h].loading /\ Only(h)
           /\ host'[h] = [host[h] EXCEPT !.loading = FALSE]
           /\ \E m \in MessageTypes :
                /\ m.kind = "end" /\ ~m.early /\ out[h] \in Seq(MessageTypes)
                /\ out'[h] = Append(out[h], m) /\ \A g \in Hosts \ {h} : out'[g] = out[g]
  <1>1. /\ Runs(h) /\ host[h].loading /\ host' = [host EXCEPT ![h].loading = FALSE]
    BY DEF LoadEnds
  <1>2. Only(h) /\ host'[h] = [host[h] EXCEPT !.loading = FALSE]
    BY <1>1 DEF Typed, Only, HostTypes
  <1>3. Says(h, "end", 0, FALSE)
    BY DEF LoadEnds
  <1>4. 0 \in 0..MaxCalls
    BY HostsAssumption
  <1>5. PICK m : /\ m = [kind |-> "end", to |-> 0, early |-> FALSE]
                 /\ m \in MessageTypes /\ out[h] \in Seq(MessageTypes)
                 /\ out'[h] = Append(out[h], m) /\ \A g \in Hosts \ {h} : out'[g] = out[g]
    BY <1>3, <1>4, SaysTyped DEF Typed
  <1> QED
    BY <1>1, <1>2, <1>5

LEMMA AnswerSteps ==
    ASSUME Typed, NEW h \in Hosts, NEW r \in host[h].asked, Answers(h, r)
    PROVE  /\ Runs(h) /\ Only(h)
           /\ host'[h] = [host[h] EXCEPT !.asked = host[h].asked \ {r}]
           /\ \E m \in MessageTypes :
                /\ m.kind = "answer" /\ (m.early => r.early) /\ out[h] \in Seq(MessageTypes)
                /\ out'[h] = Append(out[h], m) /\ \A g \in Hosts \ {h} : out'[g] = out[g]
  <1>1. Runs(h) /\ host' = [host EXCEPT ![h].asked = @ \ {r}]
    BY DEF Answers
  <1>2. Only(h) /\ host'[h] = [host[h] EXCEPT !.asked = host[h].asked \ {r}]
    BY <1>1 DEF Typed, Only, HostTypes
  <1>3. r \in [to : Calls, early : BOOLEAN]
    BY DEF Typed, HostTypes
  <1>4. r.to \in 0..MaxCalls
    BY <1>3, HostsAssumption DEF Calls
  <1>5. PICK early \in BOOLEAN : early = (r.early /\ Loads(h)) /\ Says(h, "answer", r.to, early)
    BY DEF Answers
  <1>6. out \in [Hosts -> Seq(MessageTypes)]
    BY DEF Typed
  <1>7. PICK m : /\ m = [kind |-> "answer", to |-> r.to, early |-> early]
                 /\ m \in MessageTypes /\ out[h] \in Seq(MessageTypes)
                 /\ out'[h] = Append(out[h], m) /\ \A g \in Hosts \ {h} : out'[g] = out[g]
    <2> DEFINE n == [kind |-> "answer", to |-> r.to, early |-> early]
    <2>1. Says(h, "answer", r.to, early)
      BY <1>5
    <2>2. n \in MessageTypes
      BY <1>4 DEF MessageTypes
    <2>3. out' = [out EXCEPT ![h] = Append(out[h], n)]
      BY <2>1, <1>6 DEF Says
    <2> HIDE DEF n
    <2>4. out'[h] = Append(out[h], n) /\ \A g \in Hosts \ {h} : out'[g] = out[g]
      BY <2>3, <1>6
    <2> QED
      BY <2>2, <2>4, <1>6 DEF n
  <1>8. m.kind = "answer" /\ (m.early => r.early)
    BY <1>5, <1>7
  <1> QED
    BY <1>1, <1>2, <1>7, <1>8

LEMMA EndSteps ==
    ASSUME Typed, NEW h \in Hosts, ServerEnds(h)
    PROVE  /\ Only(h) /\ out' = out /\ host'[h].server = "dead" /\ host'[h].asked = {}
  BY KilledTyped DEF ServerEnds, Typed, Only

\* Stopping hosts.
LEMMA StopSteps ==
    ASSUME Typed, NEW c \in Calls, StopOtherWorkspaces(c) \/ InsertStatus(c) \/ Stop(c)
    PROVE  /\ out' = out
           /\ \A h \in Hosts : \/ host'[h] = host[h]
                               \/ host'[h].server = "dead" /\ host'[h].asked = {}
  <1>1. host \in [Hosts -> HostTypes]
    BY DEF Typed
  <1>2. ASSUME NEW hs, host' = Stopped(hs)
        PROVE  \A h \in Hosts : \/ host'[h] = host[h]
                                \/ host'[h].server = "dead" /\ host'[h].asked = {}
    BY <1>1, <1>2, StoppedTyped
  <1>3. CASE StopOtherWorkspaces(c)
    BY <1>2, <1>3 DEF StopOtherWorkspaces
  <1>4. CASE InsertStatus(c)
    BY <1>2, <1>4 DEF InsertStatus
  <1>5. CASE Stop(c)
    BY <1>2, <1>5 DEF Stop
  <1> QED
    BY <1>3, <1>4, <1>5

\* The other steps do nothing to hosts.
Touches ==
    \/ \E c \in Calls : \/ \E h \in Hosts : SpawnHost(c, h)
                        \/ WriteDocument(c) \/ GraceEnds(c) \/ WriteRequest(c)
                        \/ StopOtherWorkspaces(c) \/ InsertStatus(c) \/ Stop(c)
    \/ \E h \in Hosts : \/ HandshakeEnds(h) \/ ReaderEnds(h) \/ ReadMessage(h)
                        \/ LoadBegins(h) \/ LoadEnds(h) \/ ServerEnds(h)
                        \/ \E r \in host[h].asked : Answers(h, r)

LEMMA Untouched ==
    ASSUME Next, ~Touches
    PROVE  host' = host /\ out' = out
  <1>1. ASSUME NEW c \in Calls, CallSteps(c) PROVE host' = host /\ out' = out
    BY <1>1 DEF CallSteps, Touches, ReadyStatus, SpawnFails, NotifyDocument, DocumentDropped,
       HostFor, AwaitReady, LimitEnds, RequestFails
  <1>2. ASSUME PageSteps PROVE host' = host /\ out' = out
    BY <1>2 DEF PageSteps, Turn, ActivateTab, OpenDocument, RequestDefinition
  <1> QED
    BY <1>1, <1>2 DEF Next, Touches, ReaderSteps, ServerSteps

(***************************************************************************)
(* One host: each change keeps it fitting what its server has written.     *)
(***************************************************************************)
LEMMA FitsSpawned ==
    ASSUME NEW r \in HostTypes, NEW s, NEW ws \in Places, Fresh(r, s), r.server = "unborn",
           NEW t, t = [r EXCEPT !.server = "runs", !.ws = ws]
    PROVE  Fits(t, s) /\ Fresh(t, s)
  <1>1. /\ t.server = "runs" /\ t.reader = "handshake" /\ t.handshake = "pending"
        /\ t.phase = "idle" /\ t.due = 0 /\ ~t.loading /\ s = <<>>
    BY DEF Fresh, HostTypes
  <1>2. NoSign(s)
    BY <1>1 DEF NoSign
  <1> QED
    BY <1>1, <1>2 DEF Fits, Fresh

\* The document is written to a host that has finished its handshake.
LEMMA FitsDocument ==
    ASSUME NEW r \in HostTypes, NEW s, NEW load \in {0, 1}, Fits(r, s), Fresh(r, s),
           r.server = "runs", r.handshake = "ready", r.phase \notin {"awaiting", "loading"},
           NEW t, t = [r EXCEPT !.phase = "awaiting", !.opened = TRUE, !.due = r.due + load]
    PROVE  r.phase = "idle" /\ Fits(t, s) /\ Fresh(t, s)
  <1>1. r.phase = "idle" /\ r.reader # "handshake"
    BY DEF Fits, HostTypes
  <1>2. r.due = 0 /\ ~r.loading /\ NoSign(s)
    BY <1>1 DEF Fits
  <1>3. /\ t.server = "runs" /\ t.reader # "handshake" /\ t.phase = "awaiting"
        /\ t.due \in {0, 1} /\ ~t.loading
    BY <1>1, <1>2 DEF HostTypes
  <1> QED
    BY <1>1, <1>2, <1>3 DEF Fits, Fresh

LEMMA FitsGrace ==
    ASSUME NEW r \in HostTypes, NEW s, Fits(r, s), Fresh(r, s), r.phase = "awaiting",
           r.due = 0, ~r.loading, NoSign(s),
           NEW t, t = [r EXCEPT !.phase = "idle"]
    PROVE  Fits(t, s) /\ Fresh(t, s)
  <1>1. /\ t.server = r.server /\ t.reader = r.reader /\ t.handshake = r.handshake
        /\ t.phase = "idle" /\ t.due = 0 /\ ~t.loading /\ r.server # "unborn"
    BY DEF HostTypes, Fresh
  <1> QED
    BY <1>1 DEF Fits, Fresh

LEMMA FitsAsked ==
    ASSUME NEW r \in HostTypes, NEW s, NEW asked, Fits(r, s), Fresh(r, s),
           NEW t, t = [r EXCEPT !.asked = asked]
    PROVE  Fits(t, s) /\ Fresh(t, s)
  <1>1. /\ t.server = r.server /\ t.reader = r.reader /\ t.handshake = r.handshake
        /\ t.phase = r.phase /\ t.due = r.due /\ t.loading = r.loading
    BY DEF HostTypes
  <1> QED
    BY <1>1 DEF Fits, Fresh

LEMMA FitsHandshake ==
    ASSUME NEW r \in HostTypes, NEW s, Fits(r, s), r.reader = "handshake", r.server # "unborn",
           NEW t, t = [r EXCEPT !.reader = "listens", !.handshake = "ready"]
    PROVE  Fits(t, s) /\ Fresh(t, s)
  <1>1. /\ t.server = r.server /\ t.reader = "listens" /\ t.handshake = "ready"
        /\ t.phase = r.phase /\ t.due = r.due /\ t.loading = r.loading
    BY DEF HostTypes
  <1> QED
    BY <1>1 DEF Fits, Fresh

LEMMA FitsReaderEnds ==
    ASSUME NEW r \in HostTypes, NEW s, NEW handshake, Fits(r, s),
           \/ r.reader = "handshake" /\ r.server # "unborn" /\ handshake = "failed"
           \/ r.server = "dead",
           NEW t, t = [r EXCEPT !.reader = "ended", !.phase = "stopped", !.handshake = handshake]
    PROVE  Fits(t, s) /\ Fresh(t, s)
  <1>1. /\ t.server = r.server /\ t.reader = "ended" /\ t.handshake = handshake
        /\ t.phase = "stopped" /\ t.due = r.due /\ t.loading = r.loading
    BY DEF HostTypes
  <1> QED
    BY <1>1 DEF Fits, Fresh

\* The phase follows the messages.
LEMMA FitsRead ==
    ASSUME NEW r \in HostTypes, NEW s \in Seq(MessageTypes), s # <<>>, Fits(r, s), Fresh(r, s),
           r.reader = "listens", r.server # "unborn",
           NEW phase, NEW t, t = [r EXCEPT !.phase = phase],
           /\ Head(s).kind = "begin" => phase = IF r.phase = "stopped" THEN "stopped" ELSE "loading"
           /\ Head(s).kind = "end" => phase = IF r.phase = "stopped" THEN "stopped" ELSE "idle"
           /\ Head(s).kind = "answer" => phase = r.phase
    PROVE  Fits(t, Tail(s)) /\ Fresh(t, Tail(s))
  <1>1. /\ t.server = r.server /\ t.reader = r.reader /\ t.handshake = r.handshake
        /\ t.phase = phase /\ t.due = r.due /\ t.loading = r.loading
    BY DEF HostTypes
  <1>2. r.phase # "stopped" \/ r.server # "runs"
    BY DEF Fits
  <1>3. /\ NoSign(s) => Head(s).kind = "answer" /\ NoSign(Tail(s))
        /\ OneSign(s, "begin") => \/ Head(s).kind = "begin" /\ NoSign(Tail(s))
                                  \/ Head(s).kind = "answer" /\ OneSign(Tail(s), "begin")
        /\ OneSign(s, "end") => \/ Head(s).kind = "end" /\ NoSign(Tail(s))
                                \/ Head(s).kind = "answer" /\ OneSign(Tail(s), "end")
        /\ TwoSigns(s) => \/ Head(s).kind = "begin" /\ OneSign(Tail(s), "end")
                          \/ Head(s).kind = "answer" /\ TwoSigns(Tail(s))
    BY SignsRead
  <1>4. ASSUME r.server = "runs"
        PROVE  Fits(t, Tail(s))
    <2>1. r.phase \in {"idle", "awaiting", "loading"}
      BY <1>2, <1>4 DEF HostTypes
    <2>2. CASE r.phase = "idle"
      BY <2>2, <1>1, <1>3, <1>4 DEF Fits
    <2>3. CASE r.phase = "awaiting"
      BY <2>3, <1>1, <1>3, <1>4 DEF Fits
    <2>4. CASE r.phase = "loading"
      BY <2>4, <1>1, <1>3, <1>4 DEF Fits
    <2> QED
      BY <2>1, <2>2, <2>3, <2>4
  <1> QED
    BY <1>1, <1>4 DEF Fits, Fresh

LEMMA FitsBegins ==
    ASSUME NEW r \in HostTypes, NEW s \in Seq(MessageTypes), NEW m \in MessageTypes,
           Fits(r, s), r.server = "runs", r.due > 0, ~r.loading, m.kind = "begin",
           NEW t, t = [r EXCEPT !.due = r.due - 1, !.loading = TRUE]
    PROVE  Fits(t, Append(s, m)) /\ Fresh(t, Append(s, m))
  <1>1. /\ t.server = r.server /\ t.reader = r.reader /\ t.handshake = r.handshake
        /\ t.phase = r.phase /\ t.due = r.due - 1 /\ t.loading
    BY DEF HostTypes
  <1>2. r.due # 0 /\ r.due \in Nat
    BY DEF HostTypes
  <1>3. r.phase = "awaiting" /\ NoSign(s) /\ r.due = 1 /\ r.reader # "handshake"
    BY <1>2 DEF Fits, HostTypes
  <1>4. OneSign(Append(s, m), "begin")
    BY <1>3, SignsAppended
  <1>5. t.due = 0
    BY <1>1, <1>3
  <1> QED
    BY <1>1, <1>3, <1>4, <1>5 DEF Fits, Fresh

LEMMA FitsEnds ==
    ASSUME NEW r \in HostTypes, NEW s \in Seq(MessageTypes), NEW m \in MessageTypes,
           Fits(r, s), r.server = "runs", r.loading, m.kind = "end",
           NEW t, t = [r EXCEPT !.loading = FALSE]
    PROVE  Fits(t, Append(s, m)) /\ Fresh(t, Append(s, m))
  <1>1. /\ t.server = r.server /\ t.reader = r.reader /\ t.handshake = r.handshake
        /\ t.phase = r.phase /\ t.due = r.due /\ ~t.loading
    BY DEF HostTypes
  <1>2. /\ r.due = 0 /\ r.reader # "handshake"
        /\ \/ r.phase = "awaiting" /\ OneSign(s, "begin")
           \/ r.phase = "loading" /\ NoSign(s)
    BY DEF Fits, HostTypes
  <1>3. /\ OneSign(s, "begin") => TwoSigns(Append(s, m))
        /\ NoSign(s) => OneSign(Append(s, m), "end")
    BY SignsAppended
  <1> QED
    BY <1>1, <1>2, <1>3 DEF Fits, Fresh

LEMMA FitsAnswer ==
    ASSUME NEW r \in HostTypes, NEW s \in Seq(MessageTypes), NEW m \in MessageTypes, NEW asked,
           Fits(r, s), r.server = "runs", m.kind = "answer",
           NEW t, t = [r EXCEPT !.asked = asked]
    PROVE  Fits(t, Append(s, m)) /\ Fresh(t, Append(s, m))
  <1>1. /\ t.server = r.server /\ t.reader = r.reader /\ t.handshake = r.handshake
        /\ t.phase = r.phase /\ t.due = r.due /\ t.loading = r.loading
    BY DEF HostTypes
  <1>2. /\ NoSign(s) => NoSign(Append(s, m))
        /\ OneSign(s, "begin") => OneSign(Append(s, m), "begin")
        /\ OneSign(s, "end") => OneSign(Append(s, m), "end")
        /\ TwoSigns(s) => TwoSigns(Append(s, m))
    BY SignsAppended
  <1> QED
    BY <1>1, <1>2 DEF Fits, Fresh

\* The server of a host that is stopped has ended.
LEMMA FitsDead ==
    ASSUME NEW r, NEW s, r.server = "dead"
    PROVE  Fits(r, s) /\ Fresh(r, s)
  BY DEF Fits, Fresh

(***************************************************************************)
(* A step keeps what Steady says.                                          *)
(***************************************************************************)
HostsFit == \A h \in Hosts : Fits(host[h], out[h]) /\ Fresh(host[h], out[h])

\* The step of one host leaves the others fitting.
LEMMA OthersFit ==
    ASSUME HostsFit, NEW h \in Hosts, Only(h), \A g \in Hosts \ {h} : out'[g] = out[g],
           Fits(host'[h], out'[h]), Fresh(host'[h], out'[h])
    PROVE  HostsFit'
  <1> SUFFICES ASSUME NEW g \in Hosts
               PROVE  Fits(host'[g], out'[g]) /\ Fresh(host'[g], out'[g])
    BY DEF HostsFit
  <1>1. CASE g = h
    BY <1>1
  <1>2. CASE g # h
    <2>1. host'[g] = host[g] /\ out'[g] = out[g]
      BY <1>2 DEF Only
    <2>2. Fits(host[g], out[g]) /\ Fresh(host[g], out[g])
      BY DEF HostsFit
    <2> QED
      BY <2>1, <2>2
  <1> QED
    BY <1>1, <1>2

LEMMA HostsKept ==
    ASSUME Typed, Given, HostsFit, Next, Slipless'
    PROVE  HostsFit'
  <1>t. \A h \in Hosts : host[h] \in HostTypes /\ Fits(host[h], out[h]) /\ Fresh(host[h], out[h])
    BY DEF Typed, HostsFit
  <1>same. ASSUME out' = out
           PROVE  \A h \in Hosts : \A g \in Hosts \ {h} : out'[g] = out[g]
    BY <1>same
  <1>1. ASSUME NEW c \in Calls, NEW h \in Hosts, SpawnHost(c, h) PROVE HostsFit'
    <2>1. /\ host'[h] = [host[h] EXCEPT !.server = "runs", !.ws = call[c].ws]
          /\ Only(h) /\ out' = out
      BY <1>1, SpawnSteps
    <2>2. call[c].ws \in Places /\ host[h].server = "unborn"
      BY <1>1 DEF Typed, CallTypes, SpawnHost
    <2>3. Fits(host'[h], out[h]) /\ Fresh(host'[h], out[h])
      BY <2>1, <2>2, <1>t, FitsSpawned
    <2> QED
      BY <2>1, <2>3, OthersFit
  <1>2. ASSUME NEW c \in Calls, WriteDocument(c) PROVE HostsFit'
    <2>1. PICK h : h = call[c].host
      OBVIOUS
    <2>2. /\ h \in Hosts /\ host[h].handshake = "ready" /\ Only(h) /\ out' = out
          /\ Runs(h) => \E load \in {0, 1} :
                 host'[h] = [host[h] EXCEPT !.phase = Opened(h), !.opened = TRUE,
                                            !.due = host[h].due + load]
          /\ ~Runs(h) => host'[h] = [host[h] EXCEPT !.phase = Opened(h)]
          /\ host[h].phase \notin {"awaiting", "loading"}
      BY <1>2, <2>1, DocumentSteps
    <2>3. host[h].server # "unborn"
      BY <2>2, <1>t DEF Fresh
    <2>4. CASE Runs(h)
      <3>1. PICK load \in {0, 1} :
              host'[h] = [host[h] EXCEPT !.phase = Opened(h), !.opened = TRUE,
                                         !.due = host[h].due + load]
        BY <2>2, <2>4
      <3>2. host[h].server = "runs"
        BY <2>4 DEF Runs
      <3>3. host[h].phase = "idle"
        BY <2>2, <3>2, <1>t, FitsDocument
      <3>4. Opened(h) = "awaiting"
        BY <3>3 DEF Opened
      <3>5. host'[h] = [host[h] EXCEPT !.phase = "awaiting", !.opened = TRUE, !.due = host[h].due + load]
        BY <3>1, <3>4
      <3>6. Fits(host'[h], out[h]) /\ Fresh(host'[h], out[h])
        BY <2>2, <3>2, <3>5, <1>t, FitsDocument
      <3> QED
        BY <2>2, <3>6, OthersFit
    <2>5. CASE ~Runs(h)
      <3>1. host[h].server = "dead"
        BY <2>2, <2>3, <2>5, <1>t DEF Runs, HostTypes, Hosts
      <3>2. host'[h].server = "dead"
        BY <2>2, <2>5, <3>1, <1>t DEF HostTypes
      <3>3. Fits(host'[h], out[h]) /\ Fresh(host'[h], out[h])
        BY <3>2, FitsDead
      <3> QED
        BY <2>2, <3>3, OthersFit
    <2> QED
      BY <2>4, <2>5
  <1>3. ASSUME NEW c \in Calls, GraceEnds(c) PROVE HostsFit'
    <2>1. PICK h : h = call[c].host
      OBVIOUS
    <2>2. /\ h \in Hosts /\ host[h].phase = "awaiting" /\ Only(h) /\ out' = out
          /\ host'[h] = [host[h] EXCEPT !.phase = "idle"]
          /\ host[h].due = 0 /\ ~host[h].loading /\ NoSign(out[h])
      BY <1>3, <2>1, GraceSteps
    <2>3. Fits(host'[h], out[h]) /\ Fresh(host'[h], out[h])
      BY <2>2, <1>t, FitsGrace
    <2> QED
      BY <2>2, <2>3, OthersFit
  <1>4. ASSUME NEW c \in Calls, WriteRequest(c) PROVE HostsFit'
    <2>1. PICK h, asked :
            /\ h \in Hosts /\ out' = out
            /\ \/ host' = host
               \/ Only(h) /\ host'[h] = [host[h] EXCEPT !.asked = asked]
      BY <1>4, RequestSteps
    <2>2. CASE host' = host
      BY <2>1, <2>2 DEF HostsFit
    <2>3. CASE Only(h) /\ host'[h] = [host[h] EXCEPT !.asked = asked]
      <3>1. Fits(host'[h], out[h]) /\ Fresh(host'[h], out[h])
        BY <2>1, <2>3, <1>t, FitsAsked
      <3> QED
        BY <2>1, <2>3, <3>1, OthersFit
    <2> QED
      BY <2>1, <2>2, <2>3
  <1>5. ASSUME NEW c \in Calls, StopOtherWorkspaces(c) \/ InsertStatus(c) \/ Stop(c) PROVE HostsFit'
    <2>1. /\ out' = out
          /\ \A h \in Hosts : host'[h] = host[h] \/ host'[h].server = "dead"
      BY <1>5, StopSteps
    <2>2. ASSUME NEW h \in Hosts PROVE Fits(host'[h], out[h]) /\ Fresh(host'[h], out[h])
      <3>1. CASE host'[h] = host[h]
        BY <3>1, <1>t
      <3>2. CASE host'[h].server = "dead"
        BY <3>2, FitsDead
      <3> QED
        BY <3>1, <3>2, <2>1
    <2> QED
      BY <2>1, <2>2 DEF HostsFit
  <1>6. ASSUME NEW h \in Hosts, HandshakeEnds(h) PROVE HostsFit'
    <2>1. /\ host[h].reader = "handshake" /\ host[h].server # "unborn" /\ Only(h) /\ out' = out
          /\ host'[h] = [host[h] EXCEPT !.reader = "listens", !.handshake = "ready"]
      BY <1>6, HandshakeSteps
    <2>2. Fits(host'[h], out[h]) /\ Fresh(host'[h], out[h])
      BY <2>1, <1>t, FitsHandshake
    <2> QED
      BY <2>1, <2>2, OthersFit
  <1>7. ASSUME NEW h \in Hosts, ReaderEnds(h) PROVE HostsFit'
    <2>1. PICK handshake :
            /\ Only(h) /\ out' = out
            /\ host'[h] = [host[h] EXCEPT !.reader = "ended", !.phase = "stopped",
                                          !.handshake = handshake]
            /\ \/ host[h].reader = "handshake" /\ host[h].server # "unborn" /\ handshake = "failed"
               \/ host[h].server = "dead"
      BY <1>7, ReaderEndSteps
    <2>2. Fits(host'[h], out[h]) /\ Fresh(host'[h], out[h])
      BY <2>1, <1>t, FitsReaderEnds
    <2> QED
      BY <2>1, <2>2, OthersFit
  <1>8. ASSUME NEW h \in Hosts, ReadMessage(h) PROVE HostsFit'
    <2>1. PICK m : m = Head(out[h])
      OBVIOUS
    <2>2. /\ host[h].reader = "listens" /\ out[h] # <<>> /\ Only(h)
          /\ out[h] \in Seq(MessageTypes) /\ m \in MessageTypes
          /\ out'[h] = Tail(out[h]) /\ \A g \in Hosts \ {h} : out'[g] = out[g]
          /\ m.kind = "begin" => host'[h] = [host[h] EXCEPT !.phase = Phase(h, "loading")]
          /\ m.kind = "end" => host'[h] = [host[h] EXCEPT !.phase = Phase(h, "idle")]
          /\ m.kind = "answer" => host' = host
      BY <1>8, <2>1, MessageSteps
    <2>3. host[h].server # "unborn"
      BY <2>2, <1>t DEF Fresh
    <2>4. PICK phase :
            /\ m.kind = "begin" => phase = IF host[h].phase = "stopped" THEN "stopped" ELSE "loading"
            /\ m.kind = "end" => phase = IF host[h].phase = "stopped" THEN "stopped" ELSE "idle"
            /\ m.kind = "answer" => phase = host[h].phase
      OBVIOUS
    <2>5. host'[h] = [host[h] EXCEPT !.phase = phase]
      <3>1. m.kind \in {"begin", "end", "answer"}
        BY <2>2 DEF MessageTypes
      <3>2. host[h] = [host[h] EXCEPT !.phase = host[h].phase]
        BY <1>t DEF HostTypes
      <3>3. CASE m.kind = "answer"
        BY <3>2, <3>3, <2>2, <2>4
      <3>4. CASE m.kind = "begin"
        BY <3>4, <2>2, <2>4 DEF Phase
      <3>5. CASE m.kind = "end"
        BY <3>5, <2>2, <2>4 DEF Phase
      <3> QED
        BY <3>1, <3>3, <3>4, <3>5
    <2>6. Fits(host'[h], Tail(out[h])) /\ Fresh(host'[h], Tail(out[h]))
      <3>1. /\ Head(out[h]).kind = "begin"
               => phase = IF host[h].phase = "stopped" THEN "stopped" ELSE "loading"
            /\ Head(out[h]).kind = "end"
               => phase = IF host[h].phase = "stopped" THEN "stopped" ELSE "idle"
            /\ Head(out[h]).kind = "answer" => phase = host[h].phase
        BY <2>1, <2>4
      <3>2. /\ host[h] \in HostTypes /\ Fits(host[h], out[h]) /\ Fresh(host[h], out[h])
            /\ out[h] \in Seq(MessageTypes) /\ out[h] # <<>> /\ host[h].reader = "listens"
        BY <2>2, <1>t
      <3> HIDE <2>1, <2>2, <2>4
      <3> QED
        BY <3>1, <3>2, <2>3, <2>5, FitsRead
    <2> QED
      BY <2>2, <2>6, OthersFit
  <1>9. ASSUME NEW h \in Hosts, LoadBegins(h) PROVE HostsFit'
    <2>1. PICK m \in MessageTypes :
            /\ Runs(h) /\ host[h].due > 0 /\ ~host[h].loading /\ Only(h)
            /\ host'[h] = [host[h] EXCEPT !.due = host[h].due - 1, !.loading = TRUE]
            /\ m.kind = "begin" /\ out[h] \in Seq(MessageTypes)
            /\ out'[h] = Append(out[h], m) /\ \A g \in Hosts \ {h} : out'[g] = out[g]
      BY <1>9, BeginsSteps
    <2>2. Fits(host'[h], Append(out[h], m)) /\ Fresh(host'[h], Append(out[h], m))
      BY <2>1, <1>t, FitsBegins DEF Runs
    <2> QED
      BY <2>1, <2>2, OthersFit
  <1>10. ASSUME NEW h \in Hosts, LoadEnds(h) PROVE HostsFit'
    <2>1. PICK m \in MessageTypes :
            /\ Runs(h) /\ host[h].loading /\ Only(h)
            /\ host'[h] = [host[h] EXCEPT !.loading = FALSE]
            /\ m.kind = "end" /\ out[h] \in Seq(MessageTypes)
            /\ out'[h] = Append(out[h], m) /\ \A g \in Hosts \ {h} : out'[g] = out[g]
      BY <1>10, EndsSteps
    <2>2. Fits(host'[h], Append(out[h], m)) /\ Fresh(host'[h], Append(out[h], m))
      BY <2>1, <1>t, FitsEnds DEF Runs
    <2> QED
      BY <2>1, <2>2, OthersFit
  <1>11. ASSUME NEW h \in Hosts, NEW r \in host[h].asked, Answers(h, r) PROVE HostsFit'
    <2>1. PICK m \in MessageTypes :
            /\ Runs(h) /\ Only(h)
            /\ host'[h] = [host[h] EXCEPT !.asked = host[h].asked \ {r}]
            /\ m.kind = "answer" /\ out[h] \in Seq(MessageTypes)
            /\ out'[h] = Append(out[h], m) /\ \A g \in Hosts \ {h} : out'[g] = out[g]
      BY <1>11, AnswerSteps
    <2>2. Fits(host'[h], Append(out[h], m)) /\ Fresh(host'[h], Append(out[h], m))
      BY <2>1, <1>t, FitsAnswer DEF Runs
    <2> QED
      BY <2>1, <2>2, OthersFit
  <1>12. ASSUME NEW h \in Hosts, ServerEnds(h) PROVE HostsFit'
    <2>1. Only(h) /\ out' = out /\ host'[h].server = "dead"
      BY <1>12, EndSteps
    <2>2. Fits(host'[h], out[h]) /\ Fresh(host'[h], out[h])
      BY <2>1, FitsDead
    <2> QED
      BY <2>1, <2>2, OthersFit
  <1>13. CASE ~Touches
    <2>1. host' = host /\ out' = out
      BY <1>13, Untouched
    <2> QED
      BY <2>1 DEF HostsFit
  <1> QED
    BY <1>1, <1>2, <1>3, <1>4, <1>5, <1>6, <1>7, <1>8, <1>9, <1>10, <1>11, <1>12, <1>13 DEF Touches

\* A request comes to be written only by a step that sees its host idle, and an
\* early answer is taken only by reading one.
Follows(d) ==
    /\ call'[d].op = "request" /\ call'[d].at = "write" =>
         \/ call[d].op = "request" /\ call[d].at = "write" /\ call'[d].host = call[d].host
         \/ call'[d].host \in Hosts /\ host'[call'[d].host].phase = "idle"
    /\ call'[d].early =>
         call[d].early \/ \E h \in Hosts : out[h] # <<>> /\ out[h] \in Seq(MessageTypes) /\ Head(out[h]).early

LEMMA CallsFollow ==
    ASSUME Typed, Given, Next
    PROVE  \A d \in Calls : Follows(d)
  <1>t. call \in [Calls -> CallTypes]
    BY DEF Typed
  <1>kept. ASSUME UNCHANGED call PROVE \A d \in Calls : Follows(d)
    BY <1>kept DEF Follows
  <1>done. ASSUME NEW c \in Calls, Done(c) PROVE \A d \in Calls : Follows(d)
    <2>1. /\ call'[c] = Ended(FALSE) /\ Ended(FALSE).op = "none" /\ ~Ended(FALSE).early
          /\ \A d \in Calls \ {c} : call'[d] = call[d]
      BY <1>t, <1>done, DoneTyped, NoCallTyped
    <2> QED
      BY <2>1 DEF Follows
  <1>go. ASSUME NEW c \in Calls, NEW at \in {"stop others", "spawn", "insert", "await", "asked"}, Go(c, at)
         PROVE  \A d \in Calls : Follows(d)
    <2>1. /\ call'[c] = [call[c] EXCEPT !.at = at] /\ \A d \in Calls \ {c} : call'[d] = call[d]
      BY <1>t, <1>go, GoTyped
    <2>2. call'[c].at = at /\ call'[c].early = call[c].early
      BY <2>1, <1>t DEF CallTypes
    <2> QED
      BY <2>1, <2>2 DEF Follows
  <1>host. ASSUME NEW c \in Calls, NEW at \in {"insert", "handshake", "await"}, NEW h,
                  call' = [call EXCEPT ![c].at = at, ![c].host = h]
           PROVE  \A d \in Calls : Follows(d)
    <2>1. /\ call'[c].at = at /\ call'[c].early = call[c].early
          /\ \A d \in Calls \ {c} : call'[d] = call[d]
      BY <1>t, <1>host DEF CallTypes
    <2> QED
      BY <2>1 DEF Follows
  <1>1. ASSUME NEW c \in Calls, ReadyStatus(c) PROVE \A d \in Calls : Follows(d)
    BY <1>1, <1>done, <1>go DEF ReadyStatus
  <1>2. ASSUME NEW c \in Calls, StopOtherWorkspaces(c) PROVE \A d \in Calls : Follows(d)
    BY <1>2, <1>go DEF StopOtherWorkspaces
  <1>3. ASSUME NEW c \in Calls, NEW h \in Hosts, SpawnHost(c, h) PROVE \A d \in Calls : Follows(d)
    BY <1>3, <1>host DEF SpawnHost
  <1>4. ASSUME NEW c \in Calls, SpawnFails(c) PROVE \A d \in Calls : Follows(d)
    BY <1>4, <1>go DEF SpawnFails
  <1>5. ASSUME NEW c \in Calls, InsertStatus(c) \/ Stop(c) PROVE \A d \in Calls : Follows(d)
    BY <1>5, <1>done DEF InsertStatus, Stop
  <1>6. ASSUME NEW c \in Calls, NotifyDocument(c) PROVE \A d \in Calls : Follows(d)
    BY <1>6, <1>done, <1>host DEF NotifyDocument
  <1>7. ASSUME NEW c \in Calls, WriteDocument(c) \/ DocumentDropped(c) PROVE \A d \in Calls : Follows(d)
    BY <1>7, <1>done DEF WriteDocument, DocumentDropped
  <1>8. ASSUME NEW c \in Calls, HostFor(c) PROVE \A d \in Calls : Follows(d)
    BY <1>8, <1>done, <1>host DEF HostFor
  <1>9. ASSUME NEW c \in Calls, AwaitReady(c) PROVE \A d \in Calls : Follows(d)
    <2>1. CASE Done(c)
      BY <2>1, <1>done
    <2>2. CASE ~Done(c)
      <3>1. Go(c, "write") /\ host[call[c].host].phase = "idle" /\ host' = host
        BY <2>2, <1>9 DEF AwaitReady
      <3>2. call[c].host \in Hosts
        BY <1>9 DEF AwaitReady, At, Given, GivenFor
      <3>3. call'[c] = [call[c] EXCEPT !.at = "write"] /\ \A d \in Calls \ {c} : call'[d] = call[d]
        BY <3>1, <1>t, GoTyped
      <3>4. call'[c].host = call[c].host /\ call'[c].early = call[c].early
        BY <3>3, <1>t DEF CallTypes
      <3>5. host'[call'[c].host].phase = "idle"
        BY <3>1, <3>4
      <3> QED
        BY <3>2, <3>3, <3>4, <3>5 DEF Follows
    <2> QED
      BY <2>1, <2>2
  <1>10. ASSUME NEW c \in Calls, GraceEnds(c) PROVE \A d \in Calls : Follows(d)
    <2>1. PICK h : h = call[c].host
      OBVIOUS
    <2>2. /\ h \in Hosts /\ host'[h] = [host[h] EXCEPT !.phase = "idle"]
          /\ call'[c].host = h /\ call'[c].early = call[c].early
          /\ \A d \in Calls \ {c} : call'[d] = call[d]
      BY <1>10, <2>1, GraceSteps
    <2>3. host'[h].phase = "idle"
      BY <2>2 DEF Typed, HostTypes
    <2>4. host'[call'[c].host].phase = "idle" /\ call'[c].host \in Hosts
      BY <2>2, <2>3
    <2> QED
      BY <2>2, <2>4 DEF Follows
  <1>11. ASSUME NEW c \in Calls, LimitEnds(c) \/ RequestFails(c) PROVE \A d \in Calls : Follows(d)
    BY <1>11, <1>done DEF LimitEnds, RequestFails
  <1>12. ASSUME NEW c \in Calls, WriteRequest(c) PROVE \A d \in Calls : Follows(d)
    BY <1>12, <1>done, <1>go DEF WriteRequest
  <1>13. ASSUME NEW h \in Hosts, ReadMessage(h) PROVE \A d \in Calls : Follows(d)
    <2>1. PICK m : m = Head(out[h])
      OBVIOUS
    <2>2. /\ out[h] # <<>> /\ out[h] \in Seq(MessageTypes) /\ m \in MessageTypes
          /\ call' = call \/ call' = [call EXCEPT ![m.to] = Ended(m.early)]
      BY <1>13, <2>1, MessageSteps
    <2>3. /\ m.early \in BOOLEAN /\ Ended(m.early).op = "none" /\ Ended(m.early).early = m.early
      BY <2>2, NoCallTyped DEF MessageTypes
    <2>4. ASSUME NEW d \in Calls PROVE call'[d] = call[d] \/ call'[d] = Ended(m.early)
      BY <2>2, <1>t
    <2> QED
      BY <2>1, <2>2, <2>3, <2>4 DEF Follows
  <1>14. ASSUME NEW h \in Hosts,
                HandshakeEnds(h) \/ ReaderEnds(h) \/ LoadBegins(h) \/ LoadEnds(h) \/ ServerEnds(h)
         PROVE  \A d \in Calls : Follows(d)
    BY <1>14, <1>kept DEF HandshakeEnds, ReaderEnds, LoadBegins, LoadEnds, ServerEnds
  <1>15. ASSUME NEW h \in Hosts, NEW r \in host[h].asked, Answers(h, r) PROVE \A d \in Calls : Follows(d)
    BY <1>15, <1>kept DEF Answers
  <1>base. /\ Unheard(call) \in [Calls -> CallTypes]
           /\ \A d \in Calls : /\ Unheard(call)[d].op = call[d].op
                               /\ Unheard(call)[d].at = call[d].at
                               /\ Unheard(call)[d].host = call[d].host
                               /\ Unheard(call)[d].early = call[d].early
    BY <1>t, UnheardTyped
  <1>issued. ASSUME NEW base \in [Calls -> CallTypes], NEW n, NEW w \in Workspaces,
                    NEW op \in {"ensure", "stop", "open", "request"}, NEW d \in Calls
             PROVE  \/ Issued(base, n, op, w)[d] = base[d]
                    \/ Issued(base, n, op, w)[d].at = "start" /\ ~Issued(base, n, op, w)[d].early
    BY IssuedTyped
  <1>page. page.ws \in Workspaces \/ page.ws = Nowhere
    BY DEF Typed, Places
  <1>16. ASSUME NEW w \in Workspaces \cup {Nowhere}, NEW code \in BOOLEAN, Turn(w, code)
         PROVE  \A d \in Calls : Follows(d)
    <2> DEFINE stops == IF page.ws = Nowhere THEN Unheard(call)
                        ELSE Issued(Unheard(call), First, "stop", page.ws)
               second == IF page.ws = Nowhere THEN First ELSE First + 1
    <2>1. stops \in [Calls -> CallTypes]
      BY <1>page, <1>base, IssuedTyped
    <2>2. ASSUME NEW d \in Calls
          PROVE  \/ stops[d] = Unheard(call)[d]
                 \/ stops[d].at = "start" /\ ~stops[d].early
      BY <1>page, <1>base, <1>issued
    <2>3. call' = IF w # Nowhere /\ code THEN Issued(stops, second, "ensure", w) ELSE stops
      BY <1>16 DEF Turn
    <2> HIDE DEF stops, second
    <2>4. ASSUME NEW d \in Calls
          PROVE  \/ call'[d] = stops[d]
                 \/ call'[d].at = "start" /\ ~call'[d].early
      BY <2>1, <2>3, <1>issued
    <2> QED
      BY <1>base, <2>2, <2>4 DEF Follows
  <1>17. ASSUME ActivateTab \/ OpenDocument \/ RequestDefinition PROVE \A d \in Calls : Follows(d)
    <2>1. page.ws \in Workspaces
      BY <1>17, <1>page DEF ActivateTab, OpenDocument, RequestDefinition
    <2>2. \/ call' = Unheard(call)
          \/ \E op \in {"ensure", "open", "request"} : call' = Issued(call, First, op, page.ws)
      BY <1>17 DEF ActivateTab, OpenDocument, RequestDefinition
    <2>3. CASE call' = Unheard(call)
      BY <2>3, <1>base DEF Follows
    <2>4. CASE \E op \in {"ensure", "open", "request"} : call' = Issued(call, First, op, page.ws)
      <3>1. ASSUME NEW d \in Calls
            PROVE  \/ call'[d] = call[d]
                   \/ call'[d].at = "start" /\ ~call'[d].early
        BY <2>1, <2>4, <1>t, <1>issued
      <3> QED
        BY <3>1 DEF Follows
    <2> QED
      BY <2>2, <2>3, <2>4
  <1> QED
    BY <1>1, <1>2, <1>3, <1>4, <1>5, <1>6, <1>7, <1>8, <1>9, <1>10, <1>11, <1>12, <1>13, <1>14,
       <1>15, <1>16, <1>17 DEF Next, CallSteps, ReaderSteps, ServerSteps, PageSteps

\* A request that was checked stays so, as long as its server runs.
LEMMA PhaseKept ==
    ASSUME Typed, Given, HostsFit, Next, Slipless', NEW d \in Calls, NEW g \in Hosts,
           call[d].op = "request", call[d].at = "write", call[d].host = g, Checked(d),
           host'[g].server = "runs"
    PROVE  host'[g].phase \in {"idle", "stopped"}
  <1>t. host[g] \in HostTypes /\ Fits(host[g], out[g]) /\ Fresh(host[g], out[g])
    BY DEF Typed, HostsFit
  <1>keeps. ASSUME host'[g].server = host[g].server, host'[g].phase = host[g].phase
            PROVE  host'[g].phase \in {"idle", "stopped"}
    BY <1>keeps DEF Checked
  <1>other. ASSUME NEW h \in Hosts, Only(h), h # g
            PROVE  host'[g].phase \in {"idle", "stopped"}
    BY <1>other, <1>keeps DEF Only
  <1>1. ASSUME NEW c \in Calls, NEW h \in Hosts, SpawnHost(c, h)
        PROVE  host'[g].phase \in {"idle", "stopped"}
    <2>1. /\ host'[h] = [host[h] EXCEPT !.server = "runs", !.ws = call[c].ws]
          /\ Only(h) /\ host[h].server = "unborn"
      BY <1>1, SpawnSteps DEF SpawnHost
    <2>2. CASE h = g
      BY <2>1, <2>2, <1>t DEF Fresh, HostTypes
    <2> QED
      BY <2>1, <2>2, <1>other
  <1>2. ASSUME NEW c \in Calls, WriteDocument(c)
        PROVE  host'[g].phase \in {"idle", "stopped"}
    <2>1. PICK h : h = call[c].host
      OBVIOUS
    <2>2. /\ h \in Hosts /\ Only(h)
          /\ \A e \in Calls : ~(At(e, "request", "write") /\ call[e].host = h)
      BY <1>2, <2>1, DocumentSteps
    <2>3. h # g
      BY <2>2 DEF At
    <2> QED
      BY <2>2, <2>3, <1>other
  <1>3. ASSUME NEW c \in Calls, GraceEnds(c)
        PROVE  host'[g].phase \in {"idle", "stopped"}
    <2>1. PICK h : h = call[c].host
      OBVIOUS
    <2>2. h \in Hosts /\ Only(h) /\ host'[h] = [host[h] EXCEPT !.phase = "idle"]
      BY <1>3, <2>1, GraceSteps
    <2>3. CASE h = g
      BY <2>2, <2>3, <1>t DEF HostTypes
    <2> QED
      BY <2>2, <2>3, <1>other
  <1>4. ASSUME NEW c \in Calls, WriteRequest(c)
        PROVE  host'[g].phase \in {"idle", "stopped"}
    <2>1. PICK h, asked :
            /\ h \in Hosts
            /\ \/ host' = host
               \/ Only(h) /\ host'[h] = [host[h] EXCEPT !.asked = asked]
      BY <1>4, RequestSteps
    <2>2. CASE host' = host
      BY <2>2, <1>keeps
    <2>3. CASE h = g /\ host'[h] = [host[h] EXCEPT !.asked = asked]
      <3>1. host'[g].server = host[g].server /\ host'[g].phase = host[g].phase
        BY <2>3, <1>t DEF HostTypes
      <3> QED
        BY <3>1, <1>keeps
    <2> QED
      BY <2>1, <2>2, <2>3, <1>other
  <1>5. ASSUME NEW c \in Calls, StopOtherWorkspaces(c) \/ InsertStatus(c) \/ Stop(c)
        PROVE  host'[g].phase \in {"idle", "stopped"}
    <2>1. host'[g] = host[g] \/ host'[g].server = "dead"
      BY <1>5, StopSteps
    <2> QED
      BY <2>1, <1>keeps
  <1>6. ASSUME NEW h \in Hosts, HandshakeEnds(h)
        PROVE  host'[g].phase \in {"idle", "stopped"}
    <2>1. Only(h) /\ host'[h] = [host[h] EXCEPT !.reader = "listens", !.handshake = "ready"]
      BY <1>6, HandshakeSteps
    <2>2. CASE h = g
      <3>1. host'[g].server = host[g].server /\ host'[g].phase = host[g].phase
        BY <2>1, <2>2, <1>t DEF HostTypes
      <3> QED
        BY <3>1, <1>keeps
    <2> QED
      BY <2>1, <2>2, <1>other
  <1>7. ASSUME NEW h \in Hosts, ReaderEnds(h)
        PROVE  host'[g].phase \in {"idle", "stopped"}
    <2>1. PICK handshake :
            /\ Only(h)
            /\ host'[h] = [host[h] EXCEPT !.reader = "ended", !.phase = "stopped",
                                          !.handshake = handshake]
      BY <1>7, ReaderEndSteps
    <2>2. CASE h = g
      BY <2>1, <2>2, <1>t DEF HostTypes
    <2> QED
      BY <2>1, <2>2, <1>other
  <1>8. ASSUME NEW h \in Hosts, ReadMessage(h)
        PROVE  host'[g].phase \in {"idle", "stopped"}
    <2>1. PICK m : m = Head(out[h])
      OBVIOUS
    <2>2. /\ out[h] # <<>> /\ Only(h) /\ out[h] \in Seq(MessageTypes) /\ m \in MessageTypes
          /\ m.kind = "begin" => host'[h] = [host[h] EXCEPT !.phase = Phase(h, "loading")]
          /\ m.kind = "end" => host'[h] = [host[h] EXCEPT !.phase = Phase(h, "idle")]
          /\ m.kind = "answer" => host' = host
      BY <1>8, <2>1, MessageSteps
    <2>3. CASE h = g
      <3>1. host'[g].server = host[g].server
        BY <2>2, <2>3, <1>t DEF HostTypes, MessageTypes
      <3>2. host[g].phase \in {"idle", "stopped"}
        BY <3>1 DEF Checked
      <3>3. CASE host[g].phase = "stopped"
        BY <3>3, <2>2, <2>3, <1>t DEF HostTypes, MessageTypes, Phase
      <3>4. CASE host[g].phase = "idle"
        <4>1. NoSign(out[g])
          BY <3>1, <3>4, <1>t DEF Fits
        <4>2. m.kind = "answer"
          BY <4>1, <2>1, <2>2, <2>3, SignsRead
        <4> QED
          BY <4>2, <2>2, <1>keeps
      <3> QED
        BY <3>2, <3>3, <3>4
    <2> QED
      BY <2>2, <2>3, <1>other
  <1>9. ASSUME NEW h \in Hosts, LoadBegins(h)
        PROVE  host'[g].phase \in {"idle", "stopped"}
    <2>1. Only(h) /\ host'[h] = [host[h] EXCEPT !.due = host[h].due - 1, !.loading = TRUE]
      BY <1>9, BeginsSteps
    <2>2. CASE h = g
      <3>1. host'[g].server = host[g].server /\ host'[g].phase = host[g].phase
        BY <2>1, <2>2, <1>t DEF HostTypes
      <3> QED
        BY <3>1, <1>keeps
    <2> QED
      BY <2>1, <2>2, <1>other
  <1>10. ASSUME NEW h \in Hosts, LoadEnds(h)
         PROVE  host'[g].phase \in {"idle", "stopped"}
    <2>1. Only(h) /\ host'[h] = [host[h] EXCEPT !.loading = FALSE]
      BY <1>10, EndsSteps
    <2>2. CASE h = g
      <3>1. host'[g].server = host[g].server /\ host'[g].phase = host[g].phase
        BY <2>1, <2>2, <1>t DEF HostTypes
      <3> QED
        BY <3>1, <1>keeps
    <2> QED
      BY <2>1, <2>2, <1>other
  <1>11. ASSUME NEW h \in Hosts, NEW r \in host[h].asked, Answers(h, r)
         PROVE  host'[g].phase \in {"idle", "stopped"}
    <2>1. Only(h) /\ host'[h] = [host[h] EXCEPT !.asked = host[h].asked \ {r}]
      BY <1>11, AnswerSteps
    <2>2. CASE h = g
      <3>1. host'[g].server = host[g].server /\ host'[g].phase = host[g].phase
        BY <2>1, <2>2, <1>t DEF HostTypes
      <3> QED
        BY <3>1, <1>keeps
    <2> QED
      BY <2>1, <2>2, <1>other
  <1>12. ASSUME NEW h \in Hosts, ServerEnds(h)
         PROVE  host'[g].phase \in {"idle", "stopped"}
    <2>1. Only(h) /\ host'[h].server = "dead"
      BY <1>12, EndSteps
    <2> QED
      BY <2>1, <1>other
  <1>13. CASE ~Touches
    BY <1>13, Untouched, <1>keeps
  <1> QED
    BY <1>1, <1>2, <1>3, <1>4, <1>5, <1>6, <1>7, <1>8, <1>9, <1>10, <1>11, <1>12, <1>13 DEF Touches

LEMMA CheckedKept ==
    ASSUME Typed, Given, HostsFit, \A c \in Calls : Checked(c), Next, Slipless'
    PROVE  \A c \in Calls : Checked(c)'
  <1> SUFFICES ASSUME NEW d \in Calls, call'[d].op = "request", call'[d].at = "write",
                      host'[call'[d].host].server = "runs"
               PROVE  host'[call'[d].host].phase \in {"idle", "stopped"}
    BY DEF Checked
  <1>1. Follows(d)
    BY CallsFollow
  <1>2. CASE call[d].op = "request" /\ call[d].at = "write" /\ call'[d].host = call[d].host
    <2>1. PICK g \in Hosts : g = call[d].host
      BY <1>2 DEF Given, GivenFor
    <2>2. host'[g].server = "runs" /\ Checked(d)
      BY <2>1, <1>2
    <2> QED
      BY <1>2, <2>1, <2>2, PhaseKept
  <1>3. CASE host'[call'[d].host].phase = "idle"
    BY <1>3
  <1> QED
    BY <1>1, <1>2, <1>3 DEF Follows

\* What a step asks was checked: its server does not load.
LEMMA AskedFollow ==
    ASSUME Typed, Given, HostsFit, \A c \in Calls : Checked(c), Next,
           NEW g \in Hosts, NEW q \in host'[g].asked
    PROVE  q \in host[g].asked \/ ~q.early
  <1>t. host[g] \in HostTypes
    BY DEF Typed
  <1>keeps. ASSUME host'[g].asked \subseteq host[g].asked
            PROVE  q \in host[g].asked \/ ~q.early
    BY <1>keeps
  <1>other. ASSUME NEW h \in Hosts, Only(h), h # g
            PROVE  q \in host[g].asked \/ ~q.early
    BY <1>other DEF Only
  <1>1. ASSUME NEW c \in Calls, NEW h \in Hosts, SpawnHost(c, h)
        PROVE  q \in host[g].asked \/ ~q.early
    <2>1. Only(h) /\ host'[h] = [host[h] EXCEPT !.server = "runs", !.ws = call[c].ws]
      BY <1>1, SpawnSteps
    <2>2. CASE h = g
      BY <2>1, <2>2, <1>t DEF HostTypes
    <2> QED
      BY <2>1, <2>2, <1>other
  <1>2. ASSUME NEW c \in Calls, WriteDocument(c)
        PROVE  q \in host[g].asked \/ ~q.early
    <2>1. PICK h : h = call[c].host
      OBVIOUS
    <2>2. PICK load \in {0, 1} :
            /\ h \in Hosts /\ Only(h)
            /\ \/ host'[h] = [host[h] EXCEPT !.phase = Opened(h), !.opened = TRUE,
                                             !.due = host[h].due + load]
               \/ host'[h] = [host[h] EXCEPT !.phase = Opened(h)]
      BY <1>2, <2>1, DocumentSteps
    <2>3. CASE h = g
      <3>1. host'[g].asked = host[g].asked
        BY <2>2, <2>3, <1>t DEF HostTypes
      <3> QED
        BY <3>1
    <2> QED
      BY <2>2, <2>3, <1>other
  <1>3. ASSUME NEW c \in Calls, GraceEnds(c)
        PROVE  q \in host[g].asked \/ ~q.early
    <2>1. PICK h : h = call[c].host
      OBVIOUS
    <2>2. h \in Hosts /\ Only(h) /\ host'[h] = [host[h] EXCEPT !.phase = "idle"]
      BY <1>3, <2>1, GraceSteps
    <2>3. CASE h = g
      BY <2>2, <2>3, <1>t DEF HostTypes
    <2> QED
      BY <2>2, <2>3, <1>other
  <1>4. ASSUME NEW c \in Calls, WriteRequest(c)
        PROVE  q \in host[g].asked \/ ~q.early
    <2>1. PICK h : h = call[c].host
      OBVIOUS
    <2>2. /\ h \in Hosts /\ call[c].op = "request" /\ call[c].at = "write"
          /\ \/ host' = host
             \/ /\ Runs(h) /\ Only(h)
                /\ host'[h] = [host[h] EXCEPT !.asked = host[h].asked \cup {[to |-> c, early |-> Loads(h)]}]
      BY <1>4, <2>1, RequestSteps
    <2>3. CASE host' = host
      BY <2>3
    <2>4. CASE h = g /\ host' # host
      <3>1. host[g].server = "runs" /\ host[g].phase \in {"idle", "stopped"}
        BY <2>1, <2>2, <2>4 DEF Runs, Checked
      <3>2. host[g].due = 0 /\ ~host[g].loading
        BY <3>1 DEF HostsFit, Fits
      <3>3. Loads(h) = FALSE
        BY <3>2, <2>4 DEF Loads
      <3>4. q \in host[g].asked \cup {[to |-> c, early |-> FALSE]}
        BY <2>2, <2>4, <3>3, <1>t DEF HostTypes
      <3> QED
        BY <3>4
    <2> QED
      BY <2>2, <2>3, <2>4, <1>other
  <1>5. ASSUME NEW c \in Calls, StopOtherWorkspaces(c) \/ InsertStatus(c) \/ Stop(c)
        PROVE  q \in host[g].asked \/ ~q.early
    <2>1. host'[g] = host[g] \/ host'[g].asked = {}
      BY <1>5, StopSteps
    <2> QED
      BY <2>1
  <1>6. ASSUME NEW h \in Hosts, HandshakeEnds(h)
        PROVE  q \in host[g].asked \/ ~q.early
    <2>1. Only(h) /\ host'[h] = [host[h] EXCEPT !.reader = "listens", !.handshake = "ready"]
      BY <1>6, HandshakeSteps
    <2>2. CASE h = g
      BY <2>1, <2>2, <1>t DEF HostTypes
    <2> QED
      BY <2>1, <2>2, <1>other
  <1>7. ASSUME NEW h \in Hosts, ReaderEnds(h)
        PROVE  q \in host[g].asked \/ ~q.early
    <2>1. PICK handshake :
            /\ Only(h)
            /\ host'[h] = [host[h] EXCEPT !.reader = "ended", !.phase = "stopped",
                                          !.handshake = handshake]
      BY <1>7, ReaderEndSteps
    <2>2. CASE h = g
      BY <2>1, <2>2, <1>t DEF HostTypes
    <2> QED
      BY <2>1, <2>2, <1>other
  <1>8. ASSUME NEW h \in Hosts, ReadMessage(h)
        PROVE  q \in host[g].asked \/ ~q.early
    <2>1. PICK phase :
            /\ Only(h)
            /\ host' = host \/ host'[h] = [host[h] EXCEPT !.phase = phase]
      BY <1>8, MessageSteps DEF MessageTypes
    <2>2. CASE h = g
      BY <2>1, <2>2, <1>t DEF HostTypes
    <2> QED
      BY <2>1, <2>2, <1>other
  <1>9. ASSUME NEW h \in Hosts, LoadBegins(h) \/ LoadEnds(h)
        PROVE  q \in host[g].asked \/ ~q.early
    <2>1. /\ Only(h)
          /\ \/ host'[h] = [host[h] EXCEPT !.due = host[h].due - 1, !.loading = TRUE]
             \/ host'[h] = [host[h] EXCEPT !.loading = FALSE]
      BY <1>9, BeginsSteps, EndsSteps
    <2>2. CASE h = g
      <3>1. host'[g].asked = host[g].asked
        BY <2>1, <2>2, <1>t DEF HostTypes
      <3> QED
        BY <3>1
    <2> QED
      BY <2>1, <2>2, <1>other
  <1>10. ASSUME NEW h \in Hosts, NEW r \in host[h].asked, Answers(h, r)
         PROVE  q \in host[g].asked \/ ~q.early
    <2>1. Only(h) /\ host'[h] = [host[h] EXCEPT !.asked = host[h].asked \ {r}]
      BY <1>10, AnswerSteps
    <2>2. CASE h = g
      BY <2>1, <2>2, <1>t DEF HostTypes
    <2> QED
      BY <2>1, <2>2, <1>other
  <1>11. ASSUME NEW h \in Hosts, ServerEnds(h)
         PROVE  q \in host[g].asked \/ ~q.early
    <2>1. Only(h) /\ host'[h].asked = {}
      BY <1>11, EndSteps
    <2> QED
      BY <2>1, <1>other
  <1>12. CASE ~Touches
    BY <1>12, Untouched
  <1> QED
    BY <1>1, <1>2, <1>3, <1>4, <1>5, <1>6, <1>7, <1>8, <1>9, <1>10, <1>11, <1>12 DEF Touches

\* An answer is as early as its request was asked.
LEMMA WrittenFollow ==
    ASSUME Typed, Given, NoneEarly, Next, NEW g \in Hosts
    PROVE  \A i \in 1..Len(out'[g]) : ~out'[g][i].early
  <1>0. out[g] \in Seq(MessageTypes) /\ \A i \in 1..Len(out[g]) : ~out[g][i].early
    BY DEF Typed, NoneEarly
  <1>keeps. ASSUME out'[g] = out[g]
            PROVE  \A i \in 1..Len(out'[g]) : ~out'[g][i].early
    BY <1>keeps, <1>0
  <1>says. ASSUME NEW m \in MessageTypes, ~m.early, out'[g] = Append(out[g], m)
           PROVE  \A i \in 1..Len(out'[g]) : ~out'[g][i].early
    <2>1. /\ Len(out[g]) \in Nat /\ Len(out'[g]) = Len(out[g]) + 1
          /\ out'[g][Len(out[g]) + 1] = m
          /\ \A i \in 1..Len(out[g]) : out'[g][i] = out[g][i]
      BY <1>says, <1>0, Appended
    <2>2. ASSUME NEW i \in 1..Len(out'[g])
          PROVE  i \in 1..Len(out[g]) \/ i = Len(out[g]) + 1
      BY <2>1
    <2> QED
      BY <2>1, <2>2, <1>0, <1>says
  <1>1. ASSUME NEW c \in Calls,
               (\E h \in Hosts : SpawnHost(c, h)) \/ WriteDocument(c) \/ GraceEnds(c) \/ WriteRequest(c)
        PROVE  \A i \in 1..Len(out'[g]) : ~out'[g][i].early
    BY <1>1, <1>keeps DEF SpawnHost, WriteDocument, GraceEnds, WriteRequest
  <1>2. ASSUME NEW c \in Calls, StopOtherWorkspaces(c) \/ InsertStatus(c) \/ Stop(c)
        PROVE  \A i \in 1..Len(out'[g]) : ~out'[g][i].early
    BY <1>2, <1>keeps, StopSteps
  <1>3. ASSUME NEW h \in Hosts, HandshakeEnds(h) \/ ReaderEnds(h) \/ ServerEnds(h)
        PROVE  \A i \in 1..Len(out'[g]) : ~out'[g][i].early
    BY <1>3, <1>keeps DEF HandshakeEnds, ReaderEnds, ServerEnds
  <1>4. ASSUME NEW h \in Hosts, ReadMessage(h)
        PROVE  \A i \in 1..Len(out'[g]) : ~out'[g][i].early
    <2>1. /\ out[h] # <<>> /\ out'[h] = Tail(out[h])
          /\ \A f \in Hosts \ {h} : out'[f] = out[f]
      BY <1>4, MessageSteps
    <2>2. CASE h = g
      <3>1. /\ Len(out[g]) \in Nat \ {0} /\ Len(out'[g]) = Len(out[g]) - 1
            /\ \A i \in 1..(Len(out[g]) - 1) : out'[g][i] = out[g][i + 1]
        BY <2>1, <2>2, <1>0, Read
      <3>2. ASSUME NEW i \in 1..Len(out'[g])
            PROVE  i + 1 \in 1..Len(out[g]) /\ out'[g][i] = out[g][i + 1]
        BY <3>1
      <3> QED
        BY <3>2, <1>0
    <2>3. CASE h # g
      BY <2>1, <2>3, <1>keeps
    <2> QED
      BY <2>2, <2>3
  <1>5. ASSUME NEW h \in Hosts, LoadBegins(h) \/ LoadEnds(h)
        PROVE  \A i \in 1..Len(out'[g]) : ~out'[g][i].early
    <2>1. PICK m \in MessageTypes :
            ~m.early /\ out'[h] = Append(out[h], m) /\ \A f \in Hosts \ {h} : out'[f] = out[f]
      BY <1>5, BeginsSteps, EndsSteps
    <2> QED
      BY <2>1, <1>keeps, <1>says
  <1>6. ASSUME NEW h \in Hosts, NEW r \in host[h].asked, Answers(h, r)
        PROVE  \A i \in 1..Len(out'[g]) : ~out'[g][i].early
    <2>1. PICK m \in MessageTypes :
            /\ m.early => r.early
            /\ out'[h] = Append(out[h], m) /\ \A f \in Hosts \ {h} : out'[f] = out[f]
      BY <1>6, AnswerSteps
    <2>2. ~r.early
      BY DEF NoneEarly
    <2> QED
      BY <2>1, <2>2, <1>keeps, <1>says
  <1>7. CASE ~Touches
    BY <1>7, Untouched, <1>keeps
  <1> QED
    BY <1>1, <1>2, <1>3, <1>4, <1>5, <1>6, <1>7 DEF Touches

LEMMA NoneEarlyKept ==
    ASSUME Typed, Given, Steady, Next
    PROVE  NoneEarly'
  <1>0. HostsFit /\ (\A c \in Calls : Checked(c)) /\ NoneEarly
    BY DEF Steady, HostsFit
  <1>1. ASSUME NEW h \in Hosts, NEW q \in host'[h].asked
        PROVE  ~q.early
    BY <1>0, AskedFollow DEF NoneEarly
  <1>2. ASSUME NEW h \in Hosts
        PROVE  \A i \in 1..Len(out'[h]) : ~out'[h][i].early
    BY <1>0, WrittenFollow
  <1>3. ASSUME NEW c \in Calls, call'[c].early
        PROVE  FALSE
    <2>1. Follows(c) /\ ~call[c].early
      BY <1>0, CallsFollow DEF NoneEarly
    <2>2. PICK h \in Hosts : out[h] # <<>> /\ out[h] \in Seq(MessageTypes) /\ Head(out[h]).early
      BY <2>1, <1>3 DEF Follows
    <2>3. Head(out[h]) = out[h][1] /\ 1 \in 1..Len(out[h])
      BY <2>2, Read
    <2> QED
      BY <1>0, <2>2, <2>3 DEF NoneEarly
  <1> QED
    BY <1>1, <1>2, <1>3 DEF NoneEarly

(***************************************************************************)
(* The invariant, and the theorem.                                         *)
(***************************************************************************)
LEMMA LoadInit ==
    ASSUME Init
    PROVE  LoadInv
  <1>1. Unborn \in HostTypes
    BY DEF Unborn, HostTypes, Places
  <1>2. <<>> \in Seq(MessageTypes) /\ Len(<<>>) = 0
    BY EmptySeq
  <1>3. Typed
    <2>1. 0 \in 0..MaxHosts /\ Nowhere \in Places
      BY HostsAssumption DEF Places
    <2> QED
      BY <1>1, <1>2, <2>1, NoCallTyped DEF Init, Typed
  <1>4. Given
    BY DEF Init, Given, GivenFor, NoCall
  <1>5. \A h \in Hosts : Fits(host[h], out[h]) /\ Fresh(host[h], out[h])
    BY DEF Init, Fits, Fresh, Unborn
  <1>6. \A c \in Calls : Checked(c)
    BY DEF Init, Checked, NoCall
  <1>7. NoneEarly
    BY <1>2 DEF Init, NoneEarly, NoCall, Unborn
  <1> QED
    BY <1>3, <1>4, <1>5, <1>6, <1>7 DEF LoadInv, Steady

LEMMA LoadStep ==
    ASSUME LoadInv, [Next]_vars
    PROVE  LoadInv'
  <1>1. CASE Next
    <2>1. Typed' /\ Given'
      BY <1>1, TypedStep DEF LoadInv
    <2>2. ASSUME Slipless'
          PROVE  Steady'
      <3>1. Slipless
        BY <1>1, <2>2, OddGrows DEF Slipless
      <3>2. Typed /\ Given /\ Steady /\ HostsFit /\ \A c \in Calls : Checked(c)
        BY <3>1 DEF LoadInv, Steady, HostsFit
      <3>3. HostsFit'
        BY <1>1, <2>2, <3>2, HostsKept
      <3>4. \A c \in Calls : Checked(c)'
        BY <1>1, <2>2, <3>2, CheckedKept
      <3>5. NoneEarly'
        BY <1>1, <3>2, NoneEarlyKept
      <3> QED
        BY <3>3, <3>4, <3>5 DEF Steady, HostsFit
    <2> QED
      BY <2>1, <2>2 DEF LoadInv
  <1>2. CASE UNCHANGED vars
    BY <1>2 DEF vars, LoadInv, Typed, Given, GivenFor, Slipless, Steady, Fits, Fresh, Checked,
       NoneEarly, NoSign, OneSign, TwoSigns
  <1> QED
    BY <1>1, <1>2

\* A request takes no answer from a server that loads, as long as no load
\* begins after its grace window and no document slips between a check and its
\* write or into a load that is expected or under way (readiness.rs, host.rs).
THEOREM AnswersAwaitLoad == Spec => []AnswersAfterLoad
  <1>1. LoadInv => AnswersAfterLoad
    BY DEF LoadInv, Steady, NoneEarly, Slipless, AnswersAfterLoad
  <1> QED
    BY LoadInit, LoadStep, <1>1, PTL DEF Spec

(***************************************************************************)
(* One server: a server that runs is in the slot of its workspace, or on   *)
(* its way there with the ensure that started it; and a workspace that has *)
(* a host, or an ensure on its way, is the one the page shows, or a stop   *)
(* of it is on its way too. As long as no call has overtaken another, that *)
(* is kept by every step.                                                  *)
(***************************************************************************)
Asks(c) == call[c].op = "ensure"

\* An ensure that found no host that runs.
Past(c) == Asks(c) /\ call[c].at # "start"

\* The calls are used one after the other.
InOrder == \E n \in Nat : \A c \in Calls : call[c].at = "unused" <=> n < c

\* An ensure has the host it started, once it has; the page listens to those
\* of the workspace it shows.
StageOf(c) ==
    /\ call[c].at \in {"unused", "done"} => call[c].op = "none"
    /\ Asks(c) =>
         /\ call[c].at \in {"start", "stop others", "spawn", "insert"}
         /\ call[c].at # "insert" => call[c].host = 0
         /\ call[c].host # 0 => /\ call[c].host \in Hosts
                                /\ host[call[c].host].ws = call[c].ws
                                /\ host[call[c].host].server # "unborn"
         /\ call[c].heard => call[c].ws = page.ws

\* Hosts and slots agree on the workspaces.
SitesOf(h) == host[h].server # "unborn" => host[h].ws \in Workspaces

SlotOf(w) ==
    slot[w] # 0 => /\ slot[w] \in Hosts
                   /\ host[slot[w]].ws = w /\ host[slot[w]].server # "unborn"

Sited ==
    /\ \A c \in Calls : StageOf(c)
    /\ \A h \in Hosts : SitesOf(h)
    /\ \A w \in Workspaces : SlotOf(w)

OwnedBy(h) ==
    Runs(h) => slot[host[h].ws] = h \/ \E c \in Calls : Asks(c) /\ call[c].host = h

Wanted(w) == slot[w] # 0 \/ \E c \in Calls : Asks(c) /\ call[c].ws = w

\* The page has left the workspace, and its stop is on its way.
Left(w) == \E c \in Calls : At(c, "stop", "start") /\ call[c].ws = w

Leaving(w) == Wanted(w) => w # Nowhere /\ (w = page.ws \/ Left(w))

One == \A c, d \in Calls : Past(c) /\ Past(d) => c = d

Ours == /\ \A h \in Hosts : OwnedBy(h)
        /\ \A w \in Workspaces : Leaving(w)
        /\ One

InTurn == "overtaken" \notin odd => Ours

PageInv == LoadInv /\ InOrder /\ Sited /\ InTurn

\* What the steps of a reader, of a server, of a document and of a request
\* have in common: the calls to the registry stay, and the servers too, but
\* for one that ends.
ServedOnly ==
    /\ slot' = slot /\ page' = page /\ odd \subseteq odd'
    /\ \A c \in Calls :
         \/ call'[c] = call[c]
         \/ /\ call[c].op \in {"open", "request"} /\ call[c].at # "unused"
            /\ \/ call'[c].op \in {"open", "request"} /\ call'[c].at \notin {"unused", "done"}
               \/ call'[c].op = "none" /\ call'[c].at = "done"
    /\ \A h \in Hosts :
         /\ host'[h].ws = host[h].ws
         /\ (host'[h].server = "unborn") <=> (host[h].server = "unborn")
         /\ Runs(h)' => Runs(h)
         /\ odd' \cap Separations = {} =>
              (Runs(h) => Runs(h)') /\ (host[h].opened => host'[h].opened)

LEMMA ServedKeeps ==
    ASSUME InOrder, Sited, InTurn, ServedOnly
    PROVE  InOrder' /\ Sited' /\ InTurn'
  <1>s. slot' = slot /\ page' = page /\ odd \subseteq odd'
    BY DEF ServedOnly
  <1>h. \A h \in Hosts : /\ host'[h].ws = host[h].ws /\ (Runs(h)' => Runs(h))
                         /\ (host'[h].server = "unborn") <=> (host[h].server = "unborn")
    BY DEF ServedOnly
  <1>c. ASSUME NEW c \in Calls
        PROVE  \/ call'[c] = call[c]
               \/ /\ call[c].op \in {"open", "request"} /\ call[c].at # "unused"
                  /\ call'[c].op \in {"open", "request"} \/ call'[c].at = "done"
                  /\ call'[c].op \in {"open", "request", "none"} /\ call'[c].at # "unused"
                  /\ call'[c].at = "done" => call'[c].op = "none"
    BY DEF ServedOnly
  <1>a. ASSUME NEW c \in Calls
        PROVE  /\ Asks(c) \/ Asks(c)' \/ At(c, "stop", "start") => call'[c] = call[c]
               /\ (call'[c].at = "unused") <=> (call[c].at = "unused")
    BY <1>c DEF Asks, At
  <1>1. InOrder'
    BY <1>a DEF InOrder
  <1>2. ASSUME NEW c \in Calls PROVE StageOf(c)'
    <2>0. StageOf(c)
      BY DEF Sited
    <2>1. CASE call'[c] = call[c]
      BY <2>0, <2>1, <1>h, <1>s DEF StageOf, Asks
    <2>2. CASE call'[c] # call[c]
      BY <2>2, <1>c DEF StageOf, Asks
    <2> QED
      BY <2>1, <2>2
  <1>3. ASSUME NEW h \in Hosts PROVE SitesOf(h)'
    BY <1>h DEF Sited, SitesOf
  <1>4. ASSUME NEW w \in Workspaces PROVE SlotOf(w)'
    BY <1>h, <1>s DEF Sited, SlotOf
  <1>5. ASSUME "overtaken" \notin odd' PROVE Ours'
    <2>0. Ours
      BY <1>5, <1>s DEF InTurn
    <2>1. ASSUME NEW h \in Hosts PROVE OwnedBy(h)'
      <3>1. OwnedBy(h) /\ (Runs(h)' => Runs(h))
        BY <2>0, <1>h DEF Ours, Runs
      <3> QED
        BY <3>1, <1>a, <1>s, <1>h DEF OwnedBy, Asks
    <2>2. ASSUME NEW w \in Workspaces PROVE Leaving(w)'
      <3>1. Leaving(w) /\ (Wanted(w)' => Wanted(w))
        BY <2>0, <1>s, <1>a DEF Ours, Wanted, Asks
      <3>2. Left(w) => Left(w)'
        BY <1>a DEF Left, At
      <3> QED
        BY <3>1, <3>2, <1>s DEF Leaving
    <2>3. One'
      BY <2>0, <1>a DEF Ours, One, Past, Asks
    <2> QED
      BY <2>1, <2>2, <2>3 DEF Ours
  <1> QED
    BY <1>1, <1>2, <1>3, <1>4, <1>5 DEF Sited, InTurn

\* Stopped hosts are dead, and keep their workspace; the others stay.
LEMMA StoppedOnly ==
    ASSUME host \in [Hosts -> HostTypes], NEW hs, NEW h \in Hosts
    PROVE  /\ Stopped(hs)[h].ws = host[h].ws
           /\ h \in hs => Stopped(hs)[h].server = "dead"
           /\ h \notin hs => Stopped(hs)[h] = host[h]
  <1>1. host[h] \in HostTypes
    OBVIOUS
  <1>2. CASE h \notin hs
    BY <1>2 DEF Stopped
  <1>3. CASE h \in hs
    <2>1. Stopped(hs)[h] = [Killed(h) EXCEPT !.phase = "stopped", !.handshake = "failed"]
      BY <1>3 DEF Stopped
    <2>2. Killed(h).ws = host[h].ws /\ Killed(h).server = "dead" /\ Killed(h) \in HostTypes
      BY <1>1, KilledTyped DEF Killed, HostTypes
    <2>3. ASSUME NEW k \in HostTypes, NEW t,
                 t = [k EXCEPT !.phase = "stopped", !.handshake = "failed"]
          PROVE  t.ws = k.ws /\ t.server = k.server
      BY <2>3 DEF HostTypes
    <2> QED
      BY <2>1, <2>2, <2>3, <1>3
  <1> QED
    BY <1>2, <1>3

\* Which calls are used stays.
LEMMA OrderKept ==
    ASSUME InOrder, \A c \in Calls : (call'[c].at = "unused") <=> (call[c].at = "unused")
    PROVE  InOrder'
  BY DEF InOrder

\* One call goes on or ends, the others stay.
Moves(c) == \A d \in Calls \ {c} : call'[d] = call[d]

LEMMA DoneIs ==
    ASSUME Typed, NEW c \in Calls, Done(c)
    PROVE  call'[c].op = "none" /\ call'[c].at = "done" /\ Moves(c)
  BY DoneTyped, NoCallTyped DEF Typed, Moves

LEMMA GoesOn ==
    ASSUME Typed, NEW c \in Calls, NEW at \in {"stop others", "spawn", "insert", "await", "write", "asked"},
           Go(c, at)
    PROVE  /\ call'[c].op = call[c].op /\ call'[c].ws = call[c].ws /\ call'[c].at = at
           /\ call'[c].host = call[c].host /\ call'[c].heard = call[c].heard /\ Moves(c)
  <1>1. call'[c] = [call[c] EXCEPT !.at = at] /\ call[c] \in CallTypes /\ Moves(c)
    BY GoTyped DEF Typed, Moves
  <1> QED
    BY <1>1 DEF CallTypes

\* The page's workspace is not what it hears of an ensure.
LEMMA ToldIs ==
    ASSUME Typed, NEW c, NEW ready, page' = Told(c, ready)
    PROVE  /\ page'.ws = page.ws /\ page'.synced = page.synced /\ page'.code = page.code
           /\ page'.ready = IF call[c].heard THEN ready ELSE page.ready
  <1>1. CASE ~call[c].heard
    BY <1>1 DEF Told
  <1>2. CASE call[c].heard
    <2>1. page' = [page EXCEPT !.ready = ready]
      BY <1>2 DEF Told
    <2> QED
      BY <2>1, <1>2 DEF Typed
  <1> QED
    BY <1>1, <1>2

LEMMA ReadyStatusKeeps ==
    ASSUME Typed, InOrder, Sited, InTurn, NEW c \in Calls, ReadyStatus(c)
    PROVE  InOrder' /\ Sited' /\ InTurn'
  <1>a. Asks(c) /\ call[c].at = "start"
    BY DEF ReadyStatus, At, Asks
  <1>s. slot' = slot /\ host' = host /\ page'.ws = page.ws
    <2>1. page' = page \/ page' = Told(c, call[c].ws)
      BY DEF ReadyStatus
    <2> QED
      BY <2>1, ToldIs DEF ReadyStatus
  <1>c. /\ Moves(c)
        /\ \/ call'[c].op = "none" /\ call'[c].at = "done"
           \/ /\ call'[c].op = call[c].op /\ call'[c].ws = call[c].ws /\ call'[c].at = "stop others"
              /\ call'[c].host = call[c].host /\ call'[c].heard = call[c].heard
    BY DoneIs, GoesOn DEF ReadyStatus
  <1>d. \A d \in Calls : /\ (call'[d].at = "unused") <=> (call[d].at = "unused")
                         /\ Asks(d)' => Asks(d) /\ call'[d].ws = call[d].ws
                         /\ d # c => call'[d] = call[d]
    BY <1>a, <1>c DEF Moves, Asks
  <1>1. InOrder'
    BY <1>d, OrderKept
  <1>2. ASSUME NEW d \in Calls PROVE StageOf(d)'
    <2>0. StageOf(d)
      BY DEF Sited
    <2>1. CASE d # c
      BY <2>0, <2>1, <1>d, <1>s DEF StageOf, Asks
    <2>2. CASE d = c
      BY <2>0, <2>2, <1>a, <1>c, <1>s DEF StageOf, Asks
    <2> QED
      BY <2>1, <2>2
  <1>3. Sited'
    BY <1>2, <1>s DEF Sited, SitesOf, SlotOf
  <1>4. ASSUME "overtaken" \notin odd' PROVE Ours'
    <2>0. \A d \in Calls : ~Past(d)
      <3>1. ~\E d \in Calls : call[d].op = "ensure" /\ call[d].at \notin {"start", "done"}
        BY <1>4 DEF ReadyStatus
      <3>2. \A d \in Calls : Asks(d) => call[d].at # "done"
        BY DEF Sited, StageOf
      <3> QED
        BY <3>1, <3>2 DEF Past, Asks
    <2>1. Ours
      BY <1>4 DEF InTurn, ReadyStatus
    <2>2. ASSUME NEW h \in Hosts PROVE OwnedBy(h)'
      <3>1. call[c].host = 0 /\ h # 0
        <4>1. StageOf(c) /\ call[c].at # "insert" /\ h \in 1..MaxHosts
          BY <1>a DEF Sited, Hosts
        <4> QED
          BY <4>1, <1>a DEF StageOf
      <3>2. OwnedBy(h)
        BY <2>1 DEF Ours
      <3> QED
        BY <3>1, <3>2, <1>d, <1>s DEF OwnedBy, Runs, Asks
    <2>3. ASSUME NEW w \in Workspaces PROVE Leaving(w)'
      <3>1. Leaving(w) /\ (Wanted(w)' => Wanted(w))
        BY <2>1, <1>d, <1>s DEF Ours, Wanted
      <3>2. Left(w) => Left(w)'
        BY <1>d, <1>a DEF Left, At, Asks
      <3> QED
        BY <3>1, <3>2, <1>s DEF Leaving
    <2>4. One'
      BY <2>0, <1>d DEF One, Past, Asks
    <2> QED
      BY <2>2, <2>3, <2>4 DEF Ours
  <1> QED
    BY <1>1, <1>3, <1>4 DEF InTurn

LEMMA StopOthersKeeps ==
    ASSUME Typed, InOrder, Sited, InTurn, NEW c \in Calls, StopOtherWorkspaces(c)
    PROVE  InOrder' /\ Sited' /\ InTurn'
  <1> DEFINE others == Workspaces \ {call[c].ws}
             hs == {slot[w] : w \in others}
  <1>a. Asks(c) /\ call[c].at = "stop others"
    BY DEF StopOtherWorkspaces, At, Asks
  <1>s. page' = page /\ host' = Stopped(hs) /\ odd \subseteq odd'
        /\ slot' = [w \in Workspaces |-> IF w \in others THEN 0 ELSE slot[w]]
    BY DEF StopOtherWorkspaces
  <1>h. ASSUME NEW h \in Hosts
        PROVE  /\ host'[h].ws = host[h].ws
               /\ host'[h].server = "unborn" => host[h].server = "unborn"
               /\ host[h].server = "unborn" => host'[h].server = "unborn"
               /\ Runs(h)' => Runs(h) /\ h \notin hs
    <2>1. /\ Stopped(hs)[h].ws = host[h].ws
          /\ h \in hs => Stopped(hs)[h].server = "dead"
          /\ h \notin hs => Stopped(hs)[h] = host[h]
      BY StoppedOnly DEF Typed
    <2>2. h \in hs => host[h].server # "unborn"
      <3>1. \A w \in Workspaces : SlotOf(w)
        BY DEF Sited
      <3>2. 0 \notin Hosts
        BY DEF Hosts
      <3> QED
        BY <3>1, <3>2 DEF SlotOf
    <2> QED
      BY <2>1, <2>2, <1>s DEF Runs
  <1> HIDE DEF hs
  <1>w. ASSUME NEW w \in Workspaces PROVE slot'[w] = slot[w] \/ slot'[w] = 0
    BY <1>s
  <1>c. /\ Moves(c) /\ call'[c].op = call[c].op /\ call'[c].ws = call[c].ws /\ call'[c].at = "spawn"
        /\ call'[c].host = call[c].host /\ call'[c].heard = call[c].heard
    BY GoesOn DEF StopOtherWorkspaces
  <1>d. \A d \in Calls : /\ (call'[d].at = "unused") <=> (call[d].at = "unused")
                         /\ Asks(d)' => Asks(d)
                         /\ call'[d].op = call[d].op /\ call'[d].ws = call[d].ws
                         /\ call'[d].host = call[d].host
                         /\ (call'[d].at = "start") <=> (call[d].at = "start")
                         /\ d # c => call'[d] = call[d]
    BY <1>a, <1>c DEF Moves, Asks
  <1>1. InOrder'
    BY <1>d, OrderKept
  <1>2. ASSUME NEW d \in Calls PROVE StageOf(d)'
    <2>0. StageOf(d)
      BY DEF Sited
    <2>1. CASE d # c
      BY <2>0, <2>1, <1>d, <1>s, <1>h DEF StageOf, Asks
    <2>2. CASE d = c
      BY <2>0, <2>2, <1>a, <1>c, <1>s, <1>h DEF StageOf, Asks
    <2> QED
      BY <2>1, <2>2
  <1>3. ASSUME NEW w \in Workspaces PROVE SlotOf(w)'
    BY <1>w, <1>h DEF Sited, SlotOf
  <1>4. ASSUME NEW h \in Hosts PROVE SitesOf(h)'
    BY <1>h DEF Sited, SitesOf
  <1>5. ASSUME "overtaken" \notin odd' PROVE Ours'
    <2>1. Ours
      BY <1>5, <1>s DEF InTurn
    <2>2. ASSUME NEW h \in Hosts PROVE OwnedBy(h)'
      <3>1. ASSUME Runs(h)', slot[host[h].ws] = h PROVE slot'[host[h].ws] = h
        <4>1. h \notin hs /\ host[h].ws \in Workspaces
          BY <3>1, <1>h DEF Sited, SitesOf, Runs
        <4>2. host[h].ws \notin others
          BY <4>1, <3>1 DEF hs
        <4> QED
          BY <4>1, <4>2, <3>1, <1>s
      <3>2. OwnedBy(h)
        BY <2>1 DEF Ours
      <3> QED
        BY <3>1, <3>2, <1>d, <1>h DEF OwnedBy, Asks
    <2>3. ASSUME NEW w \in Workspaces PROVE Leaving(w)'
      <3>1. Leaving(w) /\ (Wanted(w)' => Wanted(w))
        BY <2>1, <1>d, <1>w DEF Ours, Wanted
      <3>2. Left(w) => Left(w)'
        BY <1>d DEF Left, At
      <3> QED
        BY <3>1, <3>2, <1>s DEF Leaving
    <2>4. One'
      BY <2>1, <1>d DEF Ours, One, Past, Asks
    <2> QED
      BY <2>2, <2>3, <2>4 DEF Ours
  <1> QED
    BY <1>1, <1>2, <1>3, <1>4, <1>5 DEF InTurn, Sited

LEMMA SpawnKeeps ==
    ASSUME Typed, Given, InOrder, Sited, InTurn, NEW c \in Calls, NEW g \in Hosts, SpawnHost(c, g)
    PROVE  InOrder' /\ Sited' /\ InTurn'
  <1>a. /\ Asks(c) /\ call[c].at = "spawn" /\ host[g].server = "unborn" /\ g # 0
        /\ call[c].ws \in Workspaces /\ StageOf(c)
    BY DEF SpawnHost, At, Asks, Given, GivenFor, Sited, Hosts
  <1>s. slot' = slot /\ page' = page /\ odd' = odd
    BY DEF SpawnHost
  <1>h. /\ host'[g].ws = call[c].ws /\ host'[g].server = "runs"
        /\ \A h \in Hosts \ {g} : host'[h] = host[h]
    <2>1. host'[g] = [host[g] EXCEPT !.server = "runs", !.ws = call[c].ws] /\ host[g] \in HostTypes
          /\ Only(g)
      BY SpawnSteps DEF Typed
    <2> QED
      BY <2>1 DEF HostTypes, Only
  <1>c. /\ Moves(c) /\ call'[c].op = call[c].op /\ call'[c].ws = call[c].ws /\ call'[c].at = "insert"
        /\ call'[c].host = g /\ call'[c].heard = call[c].heard
    <2>1. call' = [call EXCEPT ![c].at = "insert", ![c].host = g] /\ call[c] \in CallTypes
          /\ call \in [Calls -> CallTypes]
      BY DEF SpawnHost, Typed
    <2> QED
      BY <2>1 DEF CallTypes, Moves
  <1>d. \A d \in Calls : /\ (call'[d].at = "unused") <=> (call[d].at = "unused")
                         /\ call'[d].op = call[d].op /\ call'[d].ws = call[d].ws
                         /\ (call'[d].at = "start") <=> (call[d].at = "start")
                         /\ d # c => call'[d] = call[d]
    BY <1>a, <1>c DEF Moves
  <1>1. InOrder'
    BY <1>d, OrderKept
  <1>2. ASSUME NEW d \in Calls PROVE StageOf(d)'
    <2>0. StageOf(d)
      BY DEF Sited
    <2>1. CASE d # c
      <3>1. call'[d] = call[d]
        BY <1>d, <2>1
      <3>2. Asks(d) /\ call[d].host # 0 =>
              /\ call[d].host \in Hosts \ {g}
              /\ host'[call[d].host] = host[call[d].host]
        BY <2>0, <1>a, <1>h DEF StageOf
      <3> QED
        BY <2>0, <3>1, <3>2, <1>s DEF StageOf, Asks
    <2>2. CASE d = c
      BY <2>0, <2>2, <1>a, <1>c, <1>s, <1>h DEF StageOf, Asks
    <2> QED
      BY <2>1, <2>2
  <1>3. ASSUME NEW w \in Workspaces PROVE SlotOf(w)'
    <2>1. SlotOf(w)
      BY DEF Sited
    <2>2. slot[w] # 0 => host'[slot[w]] = host[slot[w]]
      BY <2>1, <1>h, <1>a DEF SlotOf
    <2> QED
      BY <2>1, <2>2, <1>s DEF SlotOf
  <1>4. ASSUME NEW h \in Hosts PROVE SitesOf(h)'
    BY <1>h, <1>a DEF Sited, SitesOf
  <1>5. ASSUME "overtaken" \notin odd' PROVE Ours'
    <2>1. Ours
      BY <1>5, <1>s DEF InTurn
    <2>2. ASSUME NEW h \in Hosts PROVE OwnedBy(h)'
      <3>1. CASE h = g
        BY <3>1, <1>a, <1>c DEF OwnedBy, Asks
      <3>2. CASE h # g
        <4>1. OwnedBy(h) /\ call[c].host = 0 /\ h # 0 /\ host'[h] = host[h]
          BY <2>1, <3>2, <1>a, <1>h DEF Ours, StageOf, Hosts
        <4> QED
          BY <4>1, <1>d, <1>s DEF OwnedBy, Runs, Asks
      <3> QED
        BY <3>1, <3>2
    <2>3. ASSUME NEW w \in Workspaces PROVE Leaving(w)'
      <3>1. Leaving(w) /\ (Wanted(w)' => Wanted(w))
        BY <2>1, <1>d, <1>s DEF Ours, Wanted, Asks
      <3>2. Left(w) => Left(w)'
        BY <1>d DEF Left, At
      <3> QED
        BY <3>1, <3>2, <1>s DEF Leaving
    <2>4. One'
      BY <2>1, <1>d DEF Ours, One, Past, Asks
    <2> QED
      BY <2>2, <2>3, <2>4 DEF Ours
  <1> QED
    BY <1>1, <1>2, <1>3, <1>4, <1>5 DEF InTurn, Sited

LEMMA SpawnFailsKeeps ==
    ASSUME Typed, InOrder, Sited, InTurn, NEW c \in Calls, SpawnFails(c)
    PROVE  InOrder' /\ Sited' /\ InTurn'
  <1>a. Asks(c) /\ call[c].at = "spawn" /\ StageOf(c)
    BY DEF SpawnFails, At, Asks, Sited
  <1>s. slot' = slot /\ host' = host /\ page' = page /\ odd' = odd
    BY DEF SpawnFails
  <1>c. /\ Moves(c) /\ call'[c].op = call[c].op /\ call'[c].ws = call[c].ws /\ call'[c].at = "insert"
        /\ call'[c].host = call[c].host /\ call'[c].heard = call[c].heard
    BY GoesOn DEF SpawnFails
  <1>d. \A d \in Calls : /\ (call'[d].at = "unused") <=> (call[d].at = "unused")
                         /\ call'[d].op = call[d].op /\ call'[d].ws = call[d].ws
                         /\ call'[d].host = call[d].host
                         /\ (call'[d].at = "start") <=> (call[d].at = "start")
                         /\ d # c => call'[d] = call[d]
    BY <1>a, <1>c DEF Moves
  <1>1. InOrder'
    BY <1>d, OrderKept
  <1>2. ASSUME NEW d \in Calls PROVE StageOf(d)'
    <2>0. StageOf(d)
      BY DEF Sited
    <2>1. CASE d # c
      BY <2>0, <2>1, <1>d, <1>s DEF StageOf, Asks
    <2>2. CASE d = c
      BY <2>0, <2>2, <1>a, <1>c, <1>s DEF StageOf, Asks
    <2> QED
      BY <2>1, <2>2
  <1>3. Sited'
    BY <1>2, <1>s DEF Sited, SitesOf, SlotOf
  <1>4. ASSUME Ours PROVE Ours'
    <2>1. ASSUME NEW h \in Hosts PROVE OwnedBy(h)'
      BY <1>4, <1>d, <1>s DEF Ours, OwnedBy, Runs, Asks
    <2>2. ASSUME NEW w \in Workspaces PROVE Leaving(w)'
      <3>1. Leaving(w) /\ (Wanted(w)' => Wanted(w))
        BY <1>4, <1>d, <1>s DEF Ours, Wanted, Asks
      <3>2. Left(w) => Left(w)'
        BY <1>d DEF Left, At
      <3> QED
        BY <3>1, <3>2, <1>s DEF Leaving
    <2>3. One'
      BY <1>4, <1>d DEF Ours, One, Past, Asks
    <2> QED
      BY <2>1, <2>2, <2>3 DEF Ours
  <1> QED
    BY <1>1, <1>3, <1>4, <1>s DEF InTurn

\* An ensure or a stop replaces the host of its workspace.
LEMMA Replaced ==
    ASSUME Typed, Sited, NEW w \in Workspaces, host' = Stopped({slot[w]}), NEW h \in Hosts
    PROVE  /\ host'[h].ws = host[h].ws
           /\ (host'[h].server = "unborn") <=> (host[h].server = "unborn")
           /\ Runs(h)' => Runs(h) /\ h # slot[w]
           /\ h # slot[w] => host'[h] = host[h]
  <1>1. /\ Stopped({slot[w]})[h].ws = host[h].ws
        /\ h \in {slot[w]} => Stopped({slot[w]})[h].server = "dead"
        /\ h \notin {slot[w]} => Stopped({slot[w]})[h] = host[h]
    BY StoppedOnly DEF Typed
  <1>2. h = slot[w] => host[h].server # "unborn"
    BY DEF Sited, SlotOf, Hosts
  <1> QED
    BY <1>1, <1>2 DEF Runs

LEMMA InsertKeeps ==
    ASSUME Typed, Given, InOrder, Sited, InTurn, NEW c \in Calls, InsertStatus(c)
    PROVE  InOrder' /\ Sited' /\ InTurn'
  <1> DEFINE v == call[c].ws
  <1>a. Asks(c) /\ call[c].at = "insert" /\ StageOf(c) /\ v \in Workspaces
    BY DEF InsertStatus, At, Asks, Sited, Given, GivenFor
  <1>s. /\ slot' = [slot EXCEPT ![v] = call[c].host] /\ host' = Stopped({slot[v]})
        /\ page'.ws = page.ws /\ odd' = odd
    BY ToldIs DEF InsertStatus
  <1>w. /\ slot'[v] = call[c].host
        /\ \A w \in Workspaces : w # v => slot'[w] = slot[w]
    BY <1>s, <1>a DEF Typed
  <1>c. Moves(c) /\ call'[c].op = "none" /\ call'[c].at = "done"
    BY DoneIs DEF InsertStatus
  <1>h. ASSUME NEW h \in Hosts
        PROVE  /\ host'[h].ws = host[h].ws
               /\ (host'[h].server = "unborn") <=> (host[h].server = "unborn")
               /\ Runs(h)' => Runs(h) /\ h # slot[v]
    BY <1>a, <1>s, Replaced
  <1> HIDE DEF v
  <1>d. \A d \in Calls : /\ (call'[d].at = "unused") <=> (call[d].at = "unused")
                         /\ Asks(d)' => d # c
                         /\ d # c => call'[d] = call[d]
    BY <1>a, <1>c DEF Moves, Asks
  <1>1. InOrder'
    BY <1>d, OrderKept
  <1>2. ASSUME NEW d \in Calls PROVE StageOf(d)'
    <2>0. StageOf(d)
      BY DEF Sited
    <2>1. CASE d # c
      <3>1. call'[d] = call[d] /\ page'.ws = page.ws
        BY <2>1, <1>d, <1>s
      <3>2. CASE Asks(d) /\ call[d].host # 0
        <4>1. /\ call[d].host \in Hosts /\ host[call[d].host].ws = call[d].ws
              /\ host[call[d].host].server # "unborn"
          BY <2>0, <3>2 DEF StageOf
        <4>2. /\ host'[call[d].host].ws = call[d].ws
              /\ host'[call[d].host].server # "unborn"
          BY <4>1, <1>h
        <4> QED
          BY <2>0, <3>1, <4>1, <4>2 DEF StageOf, Asks
      <3>3. CASE ~(Asks(d) /\ call[d].host # 0)
        BY <2>0, <3>1, <3>3 DEF StageOf, Asks
      <3> QED
        BY <3>2, <3>3
    <2>2. CASE d = c
      BY <2>2, <1>c DEF StageOf, Asks
    <2> QED
      BY <2>1, <2>2
  <1>3. ASSUME NEW w \in Workspaces PROVE SlotOf(w)'
    <2>1. CASE w = v
      BY <2>1, <1>w, <1>h, <1>a DEF SlotOf, StageOf, v
    <2>2. CASE w # v
      BY <2>2, <1>w, <1>h DEF Sited, SlotOf
    <2> QED
      BY <2>1, <2>2
  <1>4. ASSUME NEW h \in Hosts PROVE SitesOf(h)'
    BY <1>h DEF Sited, SitesOf
  <1>5. ASSUME Ours PROVE Ours'
    <2>2. ASSUME NEW h \in Hosts, Runs(h)'
          PROVE  slot'[host'[h].ws] = h \/ \E d \in Calls : Asks(d)' /\ call'[d].host = h
      <3>1. Runs(h) /\ h # slot[v] /\ host'[h].ws = host[h].ws /\ host[h].ws \in Workspaces
        BY <1>h, <2>2 DEF Sited, SitesOf, Runs
      <3>2. OwnedBy(h)
        BY <1>5 DEF Ours
      <3>3. CASE slot[host[h].ws] = h
        BY <3>1, <3>3, <1>w
      <3>4. ASSUME NEW d \in Calls, Asks(d), call[d].host = h
            PROVE  slot'[host'[h].ws] = h \/ (Asks(d)' /\ call'[d].host = h)
        <4>1. CASE d = c
          <5>1. host[h].ws = v
            BY <4>1, <3>4, <1>a DEF StageOf, v, Hosts
          <5> QED
            BY <5>1, <4>1, <3>1, <3>4, <1>w
        <4>2. CASE d # c
          BY <4>2, <3>4, <1>d DEF Asks
        <4> QED
          BY <4>1, <4>2
      <3> QED
        BY <3>1, <3>2, <3>3, <3>4 DEF OwnedBy
    <2>3. ASSUME NEW w \in Workspaces PROVE Leaving(w)'
      <3>1. Leaving(w)
        BY <1>5 DEF Ours
      <3>2. Wanted(w)' => Wanted(w)
        <4>1. CASE w = v
          BY <4>1, <1>a DEF Wanted, v
        <4>2. CASE w # v
          BY <4>2, <1>w, <1>d DEF Wanted, Asks
        <4> QED
          BY <4>1, <4>2
      <3>3. Left(w) => Left(w)'
        BY <1>d, <1>a DEF Left, At
      <3> QED
        BY <3>1, <3>2, <3>3, <1>s DEF Leaving
    <2>4. One'
      BY <1>5, <1>d DEF Ours, One, Past, Asks
    <2> QED
      BY <2>2, <2>3, <2>4 DEF Ours, OwnedBy
  <1> QED
    BY <1>1, <1>2, <1>3, <1>4, <1>5, <1>s DEF InTurn, Sited

LEMMA StopKeeps ==
    ASSUME Typed, Given, InOrder, Sited, InTurn, NEW c \in Calls, Stop(c)
    PROVE  InOrder' /\ Sited' /\ InTurn'
  <1> DEFINE v == call[c].ws
  <1>a. call[c].op = "stop" /\ call[c].at = "start" /\ v \in Workspaces
    BY DEF Stop, At, Given, GivenFor
  <1>s. /\ slot' = [slot EXCEPT ![v] = 0] /\ host' = Stopped({slot[v]})
        /\ page' = page /\ odd \subseteq odd'
        /\ "overtaken" \notin odd' => Ensuring(v) = {} /\ page.ws # v
    BY DEF Stop
  <1>w. /\ slot'[v] = 0
        /\ \A w \in Workspaces : w # v => slot'[w] = slot[w]
    BY <1>s, <1>a DEF Typed
  <1>c. Moves(c) /\ call'[c].op = "none" /\ call'[c].at = "done"
    BY DoneIs DEF Stop
  <1>h. ASSUME NEW h \in Hosts
        PROVE  /\ host'[h].ws = host[h].ws
               /\ (host'[h].server = "unborn") <=> (host[h].server = "unborn")
               /\ Runs(h)' => Runs(h) /\ h # slot[v]
    BY <1>a, <1>s, Replaced
  <1> HIDE DEF v
  <1>d. \A d \in Calls : /\ (call'[d].at = "unused") <=> (call[d].at = "unused")
                         /\ (Asks(d)' <=> Asks(d)) /\ (Asks(d) => d # c)
                         /\ d # c => call'[d] = call[d]
    BY <1>a, <1>c DEF Moves, Asks
  <1>1. InOrder'
    BY <1>d, OrderKept
  <1>2. ASSUME NEW d \in Calls PROVE StageOf(d)'
    <2>0. StageOf(d)
      BY DEF Sited
    <2>1. CASE d # c
      <3>1. call'[d] = call[d] /\ page'.ws = page.ws
        BY <2>1, <1>d, <1>s
      <3> QED
        BY <2>0, <3>1, <1>h DEF StageOf, Asks
    <2>2. CASE d = c
      BY <2>2, <1>c DEF StageOf, Asks
    <2> QED
      BY <2>1, <2>2
  <1>3. ASSUME NEW w \in Workspaces PROVE SlotOf(w)'
    <2>1. CASE w = v
      BY <2>1, <1>w DEF SlotOf
    <2>2. CASE w # v
      BY <2>2, <1>w, <1>h DEF Sited, SlotOf
    <2> QED
      BY <2>1, <2>2
  <1>4. ASSUME NEW h \in Hosts PROVE SitesOf(h)'
    BY <1>h DEF Sited, SitesOf
  <1>5. ASSUME "overtaken" \notin odd' PROVE Ours'
    <2>1. Ours /\ Ensuring(v) = {}
      BY <1>5, <1>s DEF InTurn
    <2>2. ASSUME NEW h \in Hosts PROVE OwnedBy(h)'
      <3>1. ASSUME Runs(h)', slot[host[h].ws] = h PROVE slot'[host[h].ws] = h
        <4>1. h # slot[v] /\ host[h].ws \in Workspaces
          BY <3>1, <1>h DEF Sited, SitesOf, Runs
        <4> QED
          BY <4>1, <3>1, <1>w
      <3>2. OwnedBy(h)
        BY <2>1 DEF Ours
      <3> QED
        BY <3>1, <3>2, <1>d, <1>h DEF OwnedBy, Asks
    <2>3. ASSUME NEW w \in Workspaces PROVE Leaving(w)'
      <3>1. Leaving(w)
        BY <2>1 DEF Ours
      <3>2. CASE w = v
        <4>1. \A d \in Calls : Asks(d) => call[d].ws # v
          BY <2>1 DEF Ensuring, Sited, StageOf, Asks
        <4>2. ~Wanted(w)'
          BY <3>2, <4>1, <1>w, <1>d DEF Wanted, Asks
        <4> QED
          BY <4>2 DEF Leaving
      <3>3. CASE w # v
        <4>1. Wanted(w)' => Wanted(w)
          BY <3>3, <1>w, <1>d DEF Wanted, Asks
        <4>2. Left(w) => Left(w)'
          BY <3>3, <1>d DEF Left, At, v
        <4> QED
          BY <3>1, <4>1, <4>2, <1>s DEF Leaving
      <3> QED
        BY <3>2, <3>3
    <2>4. One'
      BY <2>1, <1>d DEF Ours, One, Past, Asks
    <2> QED
      BY <2>2, <2>3, <2>4 DEF Ours
  <1> QED
    BY <1>1, <1>2, <1>3, <1>4, <1>5 DEF InTurn, Sited

\* The first unused call is the one after those that are used.
LEMMA FirstIs ==
    ASSUME NEW n \in Nat, \A c \in Calls : call[c].at = "unused" <=> n < c, Unused # {}
    PROVE  First = n + 1 /\ First \in Calls
  <1>1. Unused = {c \in Calls : n < c} /\ \A c \in Calls : c \in Nat
    BY DEF Unused, Calls
  <1>2. PICK u \in Calls : n < u
    BY <1>1
  <1>3. n + 1 \in Unused /\ \A d \in Unused : n + 1 <= d
    BY <1>1, <1>2, HostsAssumption DEF Calls
  <1>4. First \in Unused /\ \A d \in Unused : First <= d
    BY <1>3 DEF First
  <1>5. First <= n + 1 /\ n + 1 <= First /\ First \in Nat
    BY <1>1, <1>3, <1>4
  <1> QED
    BY <1>1, <1>4, <1>5

\* What the page issues is the call at its place, and nothing else.
LEMMA IssuedIs ==
    ASSUME NEW base \in [Calls -> CallTypes], NEW n \in Calls, NEW w \in Workspaces,
           NEW op \in {"ensure", "stop", "open", "request"}
    PROVE  /\ Issued(base, n, op, w)[n].op = op /\ Issued(base, n, op, w)[n].ws = w
           /\ Issued(base, n, op, w)[n].at = "start" /\ Issued(base, n, op, w)[n].host = 0
           /\ \A c \in Calls \ {n} : Issued(base, n, op, w)[c] = base[c]
  <1> DEFINE new == [NoCall EXCEPT !.op = op, !.ws = w, !.at = "start"]
  <1>1. new.op = op /\ new.ws = w /\ new.at = "start" /\ new.host = 0
    BY NoCallTyped DEF CallTypes
  <1>2. Issued(base, n, op, w) = [c \in Calls |-> IF c = n THEN new ELSE base[c]]
    BY DEF Issued
  <1> HIDE DEF new
  <1> QED
    BY <1>1, <1>2

\* The page stops listening to the calls under way.
LEMMA UnheardIs ==
    ASSUME call \in [Calls -> CallTypes], NEW c \in Calls
    PROVE  Unheard(call)[c].heard => call[c].heard /\ call[c].at \in {"unused", "done"}
  BY DEF Unheard, CallTypes

\* What the steps of the page have in common: they add calls, after those that
\* are used, and an ensure is for the workspace the page then shows. Leaving a
\* workspace adds its stop.
Added(c) ==
    /\ call'[c].at = "start" /\ call'[c].host = 0
    /\ call'[c].op \in {"ensure", "stop", "open", "request"}
    /\ call'[c].op = "ensure" => call'[c].ws = page'.ws /\ page'.ws # Nowhere

AddsOnly ==
    /\ slot' = slot /\ host' = host /\ odd \subseteq odd'
    /\ \A c \in Calls :
         /\ call[c].at # "unused" =>
              /\ call'[c].op = call[c].op /\ call'[c].ws = call[c].ws
              /\ call'[c].at = call[c].at /\ call'[c].host = call[c].host
              /\ call'[c].heard => call[c].heard
              /\ call'[c].heard => page'.ws = page.ws \/ call[c].at = "done"
         /\ call[c].at = "unused" =>
              (call'[c].at = "unused" /\ call'[c].op = call[c].op) \/ Added(c)
    /\ \A w \in Workspaces : page.ws = w => page'.ws = w \/ w = Nowhere \/ Left(w)'

LEMMA AddsKeep ==
    ASSUME Sited, InTurn, AddsOnly
    PROVE  Sited' /\ InTurn'
  <1>s. slot' = slot /\ host' = host /\ odd \subseteq odd'
    BY DEF AddsOnly
  <1>u. ASSUME NEW c \in Calls, call[c].at # "unused"
        PROVE  /\ call'[c].op = call[c].op /\ call'[c].ws = call[c].ws
               /\ call'[c].at = call[c].at /\ call'[c].host = call[c].host
               /\ call'[c].heard => call[c].heard
               /\ call'[c].heard => page'.ws = page.ws \/ call[c].at = "done"
    BY <1>u DEF AddsOnly
  <1>n. ASSUME NEW c \in Calls, call[c].at = "unused"
        PROVE  /\ ~Asks(c) /\ call[c].op = "none"
               /\ \/ call'[c].at = "unused" /\ call'[c].op = "none"
                  \/ Added(c)
    BY <1>n DEF AddsOnly, Sited, StageOf, Asks
  <1>a. ASSUME NEW c \in Calls, Asks(c)'
        PROVE  \/ /\ Asks(c) /\ call[c].at # "unused"
               \/ /\ call'[c].at = "start" /\ call'[c].host = 0
                  /\ call'[c].ws = page'.ws /\ page'.ws # Nowhere
    BY <1>a, <1>u, <1>n DEF Asks, Added
  <1>b. ASSUME NEW c \in Calls, Asks(c)
        PROVE  Asks(c)' /\ call[c].at # "unused"
    BY <1>b, <1>u, <1>n DEF Asks
  <1>1. ASSUME NEW c \in Calls PROVE StageOf(c)'
    <2>0. StageOf(c)
      BY DEF Sited
    <2>1. CASE call[c].at # "unused"
      <3>1. Asks(c) => call[c].at # "done"
        BY <2>0 DEF StageOf
      <3> QED
        BY <2>0, <2>1, <3>1, <1>u, <1>s DEF StageOf, Asks
    <2>2. CASE call[c].at = "unused"
      BY <2>2, <1>n DEF StageOf, Asks, Added
    <2> QED
      BY <2>1, <2>2
  <1>2. Sited'
    BY <1>1, <1>s DEF Sited, SitesOf, SlotOf
  <1>3. ASSUME Ours PROVE Ours'
    <2>1. ASSUME NEW h \in Hosts PROVE OwnedBy(h)'
      BY <1>3, <1>b, <1>u, <1>s DEF Ours, OwnedBy, Runs
    <2>2. ASSUME NEW w \in Workspaces, Wanted(w)'
          PROVE  w # Nowhere /\ (w = page'.ws \/ Left(w)')
      <3>1. CASE Wanted(w)
        <4>1. w # Nowhere /\ (w = page.ws \/ Left(w))
          BY <3>1, <1>3 DEF Ours, Leaving
        <4>2. Left(w) => Left(w)'
          BY <1>u DEF Left, At
        <4>3. w = page.ws => w = page'.ws \/ Left(w)'
          BY <4>1 DEF AddsOnly
        <4> QED
          BY <4>1, <4>2, <4>3
      <3>2. CASE ~Wanted(w)
        <4>1. PICK c \in Calls : Asks(c)' /\ call'[c].ws = w /\ ~(Asks(c) /\ call[c].ws = w)
          BY <2>2, <3>2, <1>s DEF Wanted
        <4>2. ~(Asks(c) /\ call[c].at # "unused")
          BY <4>1, <1>u
        <4> QED
          BY <4>1, <4>2, <1>a
      <3> QED
        BY <3>1, <3>2
    <2>3. One'
      <3>1. \A c \in Calls : Past(c)' => Past(c)
        BY <1>a, <1>u DEF Past
      <3> QED
        BY <3>1, <1>3 DEF Ours, One
    <2> QED
      BY <2>1, <2>2, <2>3 DEF Ours, Leaving
  <1> QED
    BY <1>2, <1>3, <1>s DEF InTurn

\* The call after those that are used becomes a call of the page.
LEMMA NextIssued ==
    ASSUME NEW base \in [Calls -> CallTypes], NEW n \in Nat, NEW w \in Workspaces,
           NEW op \in {"ensure", "stop", "open", "request"},
           \A c \in Calls : base[c].at = "unused" <=> n < c, n + 1 \in Calls
    PROVE  LET next == Issued(base, n + 1, op, w)
           IN  /\ next \in [Calls -> CallTypes]
               /\ \A c \in Calls : next[c].at = "unused" <=> n + 1 < c
               /\ \A c \in Calls \ {n + 1} : next[c] = base[c]
               /\ next[n + 1].op = op /\ next[n + 1].ws = w
               /\ next[n + 1].at = "start" /\ next[n + 1].host = 0
  <1> DEFINE next == Issued(base, n + 1, op, w)
  <1>1. /\ next[n + 1].op = op /\ next[n + 1].ws = w
        /\ next[n + 1].at = "start" /\ next[n + 1].host = 0
        /\ \A c \in Calls \ {n + 1} : next[c] = base[c]
    BY IssuedIs
  <1>2. next \in [Calls -> CallTypes]
    BY IssuedTyped
  <1> HIDE DEF next
  <1>3. ASSUME NEW c \in Calls PROVE next[c].at = "unused" <=> n + 1 < c
    <2>1. CASE c = n + 1
      BY <2>1, <1>1
    <2>2. CASE c # n + 1
      <3>1. c \in Nat
        BY DEF Calls
      <3>2. next[c] = base[c] /\ (n < c <=> n + 1 < c)
        BY <3>1, <2>2, <1>1
      <3> QED
        BY <3>2
    <2> QED
      BY <2>1, <2>2
  <1> QED
    BY <1>1, <1>2, <1>3 DEF next

LEMMA TurnAdds ==
    ASSUME Typed, InOrder, NEW w \in Workspaces \cup {Nowhere}, NEW code \in BOOLEAN, Turn(w, code)
    PROVE  AddsOnly /\ InOrder'
  <1>t. call \in [Calls -> CallTypes] /\ (page.ws \in Workspaces \/ page.ws = Nowhere)
    BY DEF Typed, Places
  <1>s. /\ slot' = slot /\ host' = host /\ odd \subseteq odd' /\ page'.ws = w
    BY DEF Turn, Noted
  <1> DEFINE base == Unheard(call)
             stops == IF page.ws = Nowhere THEN base ELSE Issued(base, First, "stop", page.ws)
             second == IF page.ws = Nowhere THEN First ELSE First + 1
             ensures == w # Nowhere /\ code
  <1>1. /\ base \in [Calls -> CallTypes]
        /\ \A c \in Calls : /\ base[c].op = call[c].op /\ base[c].ws = call[c].ws
                            /\ base[c].at = call[c].at /\ base[c].host = call[c].host
                            /\ base[c].heard => call[c].heard /\ call[c].at \in {"unused", "done"}
    BY <1>t, UnheardTyped, UnheardIs
  <1>2. PICK n \in Nat : \A c \in Calls : call[c].at = "unused" <=> n < c
    BY DEF InOrder
  <1>3. Unused # {} /\ (ensures => second \in Calls)
        /\ call' = IF ensures THEN Issued(stops, second, "ensure", w) ELSE stops
    <2>1. Unused # {}
      BY DEF Turn
    <2>2. ensures => second \in Calls
      BY DEF Turn
    <2>3. call' = IF ensures THEN Issued(stops, second, "ensure", w) ELSE stops
      BY DEF Turn
    <2> QED
      BY <2>1, <2>2, <2>3
  <1>4. First = n + 1 /\ First \in Calls
    BY <1>2, <1>3, FirstIs
  <1> HIDE DEF base
  <1>b. \A c \in Calls : base[c].at = "unused" <=> n < c
    BY <1>1, <1>2
  <1>5. PICK m \in Nat : /\ stops \in [Calls -> CallTypes] /\ m >= n /\ second = m + 1
                         /\ \A c \in Calls : stops[c].at = "unused" <=> m < c
                         /\ \A c \in Calls : stops[c] = base[c] \/ (n < c /\ c <= m /\ stops[c].at = "start"
                              /\ stops[c].host = 0 /\ stops[c].op = "stop")
                         /\ page.ws # Nowhere =>
                              \E c \in Calls : c <= m /\ stops[c].at = "start" /\ stops[c].op = "stop"
                                                      /\ stops[c].ws = page.ws
    <2>1. CASE page.ws = Nowhere
      BY <2>1, <1>1, <1>b, <1>4
    <2>2. CASE page.ws # Nowhere
      <3>1. stops = Issued(base, n + 1, "stop", page.ws) /\ second = (n + 1) + 1 /\ page.ws \in Workspaces
        BY <2>2, <1>4, <1>t
      <3>2. /\ stops \in [Calls -> CallTypes]
            /\ \A c \in Calls : stops[c].at = "unused" <=> n + 1 < c
            /\ \A c \in Calls \ {n + 1} : stops[c] = base[c]
            /\ stops[n + 1].op = "stop" /\ stops[n + 1].ws = page.ws
            /\ stops[n + 1].at = "start" /\ stops[n + 1].host = 0
        BY <3>1, <1>1, <1>b, <1>4, NextIssued
      <3> HIDE DEF stops, second
      <3> QED
        BY <3>1, <3>2, <1>4
    <2> QED
      BY <2>1, <2>2
  <1> HIDE DEF stops, second
  <1>6. PICK k \in Nat : /\ \A c \in Calls : call'[c].at = "unused" <=> k < c
                         /\ \A c \in Calls : call'[c] = stops[c]
                              \/ (m < c /\ call'[c].at = "start" /\ call'[c].host = 0
                                    /\ call'[c].op = "ensure" /\ call'[c].ws = w /\ w # Nowhere)
    <2>1. CASE ensures
      <3>1. call' = Issued(stops, m + 1, "ensure", w) /\ m + 1 \in Calls /\ w \in Workspaces /\ w # Nowhere
        BY <2>1, <1>3, <1>5
      <3>2. /\ \A c \in Calls : call'[c].at = "unused" <=> m + 1 < c
            /\ \A c \in Calls \ {m + 1} : call'[c] = stops[c]
            /\ call'[m + 1].op = "ensure" /\ call'[m + 1].ws = w
            /\ call'[m + 1].at = "start" /\ call'[m + 1].host = 0
        BY <3>1, <1>5, NextIssued
      <3> QED
        BY <3>1, <3>2
    <2>2. CASE ~ensures
      BY <2>2, <1>3, <1>5
    <2> QED
      BY <2>1, <2>2
  <1> HIDE DEF ensures
  <1>7. InOrder'
    BY <1>6 DEF InOrder
  <1>8. ASSUME NEW c \in Calls, call[c].at # "unused"
        PROVE  call'[c] = base[c]
    <2>1. c \in Nat /\ ~(n < c) /\ ~(m < c)
      BY <1>8, <1>2, <1>5 DEF Calls
    <2> QED
      BY <2>1, <1>5, <1>6
  <1>9. ASSUME NEW c \in Calls, call[c].at = "unused"
        PROVE  \/ call'[c].at = "unused" /\ call'[c].op = call[c].op
               \/ Added(c)
    <2>1. base[c].at = "unused" /\ base[c].op = call[c].op
      BY <1>9, <1>1
    <2> QED
      BY <2>1, <1>5, <1>6, <1>s DEF Added
  <1>10. ASSUME page.ws \in Workspaces, page.ws # Nowhere, NEW v, v = page.ws
         PROVE  Left(v)'
    <2>1. PICK c \in Calls : c <= m /\ stops[c].at = "start" /\ stops[c].op = "stop" /\ stops[c].ws = v
      BY <1>10, <1>5
    <2>2. c \in Nat /\ ~(m < c)
      BY <2>1 DEF Calls
    <2> QED
      BY <2>1, <2>2, <1>6 DEF Left, At
  <1>11. ASSUME NEW c \in Calls, call[c].at # "unused"
         PROVE  /\ call'[c].op = call[c].op /\ call'[c].ws = call[c].ws
                /\ call'[c].at = call[c].at /\ call'[c].host = call[c].host
                /\ call'[c].heard => call[c].heard
                /\ call'[c].heard => call[c].at = "done"
    BY <1>11, <1>8, <1>1
  <1> QED
    BY <1>s, <1>7, <1>9, <1>10, <1>11 DEF AddsOnly

LEMMA PageAdds ==
    ASSUME Typed, InOrder, ActivateTab \/ OpenDocument \/ RequestDefinition
    PROVE  AddsOnly /\ InOrder' /\ page'.ws = page.ws
  <1>t. call \in [Calls -> CallTypes] /\ page.ws \in Workspaces /\ page.ws # Nowhere
    BY DEF Typed, Places, ActivateTab, OpenDocument, RequestDefinition
  <1>s. slot' = slot /\ host' = host /\ odd' = odd /\ page'.ws = page.ws
    BY DEF ActivateTab, OpenDocument, RequestDefinition, Typed
  <1>1. \/ call' = Unheard(call)
        \/ Unused # {} /\ \E op \in {"ensure", "open", "request"} : call' = Issued(call, First, op, page.ws)
    BY DEF ActivateTab, OpenDocument, RequestDefinition
  <1>2. CASE call' = Unheard(call)
    <2>1. \A c \in Calls : /\ call'[c].op = call[c].op /\ call'[c].ws = call[c].ws
                           /\ call'[c].at = call[c].at /\ call'[c].host = call[c].host
                           /\ call'[c].heard => call[c].heard
      BY <1>t, <1>2, UnheardTyped, UnheardIs
    <2>2. InOrder'
      BY <2>1, OrderKept
    <2> QED
      BY <2>1, <2>2, <1>s DEF AddsOnly
  <1>3. ASSUME Unused # {}, NEW op \in {"ensure", "open", "request"}, call' = Issued(call, First, op, page.ws)
        PROVE  AddsOnly /\ InOrder'
    <2>1. PICK n \in Nat : \A c \in Calls : call[c].at = "unused" <=> n < c
      BY DEF InOrder
    <2>2. First = n + 1 /\ First \in Calls
      BY <2>1, <1>3, FirstIs
    <2>3. /\ \A c \in Calls : call'[c].at = "unused" <=> n + 1 < c
          /\ \A c \in Calls \ {n + 1} : call'[c] = call[c]
          /\ call'[n + 1].op = op /\ call'[n + 1].ws = page.ws
          /\ call'[n + 1].at = "start" /\ call'[n + 1].host = 0
      BY <2>1, <2>2, <1>3, <1>t, NextIssued
    <2>4. InOrder'
      BY <2>3 DEF InOrder
    <2>5. n + 1 \in Calls /\ call[n + 1].at = "unused" /\ Added(n + 1)
      BY <2>1, <2>2, <2>3, <1>s, <1>t DEF Added
    <2>6. \A c \in Calls : call'[c] = call[c] \/ (call[c].at = "unused" /\ Added(c))
      BY <2>3, <2>5
    <2> QED
      BY <2>4, <2>6, <1>s DEF AddsOnly
  <1> QED
    BY <1>1, <1>2, <1>3, <1>s

\* A host whose phase, load or requests change keeps its server.
SameServers ==
    \A h \in Hosts : /\ host'[h].ws = host[h].ws /\ host'[h].server = host[h].server
                     /\ host[h].opened => host'[h].opened

LEMMA ServerKept ==
    ASSUME NEW h \in Hosts, Only(h), host'[h].ws = host[h].ws, host'[h].server = host[h].server,
           host[h].opened => host'[h].opened
    PROVE  SameServers
  BY DEF Only, SameServers

\* The steps that keep the servers.
Keepers ==
    \/ \E c \in Calls : \/ NotifyDocument(c) \/ WriteDocument(c) \/ DocumentDropped(c) \/ HostFor(c)
                        \/ AwaitReady(c) \/ GraceEnds(c) \/ LimitEnds(c) \/ WriteRequest(c)
                        \/ RequestFails(c)
    \/ \E h \in Hosts : \/ HandshakeEnds(h) \/ ReaderEnds(h) \/ ReadMessage(h) \/ LoadBegins(h)
                        \/ LoadEnds(h) \/ \E r \in host[h].asked : Answers(h, r)

LEMMA KeepersKeep ==
    ASSUME Typed, Given, Keepers
    PROVE  SameServers
  <1>t. \A h \in Hosts : host[h] \in HostTypes
    BY DEF Typed
  <1>same. ASSUME host' = host PROVE SameServers
    BY <1>same DEF SameServers
  <1>1. ASSUME NEW c \in Calls, WriteDocument(c) PROVE SameServers
    <2>1. PICK h : h = call[c].host
      OBVIOUS
    <2>2. /\ h \in Hosts /\ Only(h)
          /\ Runs(h) => \E load \in {0, 1} :
                 host'[h] = [host[h] EXCEPT !.phase = Opened(h), !.opened = TRUE,
                                            !.due = host[h].due + load]
          /\ ~Runs(h) => host'[h] = [host[h] EXCEPT !.phase = Opened(h)]
      BY <1>1, <2>1, DocumentSteps
    <2>3. /\ host'[h].ws = host[h].ws /\ host'[h].server = host[h].server
          /\ host[h].opened => host'[h].opened
      BY <2>2, <1>t DEF HostTypes, Runs
    <2> QED
      BY <2>2, <2>3, ServerKept
  <1>2. ASSUME NEW c \in Calls, GraceEnds(c) PROVE SameServers
    <2>1. PICK h : h = call[c].host
      OBVIOUS
    <2>2. h \in Hosts /\ Only(h) /\ host'[h] = [host[h] EXCEPT !.phase = "idle"]
      BY <1>2, <2>1, GraceSteps
    <2>3. /\ host'[h].ws = host[h].ws /\ host'[h].server = host[h].server
          /\ host[h].opened => host'[h].opened
      BY <2>2, <1>t DEF HostTypes
    <2> QED
      BY <2>2, <2>3, ServerKept
  <1>3. ASSUME NEW c \in Calls, WriteRequest(c) PROVE SameServers
    <2>1. PICK h : h = call[c].host
      OBVIOUS
    <2>2. \/ host' = host
          \/ h \in Hosts /\ Only(h) /\ \E asked : host'[h] = [host[h] EXCEPT !.asked = asked]
      BY <1>3, <2>1, RequestSteps
    <2>3. CASE host' # host
      <3>1. PICK asked : h \in Hosts /\ Only(h) /\ host'[h] = [host[h] EXCEPT !.asked = asked]
        BY <2>2, <2>3
      <3>2. /\ host'[h].ws = host[h].ws /\ host'[h].server = host[h].server
            /\ host[h].opened => host'[h].opened
        BY <3>1, <1>t DEF HostTypes
      <3> QED
        BY <3>1, <3>2, ServerKept
    <2> QED
      BY <2>3, <1>same
  <1>4. ASSUME NEW h \in Hosts, HandshakeEnds(h) PROVE SameServers
    <2>1. Only(h) /\ host'[h] = [host[h] EXCEPT !.reader = "listens", !.handshake = "ready"]
      BY <1>4, HandshakeSteps
    <2>2. /\ host'[h].ws = host[h].ws /\ host'[h].server = host[h].server
          /\ host[h].opened => host'[h].opened
      BY <2>1, <1>t DEF HostTypes
    <2> QED
      BY <2>1, <2>2, ServerKept
  <1>5. ASSUME NEW h \in Hosts, ReaderEnds(h) PROVE SameServers
    <2>1. PICK handshake :
            Only(h) /\ host'[h] = [host[h] EXCEPT !.reader = "ended", !.phase = "stopped",
                                                  !.handshake = handshake]
      BY <1>5, ReaderEndSteps
    <2>2. /\ host'[h].ws = host[h].ws /\ host'[h].server = host[h].server
          /\ host[h].opened => host'[h].opened
      BY <2>1, <1>t DEF HostTypes
    <2> QED
      BY <2>1, <2>2, ServerKept
  <1>6. ASSUME NEW h \in Hosts, ReadMessage(h) PROVE SameServers
    <2>1. PICK m : m = Head(out[h])
      OBVIOUS
    <2>2. /\ Only(h) /\ m.kind \in {"begin", "end", "answer"}
          /\ m.kind = "begin" => host'[h] = [host[h] EXCEPT !.phase = Phase(h, "loading")]
          /\ m.kind = "end" => host'[h] = [host[h] EXCEPT !.phase = Phase(h, "idle")]
          /\ m.kind = "answer" => host' = host
      BY <1>6, <2>1, MessageSteps DEF MessageTypes
    <2>3. \/ host' = host
          \/ \E phase : host'[h] = [host[h] EXCEPT !.phase = phase]
      BY <2>2
    <2>4. CASE host' # host
      <3>1. PICK phase : host'[h] = [host[h] EXCEPT !.phase = phase]
        BY <2>3, <2>4
      <3>2. /\ host'[h].ws = host[h].ws /\ host'[h].server = host[h].server
            /\ host[h].opened => host'[h].opened
        BY <3>1, <1>t DEF HostTypes
      <3> QED
        BY <2>2, <3>2, ServerKept
    <2> QED
      BY <2>4, <1>same
  <1>7. ASSUME NEW h \in Hosts, LoadBegins(h) PROVE SameServers
    <2>1. Only(h) /\ host'[h] = [host[h] EXCEPT !.due = host[h].due - 1, !.loading = TRUE]
      BY <1>7, BeginsSteps
    <2>2. /\ host'[h].ws = host[h].ws /\ host'[h].server = host[h].server
          /\ host[h].opened => host'[h].opened
      BY <2>1, <1>t DEF HostTypes
    <2> QED
      BY <2>1, <2>2, ServerKept
  <1>8. ASSUME NEW h \in Hosts, LoadEnds(h) PROVE SameServers
    <2>1. Only(h) /\ host'[h] = [host[h] EXCEPT !.loading = FALSE]
      BY <1>8, EndsSteps
    <2>2. /\ host'[h].ws = host[h].ws /\ host'[h].server = host[h].server
          /\ host[h].opened => host'[h].opened
      BY <2>1, <1>t DEF HostTypes
    <2> QED
      BY <2>1, <2>2, ServerKept
  <1>9. ASSUME NEW h \in Hosts, NEW r \in host[h].asked, Answers(h, r) PROVE SameServers
    <2>1. Only(h) /\ host'[h] = [host[h] EXCEPT !.asked = host[h].asked \ {r}]
      BY <1>9, AnswerSteps
    <2>2. /\ host'[h].ws = host[h].ws /\ host'[h].server = host[h].server
          /\ host[h].opened => host'[h].opened
      BY <2>1, <1>t DEF HostTypes
    <2> QED
      BY <2>1, <2>2, ServerKept
  <1>10. ASSUME NEW c \in Calls,
                \/ NotifyDocument(c) \/ DocumentDropped(c) \/ HostFor(c)
                \/ AwaitReady(c) \/ LimitEnds(c) \/ RequestFails(c)
         PROVE  SameServers
    BY <1>10, <1>same DEF NotifyDocument, DocumentDropped, HostFor, AwaitReady, LimitEnds, RequestFails
  <1> QED
    BY <1>1, <1>2, <1>3, <1>4, <1>5, <1>6, <1>7, <1>8, <1>9, <1>10 DEF Keepers

\* What those steps do to the calls: a document or a request goes on or ends.
Proceeds(c) ==
    \/ call'[c] = call[c]
    \/ /\ call[c].op \in {"open", "request"} /\ call[c].at # "unused"
       /\ \/ call'[c].op \in {"open", "request"} /\ call'[c].at \notin {"unused", "done"}
          \/ call'[c].op = "none" /\ call'[c].at = "done"

LEMMA KeepersProceed ==
    ASSUME Typed, Keepers, NEW d \in Calls
    PROVE  Proceeds(d)
  <1>t. call \in [Calls -> CallTypes]
    BY DEF Typed
  <1>done. ASSUME NEW c \in Calls, Done(c), call[c].op \in {"open", "request"}, call[c].at # "unused"
           PROVE  Proceeds(d)
    <2>1. call'[c].op = "none" /\ call'[c].at = "done" /\ Moves(c)
      BY <1>done, DoneIs
    <2> QED
      BY <2>1, <1>done DEF Proceeds, Moves
  <1>go. ASSUME NEW c \in Calls, NEW at \in {"await", "write", "asked"}, Go(c, at),
                call[c].op \in {"open", "request"}, call[c].at # "unused"
         PROVE  Proceeds(d)
    <2>1. call'[c].op = call[c].op /\ call'[c].at = at /\ Moves(c)
      BY <1>go, GoesOn
    <2> QED
      BY <2>1, <1>go DEF Proceeds, Moves
  <1>host. ASSUME NEW c \in Calls, NEW at \in {"handshake", "await"}, NEW h,
                  call' = [call EXCEPT ![c].at = at, ![c].host = h],
                  call[c].op \in {"open", "request"}, call[c].at # "unused"
           PROVE  Proceeds(d)
    <2>1. call'[c].op = call[c].op /\ call'[c].at = at /\ \A e \in Calls \ {c} : call'[e] = call[e]
      BY <1>t, <1>host DEF CallTypes
    <2> QED
      BY <2>1, <1>host DEF Proceeds
  <1>1. ASSUME NEW c \in Calls, NotifyDocument(c) PROVE Proceeds(d)
    BY <1>1, <1>done, <1>host DEF NotifyDocument, At
  <1>2. ASSUME NEW c \in Calls, WriteDocument(c) \/ DocumentDropped(c) PROVE Proceeds(d)
    BY <1>2, <1>done DEF WriteDocument, DocumentDropped, At
  <1>3. ASSUME NEW c \in Calls, HostFor(c) PROVE Proceeds(d)
    BY <1>3, <1>done, <1>host DEF HostFor, At
  <1>4. ASSUME NEW c \in Calls, AwaitReady(c) PROVE Proceeds(d)
    BY <1>4, <1>done, <1>go DEF AwaitReady, At
  <1>5. ASSUME NEW c \in Calls, GraceEnds(c) PROVE Proceeds(d)
    BY <1>5, <1>go DEF GraceEnds, At
  <1>6. ASSUME NEW c \in Calls, LimitEnds(c) \/ RequestFails(c) PROVE Proceeds(d)
    BY <1>6, <1>done DEF LimitEnds, RequestFails, At
  <1>7. ASSUME NEW c \in Calls, WriteRequest(c) PROVE Proceeds(d)
    BY <1>7, <1>done, <1>go DEF WriteRequest, At
  <1>8. ASSUME NEW h \in Hosts, ReadMessage(h) PROVE Proceeds(d)
    <2>1. PICK m : m = Head(out[h])
      OBVIOUS
    <2>2. m.early \in BOOLEAN
      BY <1>8, <2>1, MessageSteps DEF MessageTypes
    <2>3. call' = IF m.kind = "answer" /\ At(m.to, "request", "asked")
                  THEN [call EXCEPT ![m.to] = Ended(m.early)] ELSE call
      BY <1>8, <2>1 DEF ReadMessage
    <2>4. Ended(m.early).op = "none" /\ Ended(m.early).at = "done"
      BY <2>2, NoCallTyped
    <2>5. call'[d] = call[d] \/ (At(d, "request", "asked") /\ call'[d] = Ended(m.early))
      BY <2>3, <1>t
    <2> QED
      BY <2>4, <2>5 DEF Proceeds, At
  <1>9. ASSUME NEW h \in Hosts,
               \/ HandshakeEnds(h) \/ ReaderEnds(h) \/ LoadBegins(h) \/ LoadEnds(h)
               \/ \E r \in host[h].asked : Answers(h, r)
        PROVE  Proceeds(d)
    BY <1>9 DEF Proceeds, HandshakeEnds, ReaderEnds, LoadBegins, LoadEnds, Answers
  <1> QED
    BY <1>1, <1>2, <1>3, <1>4, <1>5, <1>6, <1>7, <1>8, <1>9 DEF Keepers

LEMMA KeepersServe ==
    ASSUME Typed, Given, Keepers
    PROVE  ServedOnly
  <1>1. slot' = slot /\ page' = page
    BY DEF Keepers, NotifyDocument, WriteDocument, DocumentDropped, HostFor, AwaitReady, GraceEnds,
       LimitEnds, WriteRequest, RequestFails, HandshakeEnds, ReaderEnds, ReadMessage, LoadBegins,
       LoadEnds, Answers
  <1>2. odd \subseteq odd'
    BY DEF Keepers, NotifyDocument, WriteDocument, DocumentDropped, HostFor, AwaitReady, GraceEnds,
       LimitEnds, WriteRequest, RequestFails, HandshakeEnds, ReaderEnds, ReadMessage, LoadBegins,
       LoadEnds, Answers, Noted
  <1>3. SameServers
    BY KeepersKeep
  <1>4. \A c \in Calls : Proceeds(c)
    BY KeepersProceed
  <1> QED
    BY <1>1, <1>2, <1>3, <1>4 DEF ServedOnly, SameServers, Proceeds, Runs

\* An end of a server is noted, as the first separation or after another.
LEMMA SeparationNoted ==
    ASSUME NEW d \in Separations, odd' = Noted(d)
    PROVE  odd' \cap Separations # {} /\ odd \subseteq odd'
  <1>1. d \notin Slips
    BY DEF Separations, Slips
  <1> QED
    BY <1>1 DEF Noted

LEMMA EndServes ==
    ASSUME Typed, NEW h \in Hosts, ServerEnds(h)
    PROVE  ServedOnly
  <1>1. slot' = slot /\ page' = page /\ call' = call /\ Runs(h)
    BY DEF ServerEnds
  <1>2. odd \subseteq odd' /\ odd' \cap Separations # {}
    BY SeparationNoted DEF ServerEnds, Separations
  <1>3. Only(h) /\ host'[h].server = "dead"
    BY EndSteps
  <1>4. host'[h].ws = host[h].ws
    BY DEF ServerEnds, Killed, Typed, HostTypes
  <1> QED
    BY <1>1, <1>2, <1>3, <1>4 DEF ServedOnly, Only, Runs

(***************************************************************************)
(* The invariant, and the theorem.                                         *)
(***************************************************************************)
LEMMA PageInit ==
    ASSUME Init
    PROVE  PageInv
  <1>1. InOrder
    <2>1. \A c \in Calls : call[c].at = "unused" <=> 0 < c
      BY DEF Init, Calls, NoCall
    <2> QED
      BY <2>1 DEF InOrder
  <1>2. Sited
    BY DEF Init, Sited, StageOf, SitesOf, SlotOf, Asks, NoCall, Unborn
  <1>3. InTurn
    BY DEF Init, InTurn, Ours, OwnedBy, Leaving, Wanted, One, Past, Asks, Runs, NoCall, Unborn
  <1> QED
    BY <1>1, <1>2, <1>3, LoadInit DEF PageInv

LEMMA PageStep ==
    ASSUME PageInv, [Next]_vars
    PROVE  PageInv'
  <1>0. LoadInv' /\ Typed /\ Given /\ InOrder /\ Sited /\ InTurn
    BY LoadStep DEF PageInv, LoadInv
  <1> DEFINE Kept == InOrder' /\ Sited' /\ InTurn'
  <1>1. ASSUME NEW c \in Calls, ReadyStatus(c) PROVE Kept
    BY <1>0, <1>1, ReadyStatusKeeps
  <1>2. ASSUME NEW c \in Calls, StopOtherWorkspaces(c) PROVE Kept
    BY <1>0, <1>2, StopOthersKeeps
  <1>3. ASSUME NEW c \in Calls, SpawnFails(c) PROVE Kept
    BY <1>0, <1>3, SpawnFailsKeeps
  <1>4. ASSUME NEW c \in Calls, InsertStatus(c) PROVE Kept
    BY <1>0, <1>4, InsertKeeps
  <1>5. ASSUME NEW c \in Calls, NEW h \in Hosts, SpawnHost(c, h) PROVE Kept
    BY <1>0, <1>5, SpawnKeeps
  <1>6. ASSUME NEW c \in Calls, Stop(c) PROVE Kept
    BY <1>0, <1>6, StopKeeps
  <1>7. ASSUME Keepers PROVE Kept
    BY <1>0, <1>7, KeepersServe, ServedKeeps
  <1>8. ASSUME NEW h \in Hosts, ServerEnds(h) PROVE Kept
    BY <1>0, <1>8, EndServes, ServedKeeps
  <1>9. ASSUME NEW w \in Workspaces \cup {Nowhere}, NEW code \in BOOLEAN, Turn(w, code) PROVE Kept
    BY <1>0, <1>9, TurnAdds, AddsKeep
  <1>10. ASSUME ActivateTab \/ OpenDocument \/ RequestDefinition PROVE Kept
    BY <1>0, <1>10, PageAdds, AddsKeep
  <1>11. ASSUME UNCHANGED vars PROVE Kept
    <2>1. slot' = slot /\ host' = host /\ call' = call /\ page' = page /\ odd' = odd
      BY <1>11 DEF vars
    <2>2. InOrder'
      BY <2>1, <1>0 DEF InOrder
    <2>3. Sited'
      BY <2>1, <1>0 DEF Sited, StageOf, SitesOf, SlotOf, Asks
    <2>4. Ours => Ours'
      BY <2>1 DEF Ours, OwnedBy, Leaving, Wanted, Left, One, Past, Asks, At, Runs
    <2> QED
      BY <2>1, <2>2, <2>3, <2>4, <1>0 DEF InTurn
  <1> HIDE DEF Kept
  <1>12. ASSUME NEW c \in Calls, CallSteps(c) PROVE Kept
    <2>1. \/ ReadyStatus(c) \/ StopOtherWorkspaces(c) \/ SpawnFails(c) \/ InsertStatus(c) \/ Stop(c)
          \/ (\E h \in Hosts : SpawnHost(c, h))
          \/ Keepers
      BY <1>12 DEF CallSteps, Keepers
    <2> QED
      BY <2>1, <1>1, <1>2, <1>3, <1>4, <1>5, <1>6, <1>7
  <1>13. ASSUME NEW h \in Hosts, ReaderSteps(h) \/ ServerSteps(h) PROVE Kept
    <2>1. ServerEnds(h) \/ Keepers
      BY <1>13 DEF ReaderSteps, ServerSteps, Keepers
    <2> QED
      BY <2>1, <1>7, <1>8
  <1>14. ASSUME PageSteps PROVE Kept
    BY <1>9, <1>10, <1>14 DEF PageSteps
  <1>15. ASSUME Next PROVE Kept
    BY <1>12, <1>13, <1>14, <1>15 DEF Next
  <1> QED
    BY <1>0, <1>11, <1>15 DEF Kept, PageInv

LEMMA Settling ==
    ASSUME PageInv
    PROVE  OneServer
  <1> SUFFICES ASSUME Settled, "overtaken" \notin odd, NEW h \in Hosts, Runs(h)
               PROVE  host[h].ws = page.ws /\ slot[page.ws] = h
    BY DEF OneServer
  <1>1. Sited /\ Ours
    BY DEF PageInv, InTurn
  <1>2. \A c \in Calls : ~Asks(c) /\ ~At(c, "stop", "start")
    BY <1>1 DEF Settled, Sited, StageOf, Asks, At
  <1>3. host[h].ws \in Workspaces /\ OwnedBy(h) /\ h # 0
    BY <1>1 DEF Sited, SitesOf, Ours, Runs
  <1>4. slot[host[h].ws] = h
    BY <1>2, <1>3 DEF OwnedBy
  <1>5. Leaving(host[h].ws) /\ Wanted(host[h].ws) /\ ~Left(host[h].ws)
    BY <1>1, <1>2, <1>3, <1>4 DEF Ours, Wanted, Left
  <1> QED
    BY <1>4, <1>5 DEF Leaving

\* When the calls of the page have ended, no server runs but the one of the
\* workspace it shows, unless calls have overtaken each other (registry.rs).
THEOREM ServerAlone == Spec => []OneServer
  BY PageInit, PageStep, Settling, PTL DEF Spec

(***************************************************************************)
(* What the server knows: while nothing separates the page from its        *)
(* server, an ensure that goes on has found no host that runs, what the    *)
(* page takes for ready runs, and what it takes for open was told to the   *)
(* server of its workspace or is on its way to it.                         *)
(***************************************************************************)
Unparted == odd \cap Separations = {}

\* The host an ensure brings runs, and the slot it is for has none.
Brings(c) ==
    Past(c) => /\ ~Runs(slot[call[c].ws])
               /\ call[c].host # 0 => Runs(call[c].host)

ReadyRuns == page.ready = page.ws /\ page.ws # Nowhere => Runs(slot[page.ws])

Opens(c) ==
    /\ call[c].op = "open"
    /\ \/ call[c].at = "start" /\ call[c].ws = page.ws
       \/ call[c].at = "handshake" /\ call[c].host = slot[page.ws]

Known ==
    page.synced =>
        /\ page.ws # Nowhere /\ Runs(slot[page.ws])
        /\ host[slot[page.ws]].opened \/ \E c \in Calls : Opens(c)

Joined == (\A c \in Calls : Brings(c)) /\ ReadyRuns /\ Known

ToldInv == PageInv /\ (Unparted => Joined)

\* The workspace the page shows.
LEMMA Shown ==
    ASSUME Typed, page.ws # Nowhere
    PROVE  page.ws \in Workspaces /\ slot[page.ws] \in 0..MaxHosts
  BY DEF Typed, Places

\* A host of a slot that runs is a host.
LEMMA RunsHost ==
    ASSUME Typed, NEW w \in Workspaces, Runs(slot[w])
    PROVE  slot[w] \in Hosts
  BY DEF Typed, Runs, Hosts

\* An open document call goes on to the server's knowing of the document, unless
\* the server is lost.
LEMMA OpensFollow ==
    ASSUME Typed, Given, Keepers, ServedOnly, NEW c \in Calls, Opens(c), Runs(slot[page.ws]),
           page.ws # Nowhere, Unparted'
    PROVE  Opens(c)' \/ host'[slot[page.ws]].opened
  <1>t. /\ call \in [Calls -> CallTypes] /\ page.ws \in Workspaces
        /\ slot[page.ws] \in Hosts /\ slot' = slot /\ page' = page
    BY Shown, RunsHost DEF Typed, ServedOnly
  <1>1. CASE call'[c] = call[c]
    BY <1>1, <1>t DEF Opens
  <1>2. CASE NotifyDocument(c)
    <2>1. call[c].at = "start" /\ slot[call[c].ws] = slot[page.ws] /\ slot[page.ws] # 0
      BY <1>2, <1>t DEF NotifyDocument, At, Opens, Runs
    <2>2. call' = [call EXCEPT ![c].at = "handshake", ![c].host = slot[page.ws]]
      BY <1>2, <2>1 DEF NotifyDocument
    <2>3. call'[c].op = "open" /\ call'[c].at = "handshake" /\ call'[c].host = slot[page.ws]
      BY <2>2, <1>t DEF CallTypes, Opens
    <2> QED
      BY <2>3, <1>t DEF Opens
  <1>3. CASE WriteDocument(c)
    <2>1. call[c].host = slot[page.ws] /\ call[c].host \in Hosts
      BY <1>3, <1>t DEF WriteDocument, At, Opens
    <2>2. PICK h : h = call[c].host
      OBVIOUS
    <2>3. \E load \in {0, 1} : host'[h] = [host[h] EXCEPT !.phase = Opened(h), !.opened = TRUE,
                                                         !.due = host[h].due + load]
      BY <1>3, <2>1, <2>2, DocumentSteps
    <2>4. host[h] \in HostTypes
      BY <2>1, <2>2 DEF Typed
    <2> QED
      BY <2>1, <2>2, <2>3, <2>4 DEF HostTypes
  <1>4. CASE DocumentDropped(c)
    <2>1. odd' \cap Separations # {}
      BY <1>4, SeparationNoted DEF DocumentDropped, Separations
    <2> QED
      BY <2>1 DEF Unparted
  <1>5. ASSUME ~NotifyDocument(c), ~WriteDocument(c), ~DocumentDropped(c) PROVE call'[c] = call[c]
    <2>0. call[c].op = "open"
      BY DEF Opens
    <2>1. ASSUME NEW d \in Calls, NotifyDocument(d) \/ WriteDocument(d) \/ DocumentDropped(d)
          PROVE  call'[c] = call[c]
      <3>1. d # c
        BY <1>5, <2>1
      <3>2. call' = [call EXCEPT ![d] = call'[d]]
        BY <2>1, <1>t DEF NotifyDocument, WriteDocument, DocumentDropped, Done
      <3> QED
        BY <3>1, <3>2, <1>t
    <2>2. ASSUME NEW d \in Calls,
                 HostFor(d) \/ AwaitReady(d) \/ GraceEnds(d) \/ LimitEnds(d) \/ WriteRequest(d)
                 \/ RequestFails(d)
          PROVE  call'[c] = call[c]
      <3>1. call[d].op = "request"
        BY <2>2 DEF HostFor, AwaitReady, GraceEnds, LimitEnds, WriteRequest, RequestFails, At
      <3>2. \A e \in Calls \ {d} : call'[e] = call[e]
        BY <2>2, <1>t DEF HostFor, AwaitReady, GraceEnds, LimitEnds, WriteRequest, RequestFails, Done, Go
      <3> QED
        BY <3>1, <3>2, <2>0
    <2>3. ASSUME NEW h \in Hosts, ReadMessage(h)
          PROVE  call'[c] = call[c]
      <3>1. PICK m : m = Head(out[h])
        OBVIOUS
      <3>2. call' = IF m.kind = "answer" /\ At(m.to, "request", "asked")
                    THEN [call EXCEPT ![m.to] = Ended(m.early)] ELSE call
        BY <2>3, <3>1 DEF ReadMessage
      <3>3. ~At(c, "request", "asked")
        BY <2>0 DEF At
      <3> QED
        BY <3>2, <3>3, <1>t
    <2>4. ASSUME NEW h \in Hosts,
                 HandshakeEnds(h) \/ ReaderEnds(h) \/ LoadBegins(h) \/ LoadEnds(h)
                 \/ \E r \in host[h].asked : Answers(h, r)
          PROVE  call'[c] = call[c]
      BY <2>4 DEF HandshakeEnds, ReaderEnds, LoadBegins, LoadEnds, Answers
    <2> QED
      BY <2>1, <2>2, <2>3, <2>4 DEF Keepers
  <1> QED
    BY <1>1, <1>2, <1>3, <1>4, <1>5

\* Steps that keep the slots, the page and the servers.
LEMMA ServedJoins ==
    ASSUME Typed, Given, Sited, ServedOnly, Joined, Unparted', Keepers \/ call' = call
    PROVE  Joined'
  <1>s. slot' = slot /\ page' = page
    BY DEF ServedOnly
  <1>h. ASSUME NEW h \in Hosts
        PROVE  (Runs(h)' <=> Runs(h)) /\ (host[h].opened => host'[h].opened)
    BY DEF ServedOnly, Unparted
  <1>r. ASSUME NEW h \in 0..MaxHosts PROVE Runs(h)' <=> Runs(h)
    <2>1. h = 0 \/ h \in Hosts
      BY HostsAssumption DEF Hosts
    <2> QED
      BY <2>1, <1>h DEF Runs
  <1>1. ASSUME NEW c \in Calls, Past(c)'
        PROVE  /\ ~Runs(slot[call[c].ws])'
               /\ call'[c].host # 0 => Runs(call[c].host)'
    <2>1. Past(c) /\ call'[c] = call[c] /\ Brings(c)
      BY <1>1 DEF ServedOnly, Past, Asks, Joined
    <2>2. PICK g \in 0..MaxHosts : g = slot[call[c].ws]
      BY <2>1 DEF Typed, Given, GivenFor, Past, Asks
    <2>3. ~Runs(g)'
      BY <2>1, <2>2, <1>r DEF Brings
    <2>4. PICK h \in 0..MaxHosts : h = call[c].host
      BY DEF Typed, CallTypes
    <2>5. h # 0 => Runs(h)'
      BY <2>1, <2>4, <1>r DEF Brings
    <2> QED
      BY <2>1, <2>2, <2>3, <2>4, <2>5, <1>s DEF Runs
  <1>2. ASSUME page.ws # Nowhere
        PROVE  Runs(slot[page.ws])' <=> Runs(slot[page.ws])
    <2>1. PICK g \in 0..MaxHosts : g = slot[page.ws]
      BY <1>2, Shown
    <2>2. Runs(g)' <=> Runs(g)
      BY <1>r
    <2> QED
      BY <2>1, <2>2, <1>s DEF Runs
  <1>3. ReadyRuns'
    BY <1>2, <1>s DEF Joined, ReadyRuns
  <1>4. ASSUME page.synced
        PROVE  host'[slot[page.ws]].opened \/ \E c \in Calls : Opens(c)'
    <2>1. page.ws # Nowhere /\ Runs(slot[page.ws]) /\ page.ws \in Workspaces
      BY <1>4, Shown DEF Joined, Known
    <2>2. slot[page.ws] \in Hosts
      BY <2>1, RunsHost
    <2>3. CASE host[slot[page.ws]].opened
      BY <2>2, <2>3, <1>h
    <2>4. ASSUME NEW c \in Calls, Opens(c)
          PROVE  Opens(c)' \/ host'[slot[page.ws]].opened
      <3>1. CASE Keepers
        BY <2>1, <2>4, <3>1, OpensFollow
      <3>2. CASE call' = call
        BY <2>4, <3>2, <1>s DEF Opens
      <3> QED
        BY <3>1, <3>2
    <2> QED
      BY <1>4, <2>3, <2>4 DEF Joined, Known
  <1>5. Known'
    <2> SUFFICES ASSUME page.synced
                 PROVE  /\ page.ws # Nowhere /\ Runs(slot[page.ws])'
                        /\ host'[slot[page.ws]].opened \/ \E c \in Calls : Opens(c)'
      BY <1>s DEF Known
    <2> QED
      BY <1>2, <1>4 DEF Joined, Known
  <1>6. \A c \in Calls : Brings(c)'
    BY <1>1 DEF Brings, Past, Asks, ServedOnly, Runs
  <1> QED
    BY <1>3, <1>5, <1>6 DEF Joined

\* An ensure that looks: it goes on only where no host runs, and none has
\* gone on before it.
LEMMA ReadyStatusJoins ==
    ASSUME Typed, Given, Sited, Joined, NEW c \in Calls, ReadyStatus(c), Unparted'
    PROVE  Joined'
  <1>a. /\ call[c].op = "ensure" /\ call[c].at = "start" /\ StageOf(c) /\ call[c].ws \in Workspaces
        /\ call[c].host = 0
    BY DEF ReadyStatus, At, Given, GivenFor, Sited, StageOf, Asks
  <1>s. slot' = slot /\ host' = host
    BY DEF ReadyStatus
  <1>d. ASSUME NEW d \in Calls PROVE ~Past(d)
    <2>1. "overtaken" \notin odd'
      BY DEF Unparted, Separations
    <2>2. ~(call[d].op = "ensure" /\ call[d].at \notin {"start", "done"})
      BY <2>1 DEF ReadyStatus
    <2>3. StageOf(d)
      BY DEF Sited
    <2> QED
      BY <2>2, <2>3 DEF Past, Asks, StageOf
  <1>o. ASSUME NEW d \in Calls, d # c PROVE call'[d] = call[d]
    BY <1>o, DoneIs, GoesOn DEF ReadyStatus, Moves
  <1>p. page'.ws = page.ws /\ page'.synced = page.synced
    BY ToldIs DEF ReadyStatus
  <1>1. CASE Runs(slot[call[c].ws])
    <2>1. call'[c].op = "none" /\ page' = Told(c, call[c].ws)
      BY <1>1, DoneIs DEF ReadyStatus
    <2>2. \A d \in Calls : ~Past(d)'
      BY <2>1, <1>d, <1>o DEF Past, Asks
    <2>3. page'.ready = IF call[c].heard THEN call[c].ws ELSE page.ready
      BY <2>1, ToldIs
    <2>4. ReadyRuns'
      BY <2>3, <1>1, <1>a, <1>p, <1>s DEF ReadyRuns, Joined, StageOf, Asks, Runs
    <2>5. Known'
      <3>1. \A d \in Calls : Opens(d) => Opens(d)'
        BY <1>a, <1>o, <1>p, <1>s DEF Opens
      <3> QED
        BY <3>1, <1>p, <1>s DEF Known, Joined, Runs
    <2> QED
      BY <2>2, <2>4, <2>5 DEF Joined, Brings
  <1>2. CASE ~Runs(slot[call[c].ws])
    <2>1. Go(c, "stop others") /\ page' = page
      BY <1>2 DEF ReadyStatus
    <2>2. call'[c].ws = call[c].ws /\ call'[c].host = 0
      BY <2>1, <1>a, GoesOn
    <2>3. ASSUME NEW d \in Calls PROVE Brings(d)'
      <3>1. CASE d = c
        BY <3>1, <2>2, <1>2, <1>s DEF Brings, Runs
      <3>2. CASE d # c
        BY <3>2, <1>d, <1>o DEF Brings, Past, Asks
      <3> QED
        BY <3>1, <3>2
    <2>4. ReadyRuns'
      BY <2>1, <1>s DEF ReadyRuns, Joined, Runs
    <2>5. Known'
      <3>1. \A d \in Calls : Opens(d) => Opens(d)'
        BY <1>a, <1>o, <1>p, <1>s DEF Opens
      <3> QED
        BY <3>1, <1>p, <1>s DEF Known, Joined, Runs
    <2> QED
      BY <2>3, <2>4, <2>5 DEF Joined
  <1> QED
    BY <1>1, <1>2

\* An ensure that stops the others: the page shows its workspace, which has no
\* host that runs.
LEMMA StopOthersJoin ==
    ASSUME Typed, Given, Sited, One, Joined, NEW c \in Calls, StopOtherWorkspaces(c), Unparted'
    PROVE  Joined'
  <1> DEFINE v == call[c].ws
             hs == {slot[w] : w \in Workspaces \ {v}}
  <1>a. /\ call[c].op = "ensure" /\ call[c].at = "stop others" /\ v \in Workspaces /\ Past(c)
        /\ call[c].host = 0
    BY DEF StopOtherWorkspaces, At, Given, GivenFor, Sited, StageOf, Past, Asks
  <1>s. /\ page' = page /\ host' = Stopped(hs)
        /\ slot' = [w \in Workspaces |-> IF w \in Workspaces \ {v} THEN 0 ELSE slot[w]]
    BY DEF StopOtherWorkspaces
  <1>v. page.ws # Nowhere => page.ws = v
    <2>1. "overtaken" \notin odd'
      BY DEF Unparted, Separations
    <2>2. ~\E w \in Workspaces \ {v} : Ensuring(w) # {} \/ page.ws = w
      BY <2>1 DEF StopOtherWorkspaces
    <2> QED
      BY <2>2, Shown
  <1>c. call'[c].op = "ensure" /\ call'[c].ws = v /\ call'[c].host = 0 /\ Moves(c)
    BY <1>a, GoesOn DEF StopOtherWorkspaces
  <1>r. ~Runs(slot[v])
    BY <1>a DEF Joined, Brings
  <1>w. ~Runs(slot[v])'
    <2>1. slot'[v] = slot[v]
      BY <1>s, <1>a
    <2>2. slot[v] \in Hosts => host'[slot[v]] = host[slot[v]] \/ host'[slot[v]].server = "dead"
      <3>1. ASSUME NEW h \in Hosts PROVE host'[h] = host[h] \/ host'[h].server = "dead"
        BY <1>s, StoppedOnly DEF Typed
      <3> QED
        BY <3>1
    <2>3. slot[v] = 0 \/ slot[v] \in Hosts
      <3>1. slot[v] \in 0..MaxHosts
        BY <1>a DEF Typed
      <3> QED
        BY <3>1, HostsAssumption DEF Hosts
    <2>4. slot[v] # 0 => host'[slot[v]].server # "runs"
      BY <1>r, <2>2, <2>3 DEF Runs
    <2> QED
      BY <2>1, <2>4, <1>c DEF Runs
  <1> HIDE DEF v, hs
  <1>1. ASSUME NEW d \in Calls PROVE Brings(d)'
    <2>1. CASE d = c
      BY <2>1, <1>c, <1>w, <1>s DEF Brings, Runs, v
    <2>2. CASE d # c
      BY <2>2, <1>c, <1>a DEF Brings, Moves, One, Past, Asks
    <2> QED
      BY <2>1, <2>2
  <1>2. ReadyRuns'
    BY <1>v, <1>r, <1>s DEF ReadyRuns, Joined
  <1>3. Known'
    BY <1>v, <1>r, <1>s DEF Known, Joined
  <1> QED
    BY <1>1, <1>2, <1>3 DEF Joined

\* An ensure that starts a host, or fails to.
LEMMA SpawnJoins ==
    ASSUME Typed, Given, Sited, One, Joined, NEW c \in Calls, NEW g \in Hosts, SpawnHost(c, g)
    PROVE  Joined'
  <1>a. /\ call[c].op = "ensure" /\ call[c].at = "spawn" /\ call[c].ws \in Workspaces /\ Past(c)
        /\ host[g].server = "unborn" /\ g # 0 /\ g \in 0..MaxHosts
    BY HostsAssumption DEF SpawnHost, At, Given, GivenFor, Past, Asks, Hosts
  <1>s. slot' = slot /\ page' = page
    BY DEF SpawnHost
  <1>h. host'[g].server = "runs" /\ \A h : h \in Hosts /\ h # g => host'[h] = host[h]
    <2>1. host'[g] = [host[g] EXCEPT !.server = "runs", !.ws = call[c].ws] /\ host[g] \in HostTypes
          /\ Only(g)
      BY SpawnSteps DEF Typed
    <2> QED
      BY <2>1 DEF HostTypes, Only
  <1>w. ASSUME NEW w \in Workspaces
        PROVE  slot[w] # 0 => host'[slot[w]] = host[slot[w]]
    BY <1>h, <1>a DEF Sited, SlotOf
  <1>c. /\ call'[c].op = "ensure" /\ call'[c].ws = call[c].ws /\ call'[c].host = g
        /\ \A d \in Calls \ {c} : call'[d] = call[d]
    <2>1. call' = [call EXCEPT ![c].at = "insert", ![c].host = g] /\ call[c] \in CallTypes
          /\ call \in [Calls -> CallTypes]
      BY DEF SpawnHost, Typed
    <2> QED
      BY <2>1, <1>a DEF CallTypes
  <1>1. ASSUME NEW d \in Calls PROVE Brings(d)'
    <2>1. CASE d = c
      <3>1. Runs(g)'
        BY <1>a, <1>h DEF Runs
      <3>2. ~Runs(slot[call[c].ws])
        BY <1>a DEF Joined, Brings
      <3> QED
        BY <2>1, <3>1, <3>2, <1>a, <1>c, <1>s, <1>w DEF Brings, Runs
    <2>2. CASE d # c
      BY <2>2, <1>c, <1>a DEF Brings, One, Past, Asks
    <2> QED
      BY <2>1, <2>2
  <1>2. page.ws # Nowhere => (Runs(slot[page.ws])' <=> Runs(slot[page.ws]))
    BY <1>w, <1>s, Shown DEF Runs
  <1>3. ReadyRuns'
    BY <1>2, <1>s DEF ReadyRuns, Joined
  <1>4. Known'
    <2> SUFFICES ASSUME page.synced
                 PROVE  /\ page.ws # Nowhere /\ Runs(slot[page.ws])'
                        /\ host'[slot[page.ws]].opened \/ \E d \in Calls : Opens(d)'
      BY <1>s DEF Known
    <2>1. page.ws # Nowhere /\ Runs(slot[page.ws]) /\ page.ws \in Workspaces
      BY Shown DEF Joined, Known
    <2>2. \A d \in Calls : Opens(d) => Opens(d)'
      BY <1>a, <1>c, <1>s DEF Opens
    <2>3. host'[slot[page.ws]] = host[slot[page.ws]]
      BY <2>1, <1>w DEF Runs
    <2> QED
      BY <2>1, <2>2, <2>3, <1>2 DEF Joined, Known
  <1> QED
    BY <1>1, <1>3, <1>4 DEF Joined

LEMMA SpawnFailsJoins ==
    ASSUME Typed, Joined, NEW c \in Calls, SpawnFails(c)
    PROVE  Joined'
  <1>a. call[c].op = "ensure" /\ Past(c)
    BY DEF SpawnFails, At, Past, Asks
  <1>s. slot' = slot /\ page' = page /\ host' = host
    BY DEF SpawnFails
  <1>c. /\ call'[c].op = call[c].op /\ call'[c].ws = call[c].ws /\ call'[c].host = call[c].host
        /\ Moves(c)
    BY GoesOn DEF SpawnFails
  <1>1. ASSUME NEW d \in Calls PROVE Brings(d)'
    BY <1>a, <1>c, <1>s DEF Joined, Brings, Past, Asks, Moves, Runs
  <1>2. ReadyRuns'
    BY <1>s DEF ReadyRuns, Joined, Runs
  <1>3. Known'
    <2>1. \A d \in Calls : Opens(d) => Opens(d)'
      BY <1>a, <1>c, <1>s DEF Opens, Moves
    <2> QED
      BY <2>1, <1>s DEF Known, Joined, Runs
  <1> QED
    BY <1>1, <1>2, <1>3 DEF Joined

\* An ensure that brings its host, or the news that there is none.
LEMMA InsertJoins ==
    ASSUME Typed, Given, Sited, One, Joined, NEW c \in Calls, InsertStatus(c)
    PROVE  Joined'
  <1> DEFINE v == call[c].ws
             g == call[c].host
             w == page.ws
  <1>a. /\ call[c].op = "ensure" /\ call[c].at = "insert" /\ v \in Workspaces /\ Past(c)
        /\ StageOf(c) /\ ~Runs(slot[v]) /\ (g # 0 => Runs(g) /\ g \in Hosts)
    BY DEF InsertStatus, At, Given, GivenFor, Sited, StageOf, Past, Asks, Joined, Brings
  <1>s. slot' = [slot EXCEPT ![v] = g] /\ host' = Stopped({slot[v]})
        /\ page' = Told(c, IF g = 0 THEN Nowhere ELSE v)
    BY DEF InsertStatus
  <1>c. call'[c].op = "none" /\ \A d \in Calls \ {c} : call'[d] = call[d]
    BY DoneIs DEF InsertStatus, Moves
  <1>p. /\ page'.ws = w /\ page'.synced = page.synced
        /\ page'.ready = IF call[c].heard THEN (IF g = 0 THEN Nowhere ELSE v) ELSE page.ready
    BY <1>s, ToldIs
  <1> HIDE DEF v, g, w
  <1>h. ASSUME NEW h \in Hosts, Runs(h)
        PROVE  host'[h] = host[h] /\ h # 0
    <2>1. h # slot[v]
      BY <1>h, <1>a
    <2> QED
      BY <2>1, <1>a, <1>h, <1>s, Replaced DEF Runs
  <1>1. \A d \in Calls : ~Past(d)'
    BY <1>c, <1>a DEF One, Past, Asks
  <1>2. ASSUME w # Nowhere, Runs(slot[w])
        PROVE  w # v /\ slot'[w] = slot[w] /\ host'[slot[w]] = host[slot[w]]
    <2>1. w # v
      BY <1>2, <1>a
    <2>2. w \in Workspaces
      BY <1>2, Shown DEF w
    <2>3. slot[w] \in Hosts
      BY <1>2, <2>2, RunsHost
    <2> QED
      BY <2>1, <2>2, <2>3, <1>2, <1>a, <1>s, <1>h DEF Typed
  <1>3. ASSUME page'.ready = w, w # Nowhere
        PROVE  slot'[w] # 0 /\ host'[slot'[w]].server = "runs"
    <2>1. CASE call[c].heard
      <3>1. g # 0 /\ v = w
        BY <2>1, <1>p, <1>3
      <3>2. slot'[w] = g
        BY <3>1, <1>s, <1>a DEF Typed
      <3> QED
        BY <3>1, <3>2, <1>a, <1>h DEF Runs
    <2>2. CASE ~call[c].heard
      <3>1. Runs(slot[w])
        BY <2>2, <1>p, <1>3 DEF Joined, ReadyRuns, w
      <3> QED
        BY <3>1, <1>2, <1>3 DEF Runs
    <2> QED
      BY <2>1, <2>2
  <1>4. ReadyRuns'
    BY <1>3, <1>p DEF ReadyRuns, Runs, w
  <1>5. Known'
    <2> SUFFICES ASSUME page.synced
                 PROVE  /\ w # Nowhere /\ slot'[w] # 0 /\ host'[slot'[w]].server = "runs"
                        /\ host'[slot'[w]].opened \/ \E d \in Calls : Opens(d)'
      BY <1>p DEF Known, Runs
    <2>1. w # Nowhere /\ Runs(slot[w]) /\ (host[slot[w]].opened \/ \E d \in Calls : Opens(d))
      BY DEF Joined, Known, w
    <2>2. slot'[w] = slot[w] /\ host'[slot[w]] = host[slot[w]]
      BY <2>1, <1>2
    <2>3. \A d \in Calls : Opens(d) => Opens(d)'
      BY <2>2, <1>a, <1>c, <1>p DEF Opens, w
    <2> QED
      BY <2>1, <2>2, <2>3 DEF Runs
  <1> QED
    BY <1>1, <1>4, <1>5 DEF Joined, Brings

\* A stop of a workspace that the page has left.
LEMMA StopJoins ==
    ASSUME Typed, Given, Sited, Joined, NEW c \in Calls, Stop(c), Unparted'
    PROVE  Joined'
  <1> DEFINE v == call[c].ws
             w == page.ws
  <1>a. call[c].op = "stop" /\ v \in Workspaces
    BY DEF Stop, At, Given, GivenFor
  <1>s. slot' = [slot EXCEPT ![v] = 0] /\ host' = Stopped({slot[v]}) /\ page' = page
    BY DEF Stop
  <1>o. Ensuring(v) = {} /\ w # v
    <2>1. "overtaken" \notin odd'
      BY DEF Unparted, Separations
    <2> QED
      BY <2>1 DEF Stop
  <1>c. call'[c].op = "none" /\ \A d \in Calls \ {c} : call'[d] = call[d]
    BY DoneIs DEF Stop, Moves
  <1> HIDE DEF v, w
  <1>h. ASSUME NEW h \in Hosts, host[h].ws # v
        PROVE  host'[h] = host[h]
    <2>1. h # slot[v]
      BY <1>h, <1>a DEF Sited, SlotOf, Hosts
    <2> QED
      BY <2>1, <1>a, <1>s, Replaced
  <1>r. ASSUME NEW u \in Workspaces, u # v
        PROVE  slot'[u] = slot[u] /\ (slot[u] # 0 => host'[slot[u]] = host[slot[u]])
    <2>1. slot'[u] = slot[u]
      BY <1>r, <1>a, <1>s DEF Typed
    <2>2. slot[u] # 0 => slot[u] \in Hosts /\ host[slot[u]].ws = u
      BY DEF Sited, SlotOf
    <2> QED
      BY <2>1, <2>2, <1>h, <1>r
  <1>1. ASSUME NEW d \in Calls, Past(d)'
        PROVE  Brings(d)'
    <2>1. d # c /\ call'[d] = call[d] /\ Past(d) /\ Brings(d) /\ StageOf(d)
      BY <1>1, <1>c DEF Past, Asks, Joined, Sited
    <2>2. call[d].ws \in Workspaces /\ call[d].ws # v
      <3>1. call[d].op = "ensure" /\ call[d].at # "done"
        BY <2>1 DEF StageOf, Past, Asks
      <3> QED
        BY <3>1, <1>o DEF Given, GivenFor, Ensuring
    <2>3. ~Runs(slot[call[d].ws])'
      BY <2>1, <2>2, <1>r DEF Brings, Runs
    <2>4. call[d].host # 0 => host'[call[d].host] = host[call[d].host]
      BY <2>1, <2>2, <1>h DEF StageOf, Past
    <2> QED
      BY <2>1, <2>3, <2>4 DEF Brings, Runs
  <1>2. w # Nowhere => slot'[w] = slot[w] /\ (slot[w] # 0 => host'[slot[w]] = host[slot[w]])
    BY <1>r, <1>o, Shown DEF w
  <1>3. ReadyRuns'
    BY <1>2, <1>s DEF ReadyRuns, Joined, Runs, w
  <1>4. Known'
    <2>1. \A d \in Calls : w # Nowhere /\ Opens(d) => Opens(d)'
      BY <1>2, <1>a, <1>c, <1>s DEF Opens, w
    <2> QED
      BY <2>1, <1>2, <1>s DEF Known, Joined, Runs, w
  <1> QED
    BY <1>1, <1>3, <1>4 DEF Joined, Brings

\* The page: a document it opens is on its way to the host that runs.
LEMMA OpenIssued ==
    ASSUME Typed, InOrder, OpenDocument
    PROVE  \E c \in Calls : Opens(c)'
  <1>1. PICK n \in Nat : \A c \in Calls : call[c].at = "unused" <=> n < c
    BY DEF InOrder
  <1>2. Unused # {} /\ page.ws \in Workspaces /\ call' = Issued(call, First, "open", page.ws)
        /\ page'.ws = page.ws /\ call \in [Calls -> CallTypes]
    BY Shown DEF OpenDocument, Typed
  <1>3. First = n + 1 /\ First \in Calls
    BY <1>1, <1>2, FirstIs
  <1>4. call'[n + 1].op = "open" /\ call'[n + 1].ws = page.ws /\ call'[n + 1].at = "start"
    BY <1>1, <1>2, <1>3, NextIssued
  <1> QED
    BY <1>2, <1>3, <1>4 DEF Opens

LEMMA AddsJoin ==
    ASSUME Typed, Sited, Joined, AddsOnly
    PROVE  /\ \A c \in Calls : Brings(c)'
           /\ page'.ws = page.ws => \A c \in Calls : Opens(c) => Opens(c)'
  <1>s. slot' = slot /\ host' = host
    BY DEF AddsOnly
  <1>u. ASSUME NEW c \in Calls, call[c].at # "unused"
        PROVE  /\ call'[c].op = call[c].op /\ call'[c].ws = call[c].ws
               /\ call'[c].at = call[c].at /\ call'[c].host = call[c].host
    BY <1>u DEF AddsOnly
  <1>n. ASSUME NEW c \in Calls, call[c].at = "unused"
        PROVE  call[c].op = "none" /\ ~Past(c)'
    BY <1>n DEF AddsOnly, Sited, StageOf, Added, Past, Asks
  <1>1. ASSUME NEW c \in Calls PROVE Brings(c)'
    <2>1. CASE call[c].at # "unused"
      BY <2>1, <1>u, <1>s DEF Joined, Brings, Past, Asks, Runs
    <2>2. CASE call[c].at = "unused"
      BY <2>2, <1>n DEF Brings
    <2> QED
      BY <2>1, <2>2
  <1>2. ASSUME page'.ws = page.ws, NEW c \in Calls, Opens(c) PROVE Opens(c)'
    <2>1. call[c].at # "unused"
      BY <1>2 DEF Opens
    <2> QED
      BY <2>1, <1>2, <1>u, <1>s DEF Opens
  <1> QED
    BY <1>1, <1>2

LEMMA TurnJoins ==
    ASSUME Typed, InOrder, Sited, Joined, NEW w \in Workspaces \cup {Nowhere}, NEW code \in BOOLEAN,
           Turn(w, code), Unparted'
    PROVE  Joined'
  <1>1. \A c \in Calls : Brings(c)'
    BY TurnAdds, AddsJoin
  <1>2. page' = [ws |-> w, code |-> code, synced |-> FALSE,
                 ready |-> IF w = Nowhere THEN Nowhere ELSE page.ready]
    BY DEF Turn
  <1>3. ~(w # Nowhere /\ page.ready = w)
    <2>1. odd' = IF w # Nowhere /\ page.ready = w THEN Noted("returned") ELSE odd
      BY DEF Turn
    <2>2. odd' # Noted("returned")
      BY SeparationNoted DEF Unparted, Separations
    <2> QED
      BY <2>1, <2>2
  <1>4. ReadyRuns'
    BY <1>2, <1>3 DEF ReadyRuns
  <1>5. Known'
    BY <1>2 DEF Known
  <1> QED
    BY <1>1, <1>4, <1>5 DEF Joined

LEMMA PageJoins ==
    ASSUME Typed, InOrder, Sited, Joined, ActivateTab \/ OpenDocument \/ RequestDefinition
    PROVE  Joined'
  <1>1. /\ \A c \in Calls : Brings(c)' /\ (Opens(c) => Opens(c)')
        /\ page'.ws = page.ws /\ slot' = slot /\ host' = host
    BY PageAdds, AddsJoin DEF AddsOnly
  <1>2. page'.ready = page.ready
    BY DEF ActivateTab, OpenDocument, RequestDefinition, Typed
  <1>3. ReadyRuns'
    BY <1>1, <1>2 DEF ReadyRuns, Joined, Runs
  <1>4. CASE OpenDocument
    <2>1. page.ws # Nowhere /\ Runs(slot[page.ws])
      BY <1>4 DEF OpenDocument, Joined, ReadyRuns
    <2>2. \E c \in Calls : Opens(c)'
      BY <1>4, OpenIssued
    <2>3. Known'
      BY <2>1, <2>2, <1>1 DEF Known, Runs
    <2> QED
      BY <2>3, <1>1, <1>3 DEF Joined
  <1>5. CASE ActivateTab \/ RequestDefinition
    <2>1. page'.synced = page.synced
      BY <1>5 DEF ActivateTab, RequestDefinition, Typed
    <2>2. Known'
      BY <2>1, <1>1 DEF Known, Joined, Runs
    <2> QED
      BY <2>2, <1>1, <1>3 DEF Joined
  <1> QED
    BY <1>4, <1>5

LEMMA ToldStep ==
    ASSUME ToldInv, [Next]_vars
    PROVE  ToldInv'
  <1>0. PageInv' /\ Typed /\ Given /\ InOrder /\ Sited
    BY PageStep DEF ToldInv, PageInv, LoadInv
  <1> SUFFICES ASSUME Unparted' PROVE Joined'
    BY <1>0 DEF ToldInv
  <1>u. CASE UNCHANGED vars
    <2>1. slot' = slot /\ host' = host /\ call' = call /\ page' = page /\ odd' = odd
      BY <1>u DEF vars
    <2>2. Joined
      BY <2>1 DEF ToldInv, Unparted
    <2> QED
      BY <2>1, <2>2 DEF Joined, Brings, ReadyRuns, Known, Opens, Past, Asks, Runs
  <1>n. ASSUME Next PROVE Joined'
    <2>0. Joined /\ One
      <3>1. odd \subseteq odd'
        BY <1>n, OddGrows
      <3>2. Unparted /\ "overtaken" \notin odd
        BY <3>1 DEF Unparted, Separations
      <3> QED
        BY <3>2 DEF ToldInv, PageInv, InTurn, Ours
    <2>1. ASSUME NEW c \in Calls, CallSteps(c) PROVE Joined'
      <3>1. \/ ReadyStatus(c) \/ StopOtherWorkspaces(c) \/ SpawnFails(c) \/ InsertStatus(c) \/ Stop(c)
            \/ (\E h \in Hosts : SpawnHost(c, h))
            \/ Keepers
        BY <2>1 DEF CallSteps, Keepers
      <3>2. CASE Keepers
        BY <3>2, <1>0, <2>0, KeepersServe, ServedJoins
      <3> QED
        BY <3>1, <3>2, <1>0, <2>0, ReadyStatusJoins, StopOthersJoin, SpawnFailsJoins, InsertJoins,
           StopJoins, SpawnJoins
    <2>2. ASSUME NEW h \in Hosts, ReaderSteps(h) \/ ServerSteps(h) PROVE Joined'
      <3>1. ServerEnds(h) \/ Keepers
        BY <2>2 DEF ReaderSteps, ServerSteps, Keepers
      <3>2. CASE Keepers
        BY <3>2, <1>0, <2>0, KeepersServe, ServedJoins
      <3>3. CASE ServerEnds(h)
        <4>1. call' = call
          BY <3>3 DEF ServerEnds
        <4> QED
          BY <3>3, <4>1, <1>0, <2>0, EndServes, ServedJoins
      <3> QED
        BY <3>1, <3>2, <3>3
    <2>3. ASSUME PageSteps PROVE Joined'
      BY <2>3, <1>0, <2>0, TurnJoins, PageJoins DEF PageSteps
    <2> QED
      BY <1>n, <2>1, <2>2, <2>3 DEF Next
  <1> QED
    BY <1>u, <1>n

LEMMA ToldInit ==
    ASSUME Init
    PROVE  ToldInv
  BY PageInit DEF Init, ToldInv, Joined, Brings, ReadyRuns, Known, Past, Asks, NoCall

LEMMA Telling ==
    ASSUME ToldInv
    PROVE  DocumentsKnown
  <1> SUFFICES ASSUME Settled, Unparted, page.synced
               PROVE  slot[page.ws] # 0 /\ host[slot[page.ws]].opened
    BY DEF DocumentsKnown, Unparted
  <1>1. Runs(slot[page.ws]) /\ (host[slot[page.ws]].opened \/ \E c \in Calls : Opens(c))
    BY DEF ToldInv, Joined, Known
  <1>2. \A c \in Calls : ~Opens(c)
    BY DEF Settled, Opens
  <1> QED
    BY <1>1, <1>2 DEF Runs

\* When the calls have ended, the server the page has was told of the documents
\* the page takes for open, unless an overtaking call, a server that ended or a
\* return to a workspace separates the two (use-code-language-documents.ts).
THEOREM DocumentsTold == Spec => []DocumentsKnown
  BY ToldInit, ToldStep, Telling, PTL DEF Spec
=============================================================================
