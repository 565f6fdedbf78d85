------------------------- MODULE TerminalStreamProofs -------------------------
(***************************************************************************)
(* Theorems about TerminalStream: for any number of chunks, shows and      *)
(* queued events.                                                          *)
(*                                                                         *)
(* A hidden surface is not subscribed (StreamInv). The calls of the        *)
(* surface run later than they are made, so what matters is that they      *)
(* alternate, whatever the surface is doing when it is hidden, refused or  *)
(* failed: the last call made is the one that takes the subscription back  *)
(* exactly when the surface is idle, and a call that subscribes never      *)
(* meets a subscription of an earlier one.                                 *)
(*                                                                         *)
(* A live surface misses nothing but what is lost (SurfaceInv). The events *)
(* on their way, from the queue over the wire and the hands of three       *)
(* threads to what is pending, ascend in their numbers, but for an event   *)
(* that another one has overtaken, whose chunks are lost with that; they   *)
(* hold every chunk above the number the surface counts as seen that is    *)
(* not lost. Up to that number the screen and the frame have every chunk   *)
(* that is not lost. Writing one event keeps both (Fed), and writing those *)
(* that waited keeps them by induction over the queue. What is lost only   *)
(* grows, so a chunk once accounted for stays so. While nothing was        *)
(* doubled the screen ascends, as an event that begins behind the number   *)
(* is a doubling, and the history is only left out where the screen ends   *)
(* with the number asked for.                                              *)
(***************************************************************************)
EXTENDS TerminalStream, SequenceTheorems, FiniteSetTheorems, WellFoundedInduction, TLAPS

CallNames == {"subscribe", "subscribe late", "unsubscribe"}

\* The part of the types the argument needs.
CallsTyped ==
    /\ calls \in Seq(CallNames)
    /\ subs \in Nat

\* Calls that subscribe and calls that do not take turns.
Alternating(s) ==
    \A i \in 1..(Len(s) - 1) : s[i] = "unsubscribe" <=> s[i + 1] # "unsubscribe"

\* The last call says what the surface is.
LastCall == calls # <<>> => (calls[Len(calls)] = "unsubscribe" <=> phase = "idle")

\* The subscription of this time is the last call, as long as it has not run;
\* only then, and as it catches up, has a surface a step.
Latest ==
    /\ \A i \in 1..Len(calls) :
         calls[i] = "subscribe" => i = Len(calls) /\ step = "subscribing"
    /\ step # "none" => phase = "catchingUp"

\* The next call finds what it needs.
Balanced ==
    /\ subs <= 1
    /\ calls # <<>> /\ calls[1] # "unsubscribe" => subs = 0
    /\ calls = <<>> /\ phase = "idle" => subs = 0

\* With nobody subscribed no chunk is pending but the one the reader was
\* collecting when the last subscription went; what the end of the process takes
\* the subscriptions from is still to be flushed or discarded.
Quiet ==
    subs = 0 /\ child # "cleared" =>
        pending = <<>> \/ (Len(pending) = 1 /\ reader # "queue")

StreamInv == CallsTyped /\ Alternating(calls) /\ LastCall /\ Latest /\ Balanced

\* What is left of a sequence without its first element, and what a longer one
\* has besides the last.
LEMMA TailFacts ==
    ASSUME NEW S, NEW s \in Seq(S), s # <<>>
    PROVE  /\ Tail(s) \in Seq(S) /\ Head(s) = s[1] /\ s[1] \in S
           /\ Len(s) \in Nat \ {0} /\ Len(Tail(s)) = Len(s) - 1
           /\ \A i \in 1..(Len(s) - 1) : Tail(s)[i] = s[i + 1]
  <1>1. Len(s) \in Nat \ {0} /\ s \in [1..Len(s) -> S]
    BY LenProperties, EmptySeq
  <1> QED
    BY <1>1, HeadTailProperties

LEMMA FunctionIsSeq ==
    ASSUME NEW S, NEW n \in Nat, NEW f \in [1..n -> S]
    PROVE  f \in Seq(S) /\ Len(f) = n
  BY SeqDef

LEMMA AppendFacts ==
    ASSUME NEW S, NEW s \in Seq(S), NEW e \in S
    PROVE  /\ Append(s, e) \in Seq(S) /\ Append(s, e) # <<>>
           /\ Len(s) \in Nat /\ Len(Append(s, e)) = Len(s) + 1
           /\ Append(s, e)[Len(s) + 1] = e
           /\ \A i \in 1..Len(s) : Append(s, e)[i] = s[i]
  BY AppendProperties, LenProperties

\* The other end of a sequence that takes turns goes on taking turns.
LEMMA AppendAlternates ==
    ASSUME NEW s \in Seq(CallNames), NEW e \in CallNames, Alternating(s),
           s # <<>> => (s[Len(s)] = "unsubscribe" <=> e # "unsubscribe")
    PROVE  Alternating(Append(s, e))
  <1> DEFINE t == Append(s, e)
  <1>1. /\ Len(s) \in Nat /\ Len(t) = Len(s) + 1 /\ t[Len(s) + 1] = e
        /\ \A i \in 1..Len(s) : t[i] = s[i]
    BY AppendFacts
  <1>2. s = <<>> \/ Len(s) \in 1..Len(s)
    BY <1>1, EmptySeq
  <1> HIDE DEF t
  <1> SUFFICES ASSUME NEW i \in 1..(Len(t) - 1)
               PROVE  t[i] = "unsubscribe" <=> t[i + 1] # "unsubscribe"
    BY DEF Alternating, t
  <1>3. CASE i < Len(s)
    <2>1. i \in 1..(Len(s) - 1) /\ i \in 1..Len(s) /\ i + 1 \in 1..Len(s)
      BY <1>1, <1>3
    <2> QED
      BY <2>1, <1>1 DEF Alternating
  <1>4. CASE i = Len(s)
    <2>1. s # <<>> /\ t[i] = s[Len(s)] /\ t[i + 1] = e
      BY <1>1, <1>4
    <2> QED
      BY <2>1
  <1> QED
    BY <1>1, <1>3, <1>4

LEMMA StreamInit == Init => StreamInv
  BY DEF Init, StreamInv, CallsTyped, Alternating, LastCall, Latest, Balanced, CallNames

\* What a step does to the four variables when it is none of the surface's or
\* the calls'.
LEMMA OthersQuiet ==
    ASSUME Next, ~RunCall, ~Show, ~Ready, ~CatchUpFails, ~Hide, ~RemoveSubscribers,
           ~Restore, ~ReadSnapshot, ~WriteHistory
    PROVE  UNCHANGED <<calls, subs, phase, step>>
  BY DEF Next, Progress, PushRestore, LookForSubscribers, QueueChunk, FlushChunk, Tick, Emit,
     ExitFlush, HandleOutput, Frame, ReadChunk, CloseLog, LookAtEnd, ReaderEnds, ChildExits,
     LookBeforeRemoval, RemoveSession, backend, surface

\* A call is made: it is the last one now.
LEMMA CallMade ==
    ASSUME StreamInv, NEW s \in Seq(CallNames), Len(s) = Len(calls), Alternating(s),
           \A i \in 1..Len(s) : /\ s[i] = "unsubscribe" <=> calls[i] = "unsubscribe"
                                /\ s[i] # "subscribe",
           NEW e \in {"subscribe", "unsubscribe"}, calls' = Append(s, e), subs' = subs,
           e = "unsubscribe" <=> phase # "idle",
           e = "unsubscribe" <=> phase' = "idle",
           e = "subscribe" => step' = "subscribing",
           step' # "none" => phase' = "catchingUp"
    PROVE  StreamInv'
  <1>0. e \in CallNames
    BY DEF CallNames
  <1>1. /\ calls' \in Seq(CallNames) /\ calls' # <<>>
        /\ Len(s) \in Nat /\ Len(calls') = Len(s) + 1 /\ calls'[Len(s) + 1] = e
        /\ \A i \in 1..Len(s) : calls'[i] = s[i]
    BY <1>0, AppendFacts
  <1>2. s # <<>> => Len(s) \in 1..Len(s) /\ 1 \in 1..Len(s)
    BY <1>1, EmptySeq
  <1>3. (s = <<>> <=> calls = <<>>) /\ (s = <<>> => Len(s) = 0)
    BY EmptySeq, <1>1 DEF StreamInv, CallsTyped
  <1>4. s # <<>> => (s[Len(s)] = "unsubscribe" <=> e # "unsubscribe")
    BY <1>2, <1>3 DEF StreamInv, LastCall
  <1>5. CallsTyped'
    BY <1>1 DEF StreamInv, CallsTyped
  <1>6. Alternating(calls)'
    BY <1>0, <1>4, AppendAlternates DEF Alternating
  <1>7. LastCall'
    BY <1>1 DEF LastCall
  <1>8. Latest'
    BY <1>1 DEF Latest
  <1>9. Balanced'
    <2>1. CASE s = <<>>
      <3>1. calls'[1] = e /\ (e # "unsubscribe" => subs = 0)
        BY <2>1, <1>1, <1>3 DEF StreamInv, Balanced
      <3> QED
        BY <3>1, <1>1 DEF StreamInv, Balanced
    <2>2. CASE s # <<>>
      <3>1. calls'[1] = s[1] /\ (s[1] = "unsubscribe" <=> calls[1] = "unsubscribe")
        BY <2>2, <1>1, <1>2
      <3> QED
        BY <3>1, <2>2, <1>1, <1>3 DEF StreamInv, Balanced
    <2> QED
      BY <2>1, <2>2
  <1> QED
    BY <1>5, <1>6, <1>7, <1>8, <1>9 DEF StreamInv

\* The next call runs.
LEMMA CallRuns ==
    ASSUME StreamInv, RunCall
    PROVE  StreamInv'
  <1>1. /\ calls \in Seq(CallNames) /\ calls # <<>> /\ calls' = Tail(calls) /\ phase' = phase
    BY DEF RunCall, StreamInv, CallsTyped
  <1>2. /\ calls' \in Seq(CallNames) /\ Head(calls) = calls[1] /\ calls[1] \in CallNames
        /\ Len(calls) \in Nat \ {0} /\ Len(calls') = Len(calls) - 1
        /\ \A i \in 1..(Len(calls) - 1) : calls'[i] = calls[i + 1]
    BY <1>1, TailFacts
  <1>3. calls' # <<>> => Len(calls') \in Nat \ {0}
    BY <1>2, EmptySeq
  <1>4. calls' = <<>> => Len(calls) = 1
    BY <1>2, EmptySeq
  <1>5. Alternating(calls)'
    <2> SUFFICES ASSUME NEW i \in 1..(Len(calls') - 1)
                 PROVE  calls'[i] = "unsubscribe" <=> calls'[i + 1] # "unsubscribe"
      BY DEF Alternating
    <2>1. /\ i \in 1..(Len(calls) - 1) /\ i + 1 \in 1..(Len(calls) - 1)
      BY <1>2
    <2>2. calls'[i] = calls[i + 1] /\ calls'[i + 1] = calls[(i + 1) + 1]
      BY <2>1, <1>2
    <2>3. calls[i + 1] = "unsubscribe" <=> calls[(i + 1) + 1] # "unsubscribe"
      BY <2>1 DEF StreamInv, Alternating
    <2> QED
      BY <2>2, <2>3
  <1>6. LastCall'
    <2> SUFFICES ASSUME calls' # <<>>
                 PROVE  calls'[Len(calls')] = "unsubscribe" <=> phase = "idle"
      BY <1>1 DEF LastCall
    <2>1. calls'[Len(calls')] = calls[Len(calls)]
      BY <1>2, <1>3
    <2> QED
      BY <2>1, <1>1 DEF StreamInv, LastCall
  <1>7. Latest'
    <2>1. CASE calls[1] = "subscribe"
      <3>1. 1 \in 1..Len(calls)
        BY <1>2
      <3>2. Len(calls) = 1 /\ step = "subscribing" /\ phase = "catchingUp"
        BY <3>1, <2>1 DEF StreamInv, Latest
      <3>3. Len(calls') = 0
        BY <3>2, <1>2
      <3> QED
        BY <3>2, <3>3, <1>1 DEF Latest
    <2>2. CASE calls[1] # "subscribe"
      <3>1. step' = step
        BY <2>2, <1>2 DEF RunCall
      <3>2. ASSUME NEW i \in 1..Len(calls'), calls'[i] = "subscribe"
            PROVE  i = Len(calls') /\ step = "subscribing"
        <4>1. i + 1 \in 1..Len(calls) /\ calls[i + 1] = "subscribe"
          BY <3>2, <1>2
        <4>2. i + 1 = Len(calls) /\ step = "subscribing"
          BY <4>1 DEF StreamInv, Latest
        <4> QED
          BY <4>2, <1>2
      <3> QED
        BY <3>1, <3>2, <1>1 DEF StreamInv, Latest
    <2> QED
      BY <2>1, <2>2
  <1>8. subs' \in Nat /\ Balanced'
    <2>1. CASE calls[1] = "unsubscribe"
      <3>1. subs' = 0
        BY <2>1, <1>2 DEF RunCall, StreamInv, CallsTyped, Balanced
      <3> QED
        BY <3>1 DEF Balanced
    <2>2. CASE calls[1] # "unsubscribe"
      <3>1. subs = 0 /\ subs' \in {0, 1}
        BY <2>2, <1>1, <1>2 DEF RunCall, StreamInv, Balanced
      <3>2. calls' # <<>> => calls'[1] = "unsubscribe"
        <4> SUFFICES ASSUME calls' # <<>>
                     PROVE  calls'[1] = "unsubscribe"
          OBVIOUS
        <4>1. 1 \in 1..(Len(calls) - 1) /\ calls'[1] = calls[1 + 1]
          BY <1>2, <1>3
        <4> QED
          BY <4>1, <2>2 DEF StreamInv, Alternating
      <3>3. calls' = <<>> => phase # "idle"
        BY <2>2, <1>1, <1>4 DEF StreamInv, LastCall
      <3> QED
        BY <3>1, <3>2, <3>3, <1>1 DEF Balanced
    <2> QED
      BY <2>1, <2>2
  <1> QED
    BY <1>2, <1>5, <1>6, <1>7, <1>8 DEF StreamInv, CallsTyped

LEMMA StreamStep ==
    ASSUME StreamInv, Next
    PROVE  StreamInv'
  <1>typed. calls \in Seq(CallNames) /\ Alternating(calls) /\ subs \in Nat
    BY DEF StreamInv, CallsTyped
  <1>catching. step # "none" => phase = "catchingUp"
    BY DEF StreamInv, Latest
  <1>run. step # "subscribing" => \A i \in 1..Len(calls) : calls[i] # "subscribe"
    BY DEF StreamInv, Latest
  <1>1. CASE RunCall
    BY <1>1, CallRuns
  <1>2. CASE Show
    <2>1. /\ phase = "idle" /\ phase' = "catchingUp" /\ step' = "subscribing"
          /\ calls' = Append(calls, "subscribe") /\ subs' = subs
      BY <1>2 DEF Show, backend
    <2>2. \A i \in 1..Len(calls) : calls[i] # "subscribe"
      BY <2>1, <1>catching, <1>run
    <2> QED
      BY <2>1, <2>2, <1>typed, CallMade
  <1>3. CASE Hide
    <2>1. PICK late :
            /\ late = [i \in DOMAIN calls |->
                         IF calls[i] = "subscribe" THEN "subscribe late" ELSE calls[i]]
            /\ calls' = Append(late, "unsubscribe")
      BY <1>3 DEF Hide
    <2>2. phase # "idle" /\ phase' = "idle" /\ step' = "none" /\ subs' = subs
      BY <1>3 DEF Hide, backend
    <2>3. /\ Len(calls) \in Nat /\ DOMAIN calls = 1..Len(calls)
          /\ \A i \in 1..Len(calls) : calls[i] \in CallNames
      BY <1>typed, LenProperties
    <2>4. late \in [1..Len(calls) -> CallNames]
      BY <2>1, <2>3 DEF CallNames
    <2>5. /\ late \in Seq(CallNames) /\ Len(late) = Len(calls)
          /\ \A i \in 1..Len(late) : /\ late[i] # "subscribe"
                                     /\ late[i] = "unsubscribe" <=> calls[i] = "unsubscribe"
      <3>1. late \in Seq(CallNames) /\ Len(late) = Len(calls)
        BY <2>3, <2>4, FunctionIsSeq
      <3> QED
        BY <3>1, <2>1, <2>3 DEF CallNames
    <2>6. Alternating(late)
      <3> SUFFICES ASSUME NEW i \in 1..(Len(late) - 1)
                   PROVE  late[i] = "unsubscribe" <=> late[i + 1] # "unsubscribe"
        BY DEF Alternating
      <3>1. i \in 1..Len(late) /\ i + 1 \in 1..Len(late) /\ i \in 1..(Len(calls) - 1)
        BY <2>3, <2>5
      <3>2. calls[i] = "unsubscribe" <=> calls[i + 1] # "unsubscribe"
        BY <3>1, <1>typed DEF Alternating
      <3> QED
        BY <3>1, <3>2, <2>5
    <2>7. calls' = Append(late, "unsubscribe")
      BY <2>1
    <2> QED
      BY <2>2, <2>5, <2>6, <2>7, CallMade
  <1>4. CASE Ready
    <2>1. phase = "catchingUp" /\ step' = "none" /\ subs' = subs
      BY <1>4, <1>catching DEF Ready, backend
    <2>2. \A i \in 1..Len(calls) : calls[i] # "subscribe"
      BY <1>4, <1>run DEF Ready
    <2>3. CASE shown.active
      <3>1. phase' = "live" /\ calls' = calls
        BY <1>4, <2>3 DEF Ready, GoLive
      <3> QED
        BY <3>1, <2>1, <2>2 DEF StreamInv, CallsTyped, Alternating, LastCall, Latest, Balanced
    <2>4. CASE ~shown.active
      <3>1. phase' = "idle" /\ calls' = Append(calls, "unsubscribe")
        BY <1>4, <2>4 DEF Ready, GoInactive
      <3> QED
        BY <3>1, <2>1, <2>2, <1>typed, CallMade
    <2> QED
      BY <2>3, <2>4
  <1>5. CASE CatchUpFails
    <2>1. /\ phase = "catchingUp" /\ phase' = "live" /\ step' = "none"
          /\ calls' = calls /\ subs' = subs
      BY <1>5, <1>catching DEF CatchUpFails, backend
    <2>2. \A i \in 1..Len(calls) : calls[i] # "subscribe"
      BY <1>5, <1>run DEF CatchUpFails
    <2> QED
      BY <2>1, <2>2 DEF StreamInv, CallsTyped, Alternating, LastCall, Latest, Balanced
  <1>6. CASE RemoveSubscribers
    <2>1. subs' = 0 /\ UNCHANGED <<calls, phase, step>>
      BY <1>6 DEF RemoveSubscribers, surface
    <2> QED
      BY <2>1 DEF StreamInv, CallsTyped, Alternating, LastCall, Latest, Balanced
  <1>7. CASE Restore \/ ReadSnapshot \/ WriteHistory
    <2>1. /\ UNCHANGED <<calls, subs, phase>> /\ step \notin {"none", "subscribing"}
      BY <1>7 DEF Restore, ReadSnapshot, WriteHistory, backend
    <2>2. (\A i \in 1..Len(calls) : calls[i] # "subscribe") /\ phase = "catchingUp"
      BY <2>1, <1>run, <1>catching
    <2> QED
      BY <2>1, <2>2 DEF StreamInv, CallsTyped, Alternating, LastCall, Latest, Balanced
  <1>8. CASE UNCHANGED <<calls, subs, phase, step>>
    BY <1>8 DEF StreamInv, CallsTyped, Alternating, LastCall, Latest, Balanced
  <1> QED
    BY <1>1, <1>2, <1>3, <1>4, <1>5, <1>6, <1>7, <1>8, OthersQuiet

LEMMA QuietInit == Init => Quiet
  BY DEF Init, Quiet

\* Steps that touch none of the four variables, or only the process's.
LEMMA OthersPending ==
    ASSUME Next, ~LookForSubscribers, ~QueueChunk, ~FlushChunk, ~Tick, ~ReaderEnds, ~ExitFlush,
           ~RunCall, ~RemoveSubscribers
    PROVE  /\ UNCHANGED <<subs, pending>>
           /\ reader' = reader \/ reader' # "queue"
           /\ child' = child \/ child # "cleared"
  BY DEF Next, Progress, PushRestore, Emit, HandleOutput, Frame, ReadChunk, CloseLog, LookAtEnd,
     ChildExits, LookBeforeRemoval, RemoveSession, Restore, ReadSnapshot, WriteHistory, Ready,
     Show, CatchUpFails, Hide, GoLive, GoInactive, backend, surface

LEMMA QuietStep ==
    ASSUME StreamInv, Quiet, Next
    PROVE  Quiet'
  <1>0. subs \in {0, 1}
    BY DEF StreamInv, CallsTyped, Balanced
  <1>1. CASE LookForSubscribers
    BY <1>0, <1>1 DEF LookForSubscribers, Quiet
  <1>2. CASE QueueChunk
    <2>1. CASE pending = <<>>
      <3>1. Len(Append(<<>>, latest)) = 1
        OBVIOUS
      <3> QED
        BY <2>1, <3>1, <1>2 DEF QueueChunk, Quiet
    <2>2. CASE pending # <<>>
      BY <2>2, <1>2 DEF QueueChunk, Quiet
    <2> QED
      BY <2>1, <2>2
  <1>3. CASE FlushChunk \/ Tick \/ ReaderEnds \/ ExitFlush
    BY <1>3 DEF FlushChunk, Tick, ReaderEnds, ExitFlush, FlushOrDiscard, Take, Quiet
  <1>4. CASE RunCall
    <2>1. UNCHANGED <<reader, child>>
      BY <1>4 DEF RunCall
    <2>2. CASE subs = 1
      BY <2>1, <2>2, <1>4 DEF RunCall, Quiet
    <2>3. CASE subs = 0
      BY <2>1, <2>3, <1>4 DEF RunCall, Quiet
    <2> QED
      BY <2>2, <2>3, <1>0
  <1>5. CASE RemoveSubscribers
    BY <1>5 DEF RemoveSubscribers, Quiet
  <1> QED
    BY <1>1, <1>2, <1>3, <1>4, <1>5, OthersPending DEF Quiet

\* A hidden terminal is not subscribed once its calls have run, and no more is
\* pending for it than the chunk that was being collected, however often and at
\* whatever point it was shown, hidden, refused or failed, and wherever the
\* reader was (terminal-live-pipeline.ts, becomeHidden; remove_output_subscriber).
THEOREM HiddenStaysSilent == Spec => []HiddenIsSilent
  <1>1. StreamInv /\ Quiet /\ UNCHANGED vars => StreamInv' /\ Quiet'
    BY DEF vars, backend, surface, StreamInv, CallsTyped, Alternating, LastCall, Latest, Balanced,
       Quiet
  <1>2. StreamInv /\ Quiet => HiddenIsSilent
    <2> SUFFICES ASSUME StreamInv, Quiet, phase = "idle", calls = <<>>, child # "cleared"
                 PROVE  Len(pending) <= 1
      BY DEF StreamInv, Balanced, HiddenIsSilent
    <2>1. pending = <<>> \/ Len(pending) = 1
      BY DEF StreamInv, Balanced, Quiet
    <2>2. Len(<<>>) <= 1
      OBVIOUS
    <2> QED
      BY <2>1, <2>2
  <1>3. StreamInv /\ Quiet /\ Next => StreamInv' /\ Quiet'
    BY StreamStep, QuietStep
  <1> QED
    BY <1>1, <1>2, <1>3, StreamInit, QuietInit, PTL DEF Spec

(***************************************************************************)
(* Induction over a sequence, as the existence of a least number at which  *)
(* something fails: sets of numbers correspond to sets of intervals, which *)
(* are well founded by inclusion.                                          *)
(***************************************************************************)
\* A set of numbers up to N that is not empty has a least member.
LEMMA LeastNat ==
    ASSUME NEW N \in Nat, NEW T, T \subseteq 0..N, T # {}
    PROVE  \E n \in T : \A m \in 0..N : m < n => m \notin T
  <1> DEFINE S == 1..N
             R == StrictSubsetOrdering(S)
             I == {1..n : n \in T}
  <1>1. IsFiniteSet(S)
    BY FS_Interval
  <1>2. IsWellFoundedOn(R, SUBSET S)
    BY <1>1, FS_FiniteSubsetsOfFinite, FS_StrictSubsetOrderingWellFounded
  <1>3. I \subseteq SUBSET S /\ I # {}
    <2>1. \A n \in T : 1..n \subseteq 1..N
      OBVIOUS
    <2>2. PICK n \in T : TRUE
      OBVIOUS
    <2>3. 1..n \in I
      BY <2>2
    <2> QED
      BY <2>1, <2>3
  <1>4. PICK x \in I : \A y \in I : ~(<<y, x>> \in R)
    <2> HIDE DEF R, I, S
    <2> QED
      BY <1>2, <1>3, WFMin
  <1>5. PICK n \in T : x = 1..n
    BY <1>4
  <1>6. ASSUME NEW m \in 0..N, m < n, m \in T
        PROVE  FALSE
    <2>1. 1..m \subseteq 1..n /\ n \in 1..n /\ n \notin 1..m
      BY <1>5, <1>6
    <2>2. 1..m \in SUBSET S /\ 1..n \in SUBSET S
      OBVIOUS
    <2>3. <<1..m, 1..n>> \in R
      BY <2>1, <2>2 DEF StrictSubsetOrdering
    <2> QED
      BY <2>3, <1>4, <1>5, <1>6
  <1> QED
    BY <1>6

(***************************************************************************)
(* The events that waited are written one after the other.                 *)
(***************************************************************************)
\* f gives what was written after each of the first n events.
Follows(f, s, events, n) ==
    f = [i \in 0..n |-> IF i = 0 THEN s ELSE Written(f[i - 1], events[i])]

\* What AllWritten computes is reached by a step per event.
LEMMA WrittenStepwise ==
    ASSUME NEW s, NEW events, Len(events) \in Nat
    PROVE  \E f : /\ f[0] = s
                  /\ \A n \in 1..Len(events) : f[n] = Written(f[n - 1], events[n])
                  /\ AllWritten(s, events) = f[Len(events)]
  <1> DEFINE N == Len(events)
             T == {n \in 0..N : ~ \E f : Follows(f, s, events, n)}
  <1>1. T = {}
    <2> SUFFICES ASSUME T # {}
                 PROVE  FALSE
      OBVIOUS
    <2>1. PICK n \in T : \A m \in 0..N : m < n => m \notin T
      <3> HIDE DEF T
      <3>1. T \subseteq 0..N
        BY DEF T
      <3> QED
        BY <3>1, LeastNat
    <2>2. CASE n = 0
      <3> DEFINE f == [i \in 0..0 |-> s]
      <3>1. Follows(f, s, events, 0)
        BY DEF Follows
      <3> QED
        BY <2>1, <2>2, <3>1
    <2>3. CASE n # 0
      <3>1. n - 1 \in 0..N /\ n \in 0..N
        BY <2>1, <2>3
      <3>2. PICK g : Follows(g, s, events, n - 1)
        BY <2>1, <3>1
      <3> DEFINE f == [i \in 0..n |-> IF i < n THEN g[i] ELSE Written(g[n - 1], events[n])]
      <3>3. \A i \in 0..(n - 1) : f[i] = g[i]
        BY <3>1
      <3>4. \A i \in 0..n : f[i] = IF i = 0 THEN s ELSE Written(f[i - 1], events[i])
        <4> SUFFICES ASSUME NEW i \in 0..n
                     PROVE  f[i] = IF i = 0 THEN s ELSE Written(f[i - 1], events[i])
          OBVIOUS
        <4>1. CASE i = n
          <5>1. f[n] = Written(g[n - 1], events[n]) /\ f[n - 1] = g[n - 1]
            BY <3>1, <3>3, <2>3
          <5> QED
            BY <5>1, <4>1, <2>3
        <4>2. CASE i # n
          <5>1. i \in 0..(n - 1) /\ (i # 0 => i - 1 \in 0..(n - 1))
            BY <4>2, <3>1
          <5>2. g[i] = IF i = 0 THEN s ELSE Written(g[i - 1], events[i])
            BY <5>1, <3>2 DEF Follows
          <5> QED
            BY <5>1, <5>2, <3>3
        <4> QED
          BY <4>1, <4>2
      <3>5. Follows(f, s, events, n)
        <4>1. f = [i \in 0..n |-> f[i]]
          OBVIOUS
        <4> HIDE DEF f
        <4> QED
          BY <4>1, <3>4 DEF Follows
      <3> QED
        BY <2>1, <3>5
    <2> QED
      BY <2>2, <2>3
  <1>2. PICK g : Follows(g, s, events, N)
    <2>1. N \in 0..N
      OBVIOUS
    <2> QED
      BY <1>1, <2>1
  <1> DEFINE after == CHOOSE f : f = [i \in 0..N |-> IF i = 0 THEN s ELSE Written(f[i - 1], events[i])]
  <1>3. after = [i \in 0..N |-> IF i = 0 THEN s ELSE Written(after[i - 1], events[i])]
    BY <1>2 DEF Follows
  <1>4. AllWritten(s, events) = after[N]
    BY DEF AllWritten
  <1> HIDE DEF after
  <1> QED
    BY <1>3, <1>4

(***************************************************************************)
(* What is on its way.  The events on their way ascend from the queue over *)
(* the wire and the hands of the threads to what is pending, but for       *)
(* chunks that were overtaken and so are lost (Sorted). Every chunk above  *)
(* the number the surface has reached that the reader is done with is      *)
(* among them, or lost (Covered).                                          *)
(***************************************************************************)
EventTypes == Seq(Chunks) \ {<<>>}

\* No event is empty.
Filled == queue \in Seq(EventTypes) /\ wire \in Seq(EventTypes)

\* A surface that is or was subscribed was shown.
Begun == phase # "idle" \/ calls # <<>> \/ subs > 0 => shows > 0

\* The last chunk the reader is done with.
Taken == IF reader \in {"logged", "pushed", "queue"} THEN log - 1 ELSE log

Counted ==
    /\ reader \in {"logged", "pushed", "queue"} => log > 0
    /\ latest = IF reader = "logged" THEN log - 1 ELSE log
    /\ shown.restored <= latest /\ shown.history <= log /\ disk <= log

Ascends(s) == \A i, j \in DOMAIN s : i < j => s[i] < s[j]

\* All of s comes before t.
Before(s, t) == \A i \in DOMAIN s, j \in DOMAIN t : s[i] < t[j]

\* So they do, but for what is gone.
Ahead(s, t, gone) == \A i \in DOMAIN s, j \in DOMAIN t : s[i] < t[j] \/ t[j] \in gone

UpTo(s, n) == \A i \in DOMAIN s : s[i] <= n

\* The events that wait for the history, and then those on the wire.
Arriving == Len(queue) + Len(wire)

Arrival(i) == IF i <= Len(queue) THEN queue[i] ELSE wire[i - Len(queue)]

Sorted ==
    /\ Ascends(pending) /\ UpTo(pending, Taken)
    /\ \A t \in Threads :
         Ascends(hands[t]) /\ UpTo(hands[t], Taken) /\ Before(hands[t], pending)
    /\ \A t, u \in Threads :
         t # u => Before(hands[t], hands[u]) \/ Before(hands[u], hands[t])
    /\ \A i \in 1..Arriving :
         /\ Ascends(Arrival(i)) /\ UpTo(Arrival(i), Taken) /\ Before(Arrival(i), pending)
         /\ \A t \in Threads : Ahead(Arrival(i), hands[t], lost)
    /\ \A i, j \in 1..Arriving : i < j => Ahead(Arrival(i), Arrival(j), lost)

\* What is on its way behind the first k events that arrive.
Rest(k) ==
    {n \in Nat : \/ n \in ChunksOf(pending)
                 \/ \E t \in Threads : n \in ChunksOf(hands[t])
                 \/ \E i \in 1..Arriving : k < i /\ n \in ChunksOf(Arrival(i))}

Covered(number, chunks, gone) ==
    \A n \in Nat : number < n /\ n <= Taken => n \in chunks \cup gone

\* The surface counts on what is on its way from its base on.
Attached ==
    \/ phase = "live"
    \/ step \in {"reading", "writing", "ready"} /\ shown.active

Base == IF phase = "live" THEN shown.latest ELSE shown.restored

\* A surface whose subscription has run has no other call, and a subscription.
Linked ==
    step \in {"restoring", "reading", "writing", "ready"} \/ phase = "live" =>
        calls = <<>> /\ (Present => subs > 0)

Flight == Sorted /\ (Attached => Covered(Base, Rest(0), lost))

(***************************************************************************)
(* Orders of sequences.                                                    *)
(***************************************************************************)
LEMMA ChunkSeq ==
    ASSUME NEW s \in Seq(Chunks)
    PROVE  /\ Len(s) \in Nat /\ DOMAIN s = 1..Len(s)
           /\ \A i \in 1..Len(s) : s[i] \in Chunks /\ s[i] \in Nat
  <1>1. Len(s) \in Nat /\ s \in [1..Len(s) -> Chunks]
    BY LenProperties
  <1> QED
    BY <1>1 DEF Chunks

LEMMA EmptyOrder ==
    /\ Ascends(<<>>) /\ ChunksOf(<<>>) = {}
    /\ \A n : UpTo(<<>>, n)
    /\ \A s : Before(<<>>, s) /\ Before(s, <<>>)
    /\ \A s, gone : Ahead(<<>>, s, gone) /\ Ahead(s, <<>>, gone)
  BY DEF Ascends, UpTo, Before, Ahead, ChunksOf

\* What comes before is ahead, and stays so when more is lost.
LEMMA AheadGrows ==
    ASSUME NEW s, NEW t, NEW gone, NEW more, gone \subseteq more
    PROVE  /\ Before(s, t) => Ahead(s, t, gone)
           /\ Ahead(s, t, gone) => Ahead(s, t, more)
           /\ ChunksOf(t) \subseteq gone => Ahead(s, t, gone)
  BY DEF Before, Ahead, ChunksOf

\* A number that is larger than all others is appended.
LEMMA AppendOrder ==
    ASSUME NEW s \in Seq(Chunks), NEW n \in Chunks, UpTo(s, n - 1)
    PROVE  /\ Ascends(s) => Ascends(Append(s, n))
           /\ UpTo(Append(s, n), n)
           /\ ChunksOf(Append(s, n)) = ChunksOf(s) \cup {n}
           /\ \A u \in Seq(Chunks) :
                Before(u, s) /\ UpTo(u, n - 1) => Before(u, Append(s, n))
  <1> DEFINE t == Append(s, n)
  <1>1. /\ t \in Seq(Chunks) /\ Len(s) \in Nat /\ Len(t) = Len(s) + 1 /\ t[Len(s) + 1] = n
        /\ \A i \in 1..Len(s) : t[i] = s[i]
    BY AppendFacts
  <1>2. DOMAIN s = 1..Len(s) /\ DOMAIN t = 1..(Len(s) + 1)
    BY <1>1, LenProperties
  <1>3. \A i \in 1..Len(s) : s[i] \in Nat /\ s[i] <= n - 1
    BY <1>2, ChunkSeq DEF UpTo
  <1>4. n \in Nat
    BY DEF Chunks
  <1> HIDE DEF t
  <1>5. Ascends(s) => Ascends(t)
    BY <1>1, <1>2, <1>3, <1>4 DEF Ascends
  <1>6. UpTo(t, n)
    BY <1>1, <1>2, <1>3, <1>4 DEF UpTo
  <1>7. ChunksOf(t) = ChunksOf(s) \cup {n}
    <2>1. \A i \in 1..(Len(s) + 1) : t[i] \in ChunksOf(s) \cup {n}
      BY <1>1, <1>2 DEF ChunksOf
    <2>2. n \in ChunksOf(t)
      BY <1>1, <1>2 DEF ChunksOf
    <2>3. \A i \in 1..Len(s) : s[i] \in ChunksOf(t)
      BY <1>1, <1>2 DEF ChunksOf
    <2> QED
      BY <2>1, <2>2, <2>3, <1>2 DEF ChunksOf
  <1>8. ASSUME NEW u \in Seq(Chunks), Before(u, s), UpTo(u, n - 1)
        PROVE  Before(u, t)
    <2>1. DOMAIN u = 1..Len(u) /\ \A i \in 1..Len(u) : u[i] \in Nat
      BY ChunkSeq
    <2> QED
      BY SMTT(30), <2>1, <1>1, <1>2, <1>3, <1>4, <1>8 DEF Before, UpTo
  <1> QED
    BY <1>5, <1>6, <1>7, <1>8 DEF t

\* A bound may be raised.
LEMMA UpToGrows ==
    ASSUME NEW s \in Seq(Chunks), NEW m \in Int, NEW n \in Int, m <= n, UpTo(s, m)
    PROVE  UpTo(s, n)
  <1>1. \A i \in DOMAIN s : s[i] \in Int
    BY ChunkSeq
  <1> QED
    BY <1>1 DEF UpTo

\* The last number of an event that ascends is its largest.
LEMMA LastLargest ==
    ASSUME NEW e \in EventTypes, Ascends(e)
    PROVE  /\ Last(e) \in ChunksOf(e) /\ Last(e) \in Chunks /\ Head(e) \in Chunks
           /\ \A n \in ChunksOf(e) : n \in Chunks /\ n <= Last(e)
           /\ Len(e) \in Nat \ {0} /\ DOMAIN e = 1..Len(e)
           /\ Head(e) = e[1] /\ Last(e) = e[Len(e)]
  <1>1. e \in Seq(Chunks) /\ Len(e) \in Nat \ {0} /\ DOMAIN e = 1..Len(e)
    BY EmptySeq, LenProperties DEF EventTypes
  <1>2. \A i \in 1..Len(e) : e[i] \in Chunks
    BY <1>1, ElementOfSeq
  <1>3. Last(e) = e[Len(e)] /\ Head(e) = e[1]
    BY <1>1, TailFacts DEF Last, EventTypes
  <1>4. \A i \in 1..Len(e) : e[i] <= e[Len(e)]
    BY <1>1, <1>2 DEF Ascends, Chunks
  <1> QED
    BY <1>1, <1>2, <1>3, <1>4 DEF ChunksOf

(***************************************************************************)
(* The events that arrive.                                                 *)
(***************************************************************************)
\* The first k of them are gone.
Moves(k) ==
    /\ k \in 0..Arriving
    /\ Arriving' = Arriving - k
    /\ \A i \in 1..(Arriving - k) : Arrival(i)' = Arrival(i + k)

LEMMA ArrivalTyped ==
    ASSUME Filled
    PROVE  /\ Len(queue) \in Nat /\ Len(wire) \in Nat /\ Arriving \in Nat
           /\ \A i \in 1..Arriving : Arrival(i) \in EventTypes
  <1>1. /\ Len(queue) \in Nat /\ queue \in [1..Len(queue) -> EventTypes]
        /\ Len(wire) \in Nat /\ wire \in [1..Len(wire) -> EventTypes]
    BY LenProperties DEF Filled
  <1>2. ASSUME NEW i \in 1..Arriving
        PROVE  Arrival(i) \in EventTypes
    <2>1. CASE i <= Len(queue)
      BY <1>1, <2>1 DEF Arrival
    <2>2. CASE ~(i <= Len(queue))
      <3>1. i - Len(queue) \in 1..Len(wire)
        BY <1>1, <2>2 DEF Arriving
      <3> QED
        BY <1>1, <2>2, <3>1 DEF Arrival
    <2> QED
      BY <2>1, <2>2
  <1> QED
    BY <1>1, <1>2 DEF Arriving

\* Nothing arrives or goes.
LEMMA NoneMoves ==
    ASSUME Filled, queue' = queue, wire' = wire
    PROVE  Moves(0)
  <1>1. Arriving \in Nat
    BY ArrivalTyped
  <1>2. Arriving' = Arriving /\ \A i \in 1..Arriving : Arrival(i)' = Arrival(i)
    BY DEF Arriving, Arrival
  <1> QED
    BY <1>1, <1>2 DEF Moves

\* The queue is emptied.
LEMMA QueueMoves ==
    ASSUME Filled, queue' = <<>>, wire' = wire
    PROVE  Moves(Len(queue))
  <1>1. Len(queue) \in Nat /\ Len(wire) \in Nat /\ Len(<<>>) = 0
    BY ArrivalTyped, EmptySeq
  <1>2. Arriving' = Len(wire) /\ Arriving = Len(queue) + Len(wire)
    BY <1>1 DEF Arriving
  <1>3. \A i \in 1..Len(wire) : Arrival(i)' = wire[i] /\ Arrival(i + Len(queue)) = wire[i]
    BY <1>1 DEF Arrival
  <1> QED
    BY <1>1, <1>2, <1>3 DEF Moves

\* The first event of the wire goes, as there is no queue.
LEMMA WireMoves ==
    ASSUME Filled, queue = <<>>, queue' = <<>>, wire # <<>>, wire' = Tail(wire)
    PROVE  Moves(1) /\ Arrival(1) = Head(wire)
  <1>1. /\ Len(wire) \in Nat \ {0} /\ Len(wire') = Len(wire) - 1 /\ Head(wire) = wire[1]
        /\ \A i \in 1..(Len(wire) - 1) : wire'[i] = wire[i + 1]
    BY TailFacts DEF Filled
  <1>2. Len(queue) = 0 /\ Len(queue') = 0
    BY EmptySeq
  <1>3. Arriving' = Len(wire) - 1 /\ Arriving = Len(wire)
    BY <1>1, <1>2 DEF Arriving
  <1>4. \A i \in 1..(Len(wire) - 1) : Arrival(i)' = wire'[i] /\ Arrival(i + 1) = wire[i + 1]
    BY <1>1, <1>2 DEF Arrival
  <1> QED
    BY <1>1, <1>2, <1>3, <1>4 DEF Moves, Arrival

\* The first event of the wire comes to wait for the history.
LEMMA WaitMoves ==
    ASSUME Filled, wire # <<>>, queue' = Append(queue, Head(wire)), wire' = Tail(wire)
    PROVE  Moves(0) /\ Filled'
  <1>1. /\ Len(wire) \in Nat \ {0} /\ Len(wire') = Len(wire) - 1 /\ Head(wire) = wire[1]
        /\ \A i \in 1..(Len(wire) - 1) : wire'[i] = wire[i + 1]
        /\ wire' \in Seq(EventTypes) /\ wire[1] \in EventTypes
    BY TailFacts DEF Filled
  <1>2. /\ queue' \in Seq(EventTypes) /\ Len(queue) \in Nat /\ Len(queue') = Len(queue) + 1
        /\ queue'[Len(queue) + 1] = wire[1]
        /\ \A i \in 1..Len(queue) : queue'[i] = queue[i]
    BY <1>1, AppendFacts DEF Filled
  <1>3. Arriving' = Arriving /\ Arriving = Len(queue) + Len(wire)
    BY <1>1, <1>2 DEF Arriving
  <1>4. ASSUME NEW i \in 1..Arriving
        PROVE  Arrival(i)' = Arrival(i)
    <2>1. CASE i <= Len(queue)
      <3>1. Arrival(i)' = queue'[i] /\ Arrival(i) = queue[i]
        BY <1>2, <2>1 DEF Arrival
      <3> QED
        BY <3>1, <1>2, <2>1, <1>3, <1>1
    <2>2. CASE i = Len(queue) + 1
      <3>1. Arrival(i)' = queue'[i] /\ Arrival(i) = wire[1]
        BY <1>2, <2>2 DEF Arrival
      <3> QED
        BY <3>1, <1>2, <2>2
    <2>3. CASE i > Len(queue) + 1
      <3>1. i - (Len(queue) + 1) \in 1..(Len(wire) - 1)
        BY <1>1, <1>2, <1>3, <2>3
      <3>2. Arrival(i)' = wire'[i - (Len(queue) + 1)] /\ Arrival(i) = wire[i - Len(queue)]
        <4>1. i \in Nat /\ ~(i <= Len(queue)) /\ ~(i <= Len(queue'))
          BY <1>1, <1>2, <1>3, <2>3
        <4> QED
          BY <4>1, <1>2 DEF Arrival
      <3>3. (i - (Len(queue) + 1)) + 1 = i - Len(queue)
        BY <1>2, <1>3, <1>1
      <3> QED
        BY <3>1, <3>2, <3>3, <1>1
    <2> QED
      BY <2>1, <2>2, <2>3, <1>2, <1>3, <1>1
  <1>5. Arriving \in Nat
    BY ArrivalTyped
  <1> QED
    BY <1>1, <1>2, <1>3, <1>4, <1>5 DEF Moves, Filled

\* It comes to wait where there is no room, and the one that has waited longest
\* goes.
LEMMA DropMoves ==
    ASSUME Filled, wire # <<>>, queue' = Tail(Append(queue, Head(wire))), wire' = Tail(wire)
    PROVE  Moves(1) /\ Arrival(1) = Head(Append(queue, Head(wire)))
  <1> DEFINE q == Append(queue, Head(wire))
  <1>1. /\ Len(wire) \in Nat \ {0} /\ Len(wire') = Len(wire) - 1 /\ Head(wire) = wire[1]
        /\ \A i \in 1..(Len(wire) - 1) : wire'[i] = wire[i + 1]
        /\ wire[1] \in EventTypes
    BY TailFacts DEF Filled
  <1>2. /\ q \in Seq(EventTypes) /\ q # <<>> /\ Len(queue) \in Nat /\ Len(q) = Len(queue) + 1
        /\ q[Len(queue) + 1] = wire[1] /\ \A i \in 1..Len(queue) : q[i] = queue[i]
    BY <1>1, AppendFacts DEF Filled
  <1> HIDE DEF q
  <1>3. /\ Len(queue') = Len(queue) /\ Head(q) = q[1]
        /\ \A i \in 1..Len(queue) : queue'[i] = q[i + 1]
    BY <1>2, TailFacts DEF q
  <1>4. /\ Arriving = Len(queue) + Len(wire) /\ Arriving' = Arriving - 1 /\ 1 \in 0..Arriving
    BY <1>1, <1>2, <1>3 DEF Arriving
  <1>5. ASSUME NEW i \in 1..(Arriving - 1)
        PROVE  Arrival(i)' = Arrival(i + 1)
    <2>1. CASE i + 1 <= Len(queue)
      <3>1. i \in 1..Len(queue) /\ i + 1 \in 1..Len(queue) /\ i <= Len(queue')
        BY <2>1, <1>2, <1>3
      <3>2. Arrival(i)' = queue'[i] /\ Arrival(i + 1) = queue[i + 1]
        BY <2>1, <3>1 DEF Arrival
      <3> QED
        BY <3>1, <3>2, <1>2, <1>3
    <2>2. CASE i = Len(queue)
      <3>1. i \in 1..Len(queue) /\ i <= Len(queue') /\ ~(i + 1 <= Len(queue)) /\ (i + 1) - Len(queue) = 1
        BY <2>2, <1>2, <1>3
      <3>2. Arrival(i)' = queue'[i] /\ Arrival(i + 1) = wire[1]
        BY <3>1 DEF Arrival
      <3> QED
        BY <3>1, <3>2, <2>2, <1>2, <1>3
    <2>3. CASE i > Len(queue)
      <3>1. PICK j : j = i - Len(queue)
        OBVIOUS
      <3>2. /\ j \in 1..(Len(wire) - 1) /\ ~(i <= Len(queue')) /\ i - Len(queue') = j
            /\ ~(i + 1 <= Len(queue)) /\ (i + 1) - Len(queue) = j + 1
        BY SMTT(30), <2>3, <3>1, <1>1, <1>2, <1>3, <1>4
      <3>3. Arrival(i)' = wire'[j] /\ Arrival(i + 1) = wire[j + 1]
        BY <3>2 DEF Arrival
      <3> QED
        BY <3>2, <3>3, <1>1
    <2> QED
      BY <2>1, <2>2, <2>3, <1>2
  <1>6. Arrival(1) = q[1]
    <2>1. CASE Len(queue) = 0
      <3>1. ~(1 <= Len(queue)) /\ 1 - Len(queue) = 1 /\ Len(queue) + 1 = 1
        BY <2>1
      <3> QED
        BY <3>1, <1>2 DEF Arrival
    <2>2. CASE Len(queue) # 0
      <3>1. 1 <= Len(queue) /\ 1 \in 1..Len(queue)
        BY <2>2, <1>2
      <3> QED
        BY <3>1, <1>2 DEF Arrival
    <2> QED
      BY <2>1, <2>2
  <1> QED
    BY <1>3, <1>4, <1>5, <1>6 DEF Moves, q

(***************************************************************************)
(* Steps of what is on its way.                                            *)
(***************************************************************************)
\* The types the order needs.
FlightTyped ==
    /\ Filled /\ pending \in Seq(Chunks) /\ hands \in [Threads -> Seq(Chunks)]
    /\ log \in Nat /\ Counted

LEMMA TakenTyped ==
    ASSUME FlightTyped
    PROVE  Taken \in Nat /\ Taken <= log /\ Taken <= latest
  BY DEF FlightTyped, Counted, Taken

\* Events go from the front, and what is pending may.
LEMMA SortedMoves ==
    ASSUME FlightTyped, Sorted, NEW k, Moves(k), hands' = hands,
           pending' \in {pending, <<>>}, Taken' \in Nat, Taken <= Taken', lost \subseteq lost'
    PROVE  Sorted'
  <1>1. Taken \in Int /\ Taken' \in Int
    BY TakenTyped
  <1>2. Arriving \in Nat /\ \A i \in 1..Arriving : Arrival(i) \in EventTypes
    BY ArrivalTyped DEF FlightTyped
  <1>3. /\ \A t \in Threads : hands[t] \in Seq(Chunks)
        /\ pending \in Seq(Chunks)
        /\ \A i \in 1..Arriving : Arrival(i) \in Seq(Chunks)
    BY <1>2 DEF FlightTyped, EventTypes
  <1>4. /\ k \in 0..Arriving /\ Arriving' = Arriving - k
        /\ \A i \in 1..(Arriving - k) : Arrival(i)' = Arrival(i + k) /\ i + k \in 1..Arriving
    BY <1>2 DEF Moves
  <1>5. Ascends(pending') /\ UpTo(pending', Taken')
    BY <1>1, <1>3, EmptyOrder, UpToGrows DEF Sorted
  <1>6. ASSUME NEW t \in Threads
        PROVE  Ascends(hands'[t]) /\ UpTo(hands'[t], Taken') /\ Before(hands'[t], pending')
    BY <1>1, <1>3, EmptyOrder, UpToGrows DEF Sorted
  <1>7. ASSUME NEW i \in 1..Arriving'
        PROVE  /\ Ascends(Arrival(i)') /\ UpTo(Arrival(i)', Taken') /\ Before(Arrival(i)', pending')
               /\ \A t \in Threads : Ahead(Arrival(i)', hands'[t], lost')
    <2>1. i + k \in 1..Arriving /\ Arrival(i)' = Arrival(i + k)
      BY <1>4
    <2>2. \A t \in Threads : Ahead(Arrival(i)', hands'[t], lost')
      BY <2>1, AheadGrows DEF Sorted
    <2> QED
      BY <2>1, <2>2, <1>1, <1>3, EmptyOrder, UpToGrows DEF Sorted
  <1>8. ASSUME NEW i \in 1..Arriving', NEW j \in 1..Arriving', i < j
        PROVE  Ahead(Arrival(i)', Arrival(j)', lost')
    <2>1. /\ i + k \in 1..Arriving /\ Arrival(i)' = Arrival(i + k)
          /\ j + k \in 1..Arriving /\ Arrival(j)' = Arrival(j + k) /\ i + k < j + k
      BY <1>4, <1>8
    <2>2. Ahead(Arrival(i + k), Arrival(j + k), lost)
      BY <2>1 DEF Sorted
    <2> QED
      BY <2>1, <2>2, AheadGrows
  <1>9. \A t, u \in Threads :
          t # u => Before(hands'[t], hands'[u]) \/ Before(hands'[u], hands'[t])
    BY DEF Sorted
  <1> QED
    BY <1>5, <1>6, <1>7, <1>8, <1>9 DEF Sorted

\* What is behind the events that went is still on its way.
LEMMA RestMoves ==
    ASSUME FlightTyped, NEW k, Moves(k), hands' = hands, pending' = pending
    PROVE  Rest(k) \subseteq Rest(0)'
  <1>1. Arriving \in Nat
    BY ArrivalTyped DEF FlightTyped
  <1>2. /\ k \in 0..Arriving /\ Arriving' = Arriving - k
        /\ \A i \in 1..(Arriving - k) : Arrival(i)' = Arrival(i + k)
    BY DEF Moves
  <1>3. ASSUME NEW n \in Rest(k)
        PROVE  n \in Rest(0)'
    <2>1. CASE \E i \in 1..Arriving : k < i /\ n \in ChunksOf(Arrival(i))
      <3>1. PICK i \in 1..Arriving : k < i /\ n \in ChunksOf(Arrival(i))
        BY <2>1
      <3>2. i - k \in 1..Arriving' /\ 0 < i - k /\ (i - k) + k = i
        BY <3>1, <1>1, <1>2
      <3>3. Arrival(i - k)' = Arrival(i)
        BY <3>2, <1>2
      <3>4. n \in ChunksOf(Arrival(i - k)')
        BY <3>1, <3>3
      <3> QED
        BY <3>2, <3>4, <1>3 DEF Rest
    <2> QED
      BY <2>1, <1>3 DEF Rest
  <1> QED
    BY <1>3

\* A thread takes what is pending.
LEMMA SortedTake ==
    ASSUME FlightTyped, Sorted, NEW t \in Threads, Take(t), queue' = queue, wire' = wire,
           Taken' = Taken, lost' = lost
    PROVE  Sorted' /\ Rest(0) \subseteq Rest(0)'
  <1>1. /\ hands[t] = <<>> /\ hands'[t] = pending /\ pending' = <<>>
        /\ \A u \in Threads \ {t} : hands'[u] = hands[u]
    BY DEF Take, FlightTyped
  <1>2. Moves(0) /\ Arriving \in Nat
    BY NoneMoves, ArrivalTyped DEF FlightTyped
  <1>3. Arriving' = Arriving /\ \A i \in 1..Arriving : Arrival(i)' = Arrival(i)
    BY <1>2 DEF Moves
  <1>4. Ascends(pending') /\ UpTo(pending', Taken')
    BY <1>1, EmptyOrder
  <1>5. \A u \in Threads :
          Ascends(hands'[u]) /\ UpTo(hands'[u], Taken') /\ Before(hands'[u], pending')
    BY <1>1, EmptyOrder DEF Sorted
  <1>6. ASSUME NEW u \in Threads, NEW v \in Threads, u # v
        PROVE  Before(hands'[u], hands'[v]) \/ Before(hands'[v], hands'[u])
    <2>1. CASE u = t
      BY <2>1, <1>1, <1>6 DEF Sorted
    <2>2. CASE v = t
      BY <2>2, <1>1, <1>6 DEF Sorted
    <2>3. CASE u # t /\ v # t
      BY <2>3, <1>1, <1>6 DEF Sorted
    <2> QED
      BY <2>1, <2>2, <2>3
  <1>7. ASSUME NEW i \in 1..Arriving
        PROVE  /\ Ascends(Arrival(i)) /\ UpTo(Arrival(i), Taken') /\ Before(Arrival(i), pending')
               /\ \A u \in Threads : Ahead(Arrival(i), hands'[u], lost)
    BY <1>1, EmptyOrder, AheadGrows DEF Sorted
  <1>8. Sorted'
    BY <1>3, <1>4, <1>5, <1>6, <1>7 DEF Sorted
  <1>9. ASSUME NEW n \in Rest(0)
        PROVE  n \in Rest(0)'
    <2>1. CASE n \in ChunksOf(pending)
      BY <2>1, <1>1, <1>9 DEF Rest
    <2>2. CASE \E u \in Threads : n \in ChunksOf(hands[u])
      <3>1. PICK u \in Threads : n \in ChunksOf(hands[u])
        BY <2>2
      <3>2. u # t
        BY <3>1, <1>1, EmptyOrder
      <3> QED
        BY <3>1, <3>2, <1>1, <1>9 DEF Rest
    <2>3. CASE \E i \in 1..Arriving : 0 < i /\ n \in ChunksOf(Arrival(i))
      BY <2>3, <1>3, <1>9 DEF Rest
    <2> QED
      BY <2>1, <2>2, <2>3, <1>9 DEF Rest
  <1> QED
    BY <1>8, <1>9

\* The reader's chunk comes to what is pending.
LEMMA SortedQueue ==
    ASSUME FlightTyped, Sorted, reader = "queue", pending' = Append(pending, latest),
           latest \in Chunks, Taken' = log, hands' = hands, queue' = queue, wire' = wire,
           lost' = lost
    PROVE  Sorted' /\ Rest(0) \cup {log} \subseteq Rest(0)'
  <1>1. latest = log /\ Taken = latest - 1 /\ latest \in Nat
    BY DEF FlightTyped, Counted, Taken
  <1>2. Moves(0) /\ Arriving \in Nat /\ \A i \in 1..Arriving : Arrival(i) \in EventTypes
    BY NoneMoves, ArrivalTyped DEF FlightTyped
  <1>3. Arriving' = Arriving /\ \A i \in 1..Arriving : Arrival(i)' = Arrival(i)
    BY <1>2 DEF Moves
  <1>4. /\ pending \in Seq(Chunks) /\ \A t \in Threads : hands[t] \in Seq(Chunks)
        /\ \A i \in 1..Arriving : Arrival(i) \in Seq(Chunks)
    BY <1>2 DEF FlightTyped, EventTypes
  <1>5. /\ Ascends(pending') /\ UpTo(pending', latest)
        /\ ChunksOf(pending') = ChunksOf(pending) \cup {latest}
        /\ \A u \in Seq(Chunks) :
             Before(u, pending) /\ UpTo(u, latest - 1) => Before(u, pending')
    BY <1>1, <1>4, AppendOrder DEF Sorted
  <1>6. \A s \in Seq(Chunks) : UpTo(s, latest - 1) => UpTo(s, latest)
    BY <1>1, UpToGrows
  <1>7. \A t \in Threads :
          Ascends(hands'[t]) /\ UpTo(hands'[t], latest) /\ Before(hands'[t], pending')
    BY <1>1, <1>4, <1>5, <1>6 DEF Sorted
  <1>8. \A i \in 1..Arriving :
          /\ Ascends(Arrival(i)) /\ UpTo(Arrival(i), latest) /\ Before(Arrival(i), pending')
          /\ \A t \in Threads : Ahead(Arrival(i), hands'[t], lost)
    BY <1>1, <1>4, <1>5, <1>6 DEF Sorted
  <1>9. Sorted'
    BY <1>1, <1>3, <1>5, <1>7, <1>8 DEF Sorted
  <1>10. Rest(0) \cup {log} \subseteq Rest(0)'
    BY <1>1, <1>3, <1>5 DEF Rest
  <1> QED
    BY <1>9, <1>10

\* A thread emits the event it has taken; if another has an earlier one, that
\* one is lost.
LEMMA SortedEmit ==
    ASSUME FlightTyped, Sorted, NEW t \in Threads, Emit(t), Taken' = Taken
    PROVE  Sorted' /\ Filled' /\ Rest(0) \subseteq Rest(0)'
  <1>1. /\ hands[t] # <<>> /\ wire' = Append(wire, hands[t]) /\ hands'[t] = <<>>
        /\ \A u \in Threads \ {t} : hands'[u] = hands[u]
        /\ queue' = queue /\ pending' = pending
        /\ lost' = lost \cup Overtaken(t) /\ lost \subseteq lost'
    BY DEF Emit, FlightTyped, surface
  <1>2. hands[t] \in EventTypes /\ wire \in Seq(EventTypes) /\ queue \in Seq(EventTypes)
    BY <1>1 DEF FlightTyped, Filled, EventTypes
  <1>3. /\ wire' \in Seq(EventTypes) /\ Len(wire) \in Nat /\ Len(wire') = Len(wire) + 1
        /\ wire'[Len(wire) + 1] = hands[t] /\ \A i \in 1..Len(wire) : wire'[i] = wire[i]
    BY <1>1, <1>2, AppendFacts
  <1>4. Len(queue) \in Nat /\ Arriving \in Nat /\ Arriving = Len(queue) + Len(wire)
    BY ArrivalTyped DEF FlightTyped, Arriving
  <1>5. Arriving' = Arriving + 1
    BY <1>1, <1>3, <1>4 DEF Arriving
  <1>6. ASSUME NEW i \in 1..Arriving
        PROVE  Arrival(i)' = Arrival(i)
    <2>1. CASE i <= Len(queue)
      BY <2>1, <1>1 DEF Arrival
    <2>2. CASE ~(i <= Len(queue))
      <3>1. i - Len(queue) \in 1..Len(wire)
        BY <2>2, <1>3, <1>4
      <3> QED
        BY <3>1, <2>2, <1>1, <1>3 DEF Arrival
    <2> QED
      BY <2>1, <2>2
  <1>m. PICK m : m = Arriving + 1
    OBVIOUS
  <1>7. Arrival(m)' = hands[t]
    <2>1. ~(m <= Len(queue)) /\ m - Len(queue) = Len(wire) + 1
      BY <1>m, <1>3, <1>4
    <2> QED
      BY <2>1, <1>1, <1>3 DEF Arrival
  <1>8. ASSUME NEW u \in Threads, u # t
        PROVE  Ahead(hands[t], hands[u], lost')
    <2>1. CASE hands[u] = <<>>
      BY <2>1, EmptyOrder
    <2>2. CASE hands[u] # <<>> /\ Last(hands[u]) < Last(hands[t])
      <3>1. ChunksOf(hands[u]) \subseteq lost'
        BY <2>2, <1>1 DEF Overtaken
      <3> QED
        BY <3>1, AheadGrows
    <2>3. CASE hands[u] # <<>> /\ ~(Last(hands[u]) < Last(hands[t]))
      <3>1. hands[u] \in EventTypes
        BY <2>3 DEF FlightTyped, EventTypes
      <3>2. /\ Len(hands[t]) \in DOMAIN hands[t] /\ Last(hands[t]) = hands[t][Len(hands[t])]
            /\ Len(hands[u]) \in DOMAIN hands[u] /\ Last(hands[u]) = hands[u][Len(hands[u])]
        BY <1>2, <3>1, LastLargest DEF Sorted
      <3>3. ~Before(hands[u], hands[t])
        BY <2>3, <3>2 DEF Before
      <3> QED
        BY <3>3, <1>8, AheadGrows DEF Sorted
    <2> QED
      BY <2>1, <2>2, <2>3
  <1>9. \A u \in Threads :
          Ascends(hands'[u]) /\ UpTo(hands'[u], Taken) /\ Before(hands'[u], pending)
    BY <1>1, EmptyOrder DEF Sorted
  <1>10. \A u, v \in Threads :
           u # v => Before(hands'[u], hands'[v]) \/ Before(hands'[v], hands'[u])
    BY <1>1, EmptyOrder DEF Sorted
  <1>11. m \in 1..Arriving' /\ \A i \in 1..Arriving' : i \in 1..Arriving \/ i = m
    BY <1>m, <1>4, <1>5
  <1>12. ASSUME NEW i \in 1..Arriving'
         PROVE  /\ Ascends(Arrival(i)') /\ UpTo(Arrival(i)', Taken) /\ Before(Arrival(i)', pending)
                /\ \A u \in Threads : Ahead(Arrival(i)', hands'[u], lost')
    <2>1. CASE i \in 1..Arriving
      BY <2>1, <1>1, <1>6, EmptyOrder, AheadGrows DEF Sorted
    <2>2. CASE i = m
      BY <2>2, <1>1, <1>7, <1>8, EmptyOrder DEF Sorted
    <2> QED
      BY <2>1, <2>2, <1>11
  <1>13. ASSUME NEW i \in 1..Arriving', NEW j \in 1..Arriving', i < j
         PROVE  Ahead(Arrival(i)', Arrival(j)', lost')
    <2>1. i \in 1..Arriving
      BY <1>4, <1>5, <1>13
    <2>2. CASE j \in 1..Arriving
      <3>1. Ahead(Arrival(i), Arrival(j), lost)
        BY <2>1, <2>2, <1>13 DEF Sorted
      <3> QED
        BY <3>1, <2>1, <2>2, <1>1, <1>6, AheadGrows
    <2>3. CASE j = m
      <3>1. Ahead(Arrival(i), hands[t], lost)
        BY <2>1 DEF Sorted
      <3> QED
        BY <3>1, <2>1, <2>3, <1>1, <1>6, <1>7, AheadGrows
    <2> QED
      BY <2>2, <2>3, <1>11
  <1>14. Sorted'
    BY <1>1, <1>5, <1>9, <1>10, <1>12, <1>13 DEF Sorted
  <1>15. ASSUME NEW n \in Rest(0)
         PROVE  n \in Rest(0)'
    <2>1. CASE n \in ChunksOf(pending)
      BY <2>1, <1>1, <1>15 DEF Rest
    <2>2. CASE n \in ChunksOf(hands[t])
      <3>1. m \in 1..Arriving' /\ 0 < m
        BY <1>m, <1>4, <1>11
      <3> QED
        BY <3>1, <2>2, <1>7, <1>15 DEF Rest
    <2>3. CASE \E u \in Threads \ {t} : n \in ChunksOf(hands[u])
      BY <2>3, <1>1, <1>15 DEF Rest
    <2>4. CASE \E i \in 1..Arriving : 0 < i /\ n \in ChunksOf(Arrival(i))
      <3>1. PICK i \in 1..Arriving : 0 < i /\ n \in ChunksOf(Arrival(i))
        BY <2>4
      <3>2. i \in 1..Arriving' /\ n \in ChunksOf(Arrival(i)')
        BY <3>1, <1>4, <1>5, <1>6
      <3> QED
        BY <3>1, <3>2, <1>15 DEF Rest
    <2> QED
      BY <2>1, <2>2, <2>3, <2>4, <1>15 DEF Rest
  <1> QED
    BY <1>1, <1>2, <1>3, <1>14, <1>15 DEF Filled

(***************************************************************************)
(* What is written.  Above the number it has reached, a surface is fed     *)
(* from what is on its way; up to it, it has everything that is not lost.  *)
(***************************************************************************)
WriterTypes == [latest : 0..MaxChunks, frame : Seq(Chunks), odd : SUBSET Doubles]

Writer(s) == s \in WriterTypes /\ odd \subseteq s.odd

\* Chunk n may follow chunk m: it begins from the start, or what is between is gone.
Joins(m, n, gone) == n = 1 \/ (m < n /\ (m + 1)..(n - 1) \subseteq gone)

Runs(s, gone) == \A i \in 1..(Len(s) - 1) : Joins(s[i], s[i + 1], gone)

Chain(s, gone) == Runs(s, gone) /\ (s # <<>> => Joins(0, s[1], gone))

LastOf(s) == IF s = <<>> THEN 0 ELSE s[Len(s)]

\* Nothing is missing between the end of s and chunk n.
EndsAt(s, n, gone) == LastOf(s) <= n /\ (LastOf(s) + 1)..n \subseteq gone

Fed(s, chunks, gone) ==
    /\ s.latest <= latest /\ Covered(s.latest, chunks, gone)
    /\ 1..s.latest \subseteq ChunksOf(screen \o s.frame) \cup gone
    /\ ChunksOf(screen \o s.frame) \subseteq 1..log
    /\ s.odd = {} => /\ Chain(screen \o s.frame, gone)
                     /\ EndsAt(screen \o s.frame, s.latest, gone)
                     /\ EndsAt(screen, s.latest, ChunksOf(s.frame) \cup gone)
                     /\ Present => ChunksOf(screen \o s.frame) \subseteq 1..latest

\* More may be gone.
LEMMA ChainGrows ==
    ASSUME NEW gone, NEW more, gone \subseteq more
    PROVE  /\ \A m, n : Joins(m, n, gone) => Joins(m, n, more)
           /\ \A s : Chain(s, gone) => Chain(s, more)
           /\ \A s, n : EndsAt(s, n, gone) => EndsAt(s, n, more)
  <1>1. \A m, n : Joins(m, n, gone) => Joins(m, n, more)
    BY DEF Joins
  <1>2. \A s : Chain(s, gone) => Chain(s, more)
    BY <1>1 DEF Chain, Runs
  <1>3. \A s, n : EndsAt(s, n, gone) => EndsAt(s, n, more)
    BY DEF EndsAt
  <1> QED
    BY <1>1, <1>2, <1>3

\* Concatenation of three sequences of chunks is associative.
LEMMA ConcatThree ==
    ASSUME NEW a \in Seq(Chunks), NEW b \in Seq(Chunks), NEW c \in Seq(Chunks)
    PROVE  (a \o b) \o c = a \o (b \o c)
  BY SMTT(60), ConcatAssociative

LEMMA ConcatChunks ==
    ASSUME NEW s \in Seq(Chunks), NEW e \in Seq(Chunks)
    PROVE  /\ s \o e \in Seq(Chunks) /\ ChunksOf(s \o e) = ChunksOf(s) \cup ChunksOf(e)
           /\ Len(s) \in Nat /\ Len(e) \in Nat /\ Len(s \o e) = Len(s) + Len(e)
           /\ \A i \in 1..Len(s) : (s \o e)[i] = s[i]
           /\ \A i \in 1..Len(e) : (s \o e)[i + Len(s)] = e[i]
  <1>1. /\ s \o e \in Seq(Chunks) /\ Len(s) \in Nat /\ Len(e) \in Nat
        /\ Len(s \o e) = Len(s) + Len(e)
        /\ \A i \in 1..(Len(s) + Len(e)) :
             (s \o e)[i] = IF i <= Len(s) THEN s[i] ELSE e[i - Len(s)]
    BY ConcatProperties, ChunkSeq
  <1>2. \A i \in 1..Len(s) : (s \o e)[i] = s[i]
    BY <1>1
  <1>3. \A i \in 1..Len(e) : (s \o e)[i + Len(s)] = e[i]
    <2> TAKE i \in 1..Len(e)
    <2>1. i + Len(s) \in 1..(Len(s) + Len(e)) /\ ~(i + Len(s) <= Len(s)) /\ (i + Len(s)) - Len(s) = i
      BY <1>1
    <2> QED
      BY <2>1, <1>1
  <1>4. /\ DOMAIN s = 1..Len(s) /\ DOMAIN e = 1..Len(e)
        /\ DOMAIN (s \o e) = 1..(Len(s) + Len(e))
    BY <1>1, ChunkSeq
  <1>5. ASSUME NEW n \in ChunksOf(s \o e)
        PROVE  n \in ChunksOf(s) \cup ChunksOf(e)
    <2>1. PICK i \in 1..(Len(s) + Len(e)) : n = (s \o e)[i]
      BY <1>4 DEF ChunksOf
    <2>2. CASE i <= Len(s)
      BY <2>1, <2>2, <1>1, <1>4 DEF ChunksOf
    <2>3. CASE ~(i <= Len(s))
      <3>1. i - Len(s) \in 1..Len(e)
        BY <2>3, <1>1
      <3> QED
        BY <3>1, <2>1, <2>3, <1>1, <1>4 DEF ChunksOf
    <2> QED
      BY <2>2, <2>3
  <1>6. ASSUME NEW n \in ChunksOf(s)
        PROVE  n \in ChunksOf(s \o e)
    <2>1. PICK i \in 1..Len(s) : n = s[i]
      BY <1>4 DEF ChunksOf
    <2>2. i \in 1..(Len(s) + Len(e)) /\ (s \o e)[i] = n
      BY <2>1, <1>1, <1>2
    <2> QED
      BY <2>2, <1>4 DEF ChunksOf
  <1>7. ASSUME NEW n \in ChunksOf(e)
        PROVE  n \in ChunksOf(s \o e)
    <2>1. PICK i \in 1..Len(e) : n = e[i]
      BY <1>4 DEF ChunksOf
    <2>2. i + Len(s) \in 1..(Len(s) + Len(e)) /\ (s \o e)[i + Len(s)] = n
      BY <2>1, <1>1, <1>3
    <2> QED
      BY <2>2, <1>4 DEF ChunksOf
  <1> QED
    BY <1>1, <1>2, <1>3, <1>5, <1>6, <1>7

\* What runs on is appended to a chain, if it goes on where the chain ends.
LEMMA ChainConcat ==
    ASSUME NEW s \in Seq(Chunks), NEW e \in EventTypes, NEW gone, Chain(s, gone), Runs(e, gone),
           Joins(LastOf(s), e[1], gone)
    PROVE  Chain(s \o e, gone) /\ LastOf(s \o e) = e[Len(e)]
  <1>0. e \in Seq(Chunks) /\ Len(e) \in Nat \ {0}
    BY EmptySeq DEF EventTypes
  <1> DEFINE d == s \o e
  <1>1. /\ d \in Seq(Chunks) /\ Len(s) \in Nat /\ Len(d) = Len(s) + Len(e)
        /\ \A i \in 1..Len(s) : d[i] = s[i]
        /\ \A i \in 1..Len(e) : d[i + Len(s)] = e[i]
    BY <1>0, ConcatChunks
  <1>2. s = <<>> <=> Len(s) = 0
    BY EmptySeq
  <1> HIDE DEF d
  <1>3. ASSUME NEW i \in 1..(Len(d) - 1)
        PROVE  Joins(d[i], d[i + 1], gone)
    <2>1. CASE i < Len(s)
      <3>1. i \in 1..(Len(s) - 1) /\ i \in 1..Len(s) /\ i + 1 \in 1..Len(s)
        BY <2>1, <1>1
      <3> QED
        BY <3>1, <1>1 DEF Chain, Runs
    <2>2. CASE i = Len(s)
      <3>1. i \in 1..Len(s) /\ 1 \in 1..Len(e) /\ i + 1 = 1 + Len(s) /\ s # <<>>
        BY <2>2, <1>0, <1>1, <1>2
      <3>2. d[i] = s[Len(s)] /\ d[i + 1] = e[1]
        BY <3>1, <2>2, <1>1
      <3> QED
        BY <3>1, <3>2 DEF LastOf
    <2>3. CASE i > Len(s)
      <3>1. PICK j : j = i - Len(s)
        OBVIOUS
      <3>2. /\ j \in 1..(Len(e) - 1) /\ j \in 1..Len(e) /\ j + 1 \in 1..Len(e)
            /\ i = j + Len(s) /\ i + 1 = (j + 1) + Len(s)
        BY <3>1, <2>3, <1>0, <1>1
      <3>3. d[i] = e[j] /\ d[i + 1] = e[j + 1]
        BY <3>2, <1>1
      <3> QED
        BY <3>2, <3>3 DEF Runs
    <2> QED
      BY <2>1, <2>2, <2>3, <1>1
  <1>4. Joins(0, d[1], gone)
    <2>1. CASE s = <<>>
      <3>1. Len(s) = 0 /\ 1 \in 1..Len(e) /\ 1 + Len(s) = 1
        BY <2>1, <1>0, <1>2
      <3> QED
        BY <3>1, <2>1, <1>1 DEF LastOf
    <2>2. CASE s # <<>>
      <3>1. 1 \in 1..Len(s)
        BY <2>2, <1>1, <1>2
      <3> QED
        BY <3>1, <2>2, <1>1 DEF Chain
    <2> QED
      BY <2>1, <2>2
  <1>5. LastOf(d) = e[Len(e)]
    <2>1. Len(e) \in 1..Len(e) /\ Len(d) = Len(e) + Len(s) /\ d # <<>>
      BY <1>0, <1>1, EmptySeq
    <2>2. d[Len(d)] = e[Len(e)]
      BY <2>1, <1>1
    <2> QED
      BY <2>1, <2>2 DEF LastOf
  <1> QED
    BY <1>3, <1>4, <1>5 DEF d, Chain, Runs

\* The last chunk of a sequence is a number.
LEMMA LastNat ==
    ASSUME NEW s \in Seq(Chunks)
    PROVE  /\ LastOf(s) \in Nat
           /\ \A n \in Nat : ChunksOf(s) \subseteq 1..n => LastOf(s) <= n
  <1>1. Len(s) \in Nat /\ DOMAIN s = 1..Len(s) /\ \A i \in 1..Len(s) : s[i] \in Nat
    BY ChunkSeq
  <1>2. CASE s = <<>>
    BY <1>2 DEF LastOf
  <1>3. CASE s # <<>>
    <2>1. Len(s) \in 1..Len(s)
      BY <1>1, <1>3, EmptySeq
    <2>2. s[Len(s)] \in ChunksOf(s)
      BY <2>1, <1>1 DEF ChunksOf
    <2> QED
      BY <2>1, <2>2, <1>1, <1>3 DEF LastOf
  <1> QED
    BY <1>2, <1>3

LEMMA WrittenTyped ==
    ASSUME NEW s, Writer(s), NEW e \in EventTypes
    PROVE  Writer(Written(s, e))
  <1>1. e \in Seq(Chunks) /\ Len(e) \in Nat \ {0}
    BY EmptySeq DEF EventTypes
  <1>2. Last(e) \in Chunks
    BY <1>1, ChunkSeq DEF Last
  <1>3. s.frame \o e \in Seq(Chunks)
    BY <1>1, ConcatChunks DEF Writer, WriterTypes
  <1>4. "straddle" \in Doubles
    BY DEF Doubles
  <1> QED
    BY <1>2, <1>3, <1>4 DEF Writer, WriterTypes, Written, Chunks

\* The next event brings whatever a surface that is fed has not seen up to its
\* number, and what is behind it brings the rest.
LEMMA WrittenFed ==
    ASSUME FlightTyped, screen \in Seq(Chunks), Sorted, NEW s, Writer(s),
           NEW gone, lost \subseteq gone, NEW k \in 1..Arriving, Fed(s, Rest(k - 1), gone)
    PROVE  Fed(Written(s, Arrival(k)), Rest(k), gone)
  <1>0. PICK e : e = Arrival(k)
    OBVIOUS
  <1>1. Arriving \in Nat /\ e \in EventTypes /\ Ascends(e)
    BY <1>0, ArrivalTyped DEF FlightTyped, Sorted
  <1>2. /\ Last(e) \in ChunksOf(e) /\ Last(e) \in Chunks /\ Head(e) \in Chunks
        /\ \A n \in ChunksOf(e) : n \in Chunks /\ n <= Last(e)
        /\ Len(e) \in Nat \ {0} /\ DOMAIN e = 1..Len(e)
        /\ Head(e) = e[1] /\ Last(e) = e[Len(e)]
    BY <1>1, LastLargest
  <1>3. Last(e) \in Nat /\ Last(e) <= Taken /\ Taken <= latest /\ Taken <= log /\ Taken \in Nat
    <2>1. UpTo(e, Taken) /\ Len(e) \in DOMAIN e
      BY <1>0, <1>2 DEF Sorted
    <2> QED
      BY <2>1, <1>2, TakenTyped DEF UpTo, Chunks
  <1>4. s.latest \in Nat /\ s.frame \in Seq(Chunks) /\ log \in Nat /\ latest \in Nat
    BY <1>3 DEF Writer, WriterTypes, FlightTyped, Counted
  \* What is behind the event is larger, or gone.
  <1>5. ASSUME NEW n \in Rest(k), n \notin gone
        PROVE  Last(e) < n
    <2>1. PICK r : n \in ChunksOf(r) /\ Ahead(e, r, lost)
      <3>1. CASE n \in ChunksOf(pending)
        BY <3>1, <1>0, AheadGrows DEF Sorted
      <3>2. CASE \E t \in Threads : n \in ChunksOf(hands[t])
        BY <3>2, <1>0 DEF Sorted
      <3>3. CASE \E i \in 1..Arriving : k < i /\ n \in ChunksOf(Arrival(i))
        BY <3>3, <1>0 DEF Sorted
      <3> QED
        BY <3>1, <3>2, <3>3, <1>5 DEF Rest
    <2>2. PICK j \in DOMAIN r : n = r[j]
      BY <2>1 DEF ChunksOf
    <2>3. Len(e) \in DOMAIN e /\ Last(e) = e[Len(e)]
      BY <1>2
    <2> QED
      BY <2>1, <2>2, <2>3, <1>5 DEF Ahead
  \* What is on its way is in the event or behind it.
  <1>6. ASSUME NEW n \in Rest(k - 1)
        PROVE  n \in ChunksOf(e) \/ n \in Rest(k)
    <2>1. ASSUME NEW i \in 1..Arriving, k - 1 < i, n \in ChunksOf(Arrival(i))
          PROVE  n \in ChunksOf(e) \/ n \in Rest(k)
      <3>1. CASE i = k
        BY <3>1, <2>1, <1>0
      <3>2. CASE i # k
        <4>1. k < i
          BY <3>2, <2>1, <1>1
        <4> QED
          BY <4>1, <2>1, <1>6 DEF Rest
      <3> QED
        BY <3>1, <3>2
    <2> QED
      BY <2>1, <1>6 DEF Rest
  <1>7. CASE Last(e) <= s.latest
    <2>1. Written(s, e) = s
      BY <1>7 DEF Written
    <2>2. ASSUME NEW n \in Nat, s.latest < n, n <= Taken, n \notin gone
          PROVE  n \in Rest(k)
      <3>1. n \in ChunksOf(e) \/ n \in Rest(k)
        BY <2>2, <1>6 DEF Fed, Covered
      <3>2. n \notin ChunksOf(e)
        BY <2>2, <1>2, <1>3, <1>4, <1>7
      <3> QED
        BY <3>1, <3>2
    <2>3. Covered(s.latest, Rest(k), gone)
      BY <2>2 DEF Covered
    <2> QED
      BY <2>1, <2>3, <1>0 DEF Fed
  <1>8. CASE ~(Last(e) <= s.latest)
    <2>1. PICK t : t = Written(s, e)
      OBVIOUS
    <2>2. /\ t.latest = Last(e) /\ t.frame = s.frame \o e
          /\ t.odd = {} => s.odd = {} /\ ~(Head(e) <= s.latest)
      BY <2>1, <1>8 DEF Written
    <2>3. s.latest < Last(e)
      BY <1>3, <1>4, <1>8
    <2>4. ASSUME NEW n \in Nat, s.latest < n, n <= Last(e), n \notin gone
          PROVE  n \in ChunksOf(e)
      <3>1. n <= Taken
        BY <2>4, <1>3
      <3>2. n \in ChunksOf(e) \/ n \in Rest(k)
        BY <2>4, <3>1, <1>6 DEF Fed, Covered
      <3>3. n \notin Rest(k)
        BY <2>4, <1>3, <1>5
      <3> QED
        BY <3>2, <3>3
    <2>5. ASSUME NEW n \in Nat, Last(e) < n, n <= Taken, n \notin gone
          PROVE  n \in Rest(k)
      <3>1. s.latest < n
        BY <2>3, <2>5, <1>3, <1>4
      <3>2. n \in ChunksOf(e) \/ n \in Rest(k)
        BY <2>5, <3>1, <1>6 DEF Fed, Covered
      <3>3. n \notin ChunksOf(e)
        BY <2>5, <1>2, <1>3
      <3> QED
        BY <3>2, <3>3
    <2>6. e \in Seq(Chunks) /\ e # <<>>
      BY <1>1 DEF EventTypes
    <2> DEFINE d == screen \o s.frame
    <2>7. d \in Seq(Chunks) /\ screen \o t.frame = d \o e
      <3>1. d \in Seq(Chunks)
        BY <1>4, ConcatChunks
      <3>2. (screen \o s.frame) \o e = screen \o (s.frame \o e)
        BY <2>6, <1>4, ConcatThree
      <3> QED
        BY <3>1, <3>2, <2>2
    <2> HIDE DEF d
    <2>8. /\ ChunksOf(d \o e) = ChunksOf(d) \cup ChunksOf(e)
          /\ ChunksOf(t.frame) = ChunksOf(s.frame) \cup ChunksOf(e)
      BY <2>2, <2>6, <2>7, <1>4, ConcatChunks
    <2>9. /\ 1..s.latest \subseteq ChunksOf(d) \cup gone /\ ChunksOf(d) \subseteq 1..log
          /\ s.odd = {} => /\ Chain(d, gone) /\ EndsAt(d, s.latest, gone)
                           /\ EndsAt(screen, s.latest, ChunksOf(s.frame) \cup gone)
                           /\ Present => ChunksOf(d) \subseteq 1..latest
      BY DEF Fed, d
    <2>10. 1..Last(e) \subseteq ChunksOf(d \o e) \cup gone
      <3> SUFFICES ASSUME NEW n \in 1..Last(e), n \notin gone
                   PROVE  n \in ChunksOf(d \o e)
        OBVIOUS
      <3>1. CASE n <= s.latest
        BY <3>1, <2>8, <2>9, <1>3, <1>4
      <3>2. CASE ~(n <= s.latest)
        BY <3>2, <2>4, <2>8, <1>3, <1>4
      <3> QED
        BY <3>1, <3>2
    <2>e. ChunksOf(e) \subseteq 1..log /\ ChunksOf(e) \subseteq 1..latest
      BY <1>2, <1>3, <1>4 DEF Chunks
    <2>11. ChunksOf(d \o e) \subseteq 1..log
      BY <2>e, <2>8, <2>9
    <2>12. ASSUME t.odd = {}
           PROVE  /\ Chain(d \o e, gone) /\ EndsAt(d \o e, Last(e), gone)
                  /\ EndsAt(screen, Last(e), ChunksOf(t.frame) \cup gone)
                  /\ Present => ChunksOf(d \o e) \subseteq 1..latest
      <3>0. /\ Chain(d, gone) /\ EndsAt(d, s.latest, gone)
            /\ EndsAt(screen, s.latest, ChunksOf(s.frame) \cup gone)
            /\ Present => ChunksOf(d) \subseteq 1..latest
        BY <2>2, <2>9, <2>12
      <3>1. \A i \in 1..Len(e) : e[i] \in Nat
        BY <2>6, ChunkSeq
      <3>2. \A i, j \in 1..Len(e) : i < j => e[i] < e[j]
        BY <1>1, <1>2 DEF Ascends
      <3>3. 1 \in 1..Len(e) /\ s.latest < e[1]
        BY <2>2, <2>12, <1>2, <1>4, <3>1
      <3>4. Joins(LastOf(d), e[1], gone)
        <4>1. LastOf(d) \in Nat /\ LastOf(d) <= s.latest
          BY <3>0, <2>7, LastNat DEF EndsAt
        <4>2. ASSUME NEW n \in (LastOf(d) + 1)..(e[1] - 1), n \notin gone
              PROVE  FALSE
          <5>1. n \in Nat /\ s.latest < n /\ n < e[1]
            BY <4>1, <4>2, <3>0, <3>1, <3>3, <1>4 DEF EndsAt
          <5>2. e[1] <= Last(e)
            BY <3>3, <1>2 DEF ChunksOf
          <5>3. n \in ChunksOf(e)
            BY <5>1, <5>2, <4>2, <3>1, <3>3, <1>3, <2>4
          <5>4. PICK i \in 1..Len(e) : n = e[i]
            BY <5>3, <1>2 DEF ChunksOf
          <5>5. i = 1 \/ e[1] < e[i]
            BY <3>2, <3>3, <1>2
          <5> QED
            BY <5>1, <5>4, <5>5, <3>1, <3>3
        <4> QED
          BY <4>1, <4>2, <3>1, <3>3, <1>4 DEF Joins
      <3>5. ASSUME NEW i \in 1..(Len(e) - 1)
            PROVE  Joins(e[i], e[i + 1], gone)
        <4>1. i \in 1..Len(e) /\ i + 1 \in 1..Len(e)
          BY <1>2
        <4>2. e[i] < e[i + 1] /\ (i = 1 \/ e[1] < e[i]) /\ e[i + 1] <= Last(e)
          BY <4>1, <3>2, <3>3, <1>2 DEF ChunksOf
        <4>3. e[i] \in Nat /\ e[i + 1] \in Nat /\ s.latest < e[i]
          BY <4>1, <4>2, <3>1, <3>3, <1>4
        <4>4. ASSUME NEW n \in (e[i] + 1)..(e[i + 1] - 1), n \notin gone
              PROVE  FALSE
          <5>0. n \in Nat /\ e[i] < n /\ n < e[i + 1]
            BY <4>3, <4>4
          <5>1. n \in Nat /\ s.latest < n /\ n <= Last(e) /\ e[i] < n /\ n < e[i + 1]
            <6>1. e[i + 1] <= Last(e)
              BY <4>2
            <6> QED
              BY SMTT(30), <5>0, <6>1, <4>3, <1>3, <1>4
          <5>2. PICK j \in 1..Len(e) : n = e[j]
            BY <5>1, <4>4, <2>4, <1>2 DEF ChunksOf
          <5>3. CASE j <= i
            <6>1. e[j] <= e[i]
              BY <4>1, <4>3, <5>2, <5>3, <3>2
            <6> QED
              BY <6>1, <5>1, <5>2, <4>3
          <5>4. CASE i + 1 <= j
            <6>1. e[i + 1] <= e[j]
              BY <4>1, <4>3, <5>2, <5>4, <3>2
            <6> QED
              BY <6>1, <5>1, <5>2, <4>3
          <5> QED
            BY <5>3, <5>4, <4>1
        <4> QED
          BY <4>2, <4>4 DEF Joins
      <3>6. Chain(d \o e, gone) /\ LastOf(d \o e) = Last(e)
        <4>1. Runs(e, gone)
          BY <3>5 DEF Runs
        <4> QED
          BY <4>1, <3>0, <3>4, <2>7, <1>1, <1>2, ChainConcat
      <3>7. EndsAt(d \o e, Last(e), gone)
        BY <3>6, <1>3 DEF EndsAt
      <3>8. EndsAt(screen, Last(e), ChunksOf(t.frame) \cup gone)
        <4>1. /\ LastOf(screen) \in Nat /\ LastOf(screen) <= s.latest
              /\ (LastOf(screen) + 1)..s.latest \subseteq ChunksOf(s.frame) \cup gone
          BY <3>0, LastNat DEF EndsAt
        <4>2. ASSUME NEW n \in (LastOf(screen) + 1)..Last(e), n \notin gone
              PROVE  n \in ChunksOf(t.frame)
          <5>1. CASE n <= s.latest
            BY <5>1, <4>1, <4>2, <2>8, <1>3, <1>4
          <5>2. CASE ~(n <= s.latest)
            <6>1. n \in Nat /\ s.latest < n /\ n <= Last(e)
              BY <5>2, <4>1, <4>2, <1>3, <1>4
            <6> QED
              BY <6>1, <4>2, <2>4, <2>8
          <5> QED
            BY <5>1, <5>2
        <4> QED
          BY <4>1, <4>2, <2>3, <1>3, <1>4 DEF EndsAt
      <3> QED
        BY <3>0, <3>6, <3>7, <3>8, <2>8, <2>e
    <2>13. Last(e) <= latest
      BY <1>3, <1>4
    <2>14. Covered(Last(e), Rest(k), gone)
      BY <2>5 DEF Covered
    <2> QED
      BY <2>1, <2>2, <2>7, <2>10, <2>11, <2>12, <2>13, <2>14, <1>0 DEF Fed
  <1> QED
    BY <1>7, <1>8

\* All the events that waited are written.
LEMMA AllFed ==
    ASSUME FlightTyped, screen \in Seq(Chunks), NEW s, Writer(s), NEW gone, lost \subseteq gone
    PROVE  /\ Writer(AllWritten(s, queue))
           /\ Sorted /\ Fed(s, Rest(0), gone) => Fed(AllWritten(s, queue), Rest(Len(queue)), gone)
  <1>1. Len(queue) \in Nat /\ Arriving \in Nat /\ Len(wire) \in Nat
    BY ArrivalTyped DEF FlightTyped
  <1>2. PICK f : /\ f[0] = s
                 /\ \A n \in 1..Len(queue) : f[n] = Written(f[n - 1], queue[n])
                 /\ AllWritten(s, queue) = f[Len(queue)]
    BY <1>1, WrittenStepwise
  <1> DEFINE Good(n) == /\ Writer(f[n])
                        /\ Sorted /\ Fed(s, Rest(0), gone) => Fed(f[n], Rest(n), gone)
             T == {n \in 0..Len(queue) : ~Good(n)}
  <1>3. T = {}
    <2> SUFFICES ASSUME T # {}
                 PROVE  FALSE
      OBVIOUS
    <2>1. PICK n \in T : \A m \in 0..Len(queue) : m < n => m \notin T
      <3> HIDE DEF T
      <3>1. T \subseteq 0..Len(queue)
        BY DEF T
      <3> QED
        BY <1>1, <3>1, LeastNat
    <2>2. n \in 0..Len(queue) /\ ~Good(n)
      OBVIOUS
    <2>3. CASE n = 0
      BY <2>2, <2>3, <1>2
    <2>4. CASE n # 0
      <3>1. n - 1 \in 0..Len(queue) /\ n - 1 < n /\ n \in 1..Len(queue) /\ n \in 1..Arriving
        BY <2>2, <2>4, <1>1 DEF Arriving
      <3>2. Good(n - 1)
        BY <2>1, <3>1
      <3>3. Arrival(n) = queue[n] /\ Arrival(n) \in EventTypes
        BY <3>1, ArrivalTyped DEF Arrival, FlightTyped
      <3>4. f[n] = Written(f[n - 1], Arrival(n))
        BY <3>1, <3>3, <1>2
      <3>5. Writer(f[n])
        BY <3>2, <3>3, <3>4, WrittenTyped
      <3>6. ASSUME Sorted, Fed(s, Rest(0), gone)
            PROVE  Fed(f[n], Rest(n), gone)
        BY <3>1, <3>2, <3>4, <3>6, WrittenFed
      <3> QED
        BY <2>2, <3>5, <3>6
    <2> QED
      BY <2>3, <2>4
  <1>4. Good(Len(queue))
    BY <1>1, <1>3
  <1> QED
    BY <1>2, <1>4

(***************************************************************************)
(* Types.                                                                  *)
(***************************************************************************)
Typed == TypeOK /\ Filled /\ Begun /\ Counted

LEMMA TypedFlight ==
    ASSUME StreamAssumption, Typed
    PROVE  /\ FlightTyped /\ screen \in Seq(Chunks) /\ frame \in Seq(Chunks)
           /\ log \in 0..MaxChunks /\ latest \in 0..MaxChunks /\ Taken \in Nat /\ latest <= log
           /\ Taken <= latest
           /\ \A n \in 0..MaxChunks : Writer(Live(n))
           /\ Writer(Resumed)
  <1>1. log \in 0..MaxChunks /\ latest \in 0..MaxChunks
    BY DEF Typed, TypeOK
  <1>2. FlightTyped
    <2>1. pending \in Seq(Chunks) /\ hands \in [Threads -> Seq(Chunks)] /\ Filled /\ Counted
      BY DEF Typed, TypeOK
    <2>2. log \in Nat
      BY <1>1 DEF StreamAssumption
    <2> QED
      BY <2>1, <2>2 DEF FlightTyped
  <1>3. Taken \in Nat /\ latest <= log /\ Taken <= latest
    BY <1>1, <1>2, TakenTyped DEF Typed, Counted, StreamAssumption
  <1>4. \A n \in 0..MaxChunks : Writer(Live(n))
    BY DEF Typed, TypeOK, Writer, WriterTypes, Live
  <1>5. Writer(Resumed)
    <2>1. shown.latest \in 0..MaxChunks /\ "astray" \in Doubles
      BY DEF Typed, TypeOK, Doubles
    <2>2. Writer(Live(shown.latest)) /\ Live(shown.latest).odd = odd
      BY <2>1, <1>4 DEF Live
    <2> QED
      BY <2>1, <2>2 DEF Writer, WriterTypes, Resumed
  <1> QED
    BY <1>1, <1>2, <1>3, <1>4, <1>5 DEF Typed, TypeOK

LEMMA TypedInit == StreamAssumption /\ Init => Typed
  <1> SUFFICES ASSUME StreamAssumption, Init
               PROVE  Typed
    OBVIOUS
  <1>1. \A S : <<>> \in Seq(S) /\ Len(<<>>) = 0
    BY EmptySeq
  <1>2. TypeOK
    <2>1. 0 \in 0..MaxChunks /\ 0 \in 0..MaxShows /\ 0 <= MaxQueue
      BY DEF StreamAssumption
    <2>2. shown \in [latest : 0..MaxChunks, previous : 0..MaxChunks, restored : 0..MaxChunks,
                     active : BOOLEAN, history : 0..MaxChunks]
      BY <2>1 DEF Init, Seen
    <2>3. hands \in [Threads -> Seq(Chunks)]
      BY <1>1 DEF Init
    <2> QED
      BY <1>1, <2>1, <2>2, <2>3 DEF Init, TypeOK
  <1>3. Counted
    BY DEF Init, Counted, Seen
  <1> QED
    BY <1>1, <1>2, <1>3 DEF Init, Typed, Filled, Begun

\* The steps of the threads and of the process.
LEMMA BackendTyped ==
    ASSUME StreamAssumption, Typed, UNCHANGED <<calls, surface>>,
           \/ ReadChunk \/ PushRestore \/ LookForSubscribers \/ QueueChunk \/ FlushChunk \/ Tick
           \/ (\E t \in Threads : Emit(t)) \/ CloseLog \/ LookAtEnd \/ ReaderEnds \/ ChildExits
           \/ LookBeforeRemoval \/ RemoveSession \/ RemoveSubscribers \/ ExitFlush
    PROVE  Typed'
  <1>1. /\ log \in 0..MaxChunks /\ latest \in 0..MaxChunks /\ pending \in Seq(Chunks)
        /\ hands \in [Threads -> Seq(Chunks)] /\ wire \in Seq(EventTypes) /\ MaxChunks \in Nat
        /\ odd \subseteq Doubles /\ subs \in 0..MaxShows /\ MaxShows \in Nat
        /\ lost \subseteq Chunks /\ disk \in 0..MaxChunks
    BY DEF Typed, TypeOK, Filled, StreamAssumption
  <1>2. \A S : <<>> \in Seq(S)
    BY EmptySeq
  <1> DEFINE ReaderStates == {"idle", "logged", "pushed", "queue", "flush",
                              "closed", "last", "drop", "ended"}
             ChildStates == {"runs", "exited", "looked", "removed", "cleared", "gone"}
  <1>r. /\ reader \in ReaderStates
        /\ reader \in {"logged", "pushed", "queue"} => log > 0
        /\ latest = IF reader = "logged" THEN log - 1 ELSE log
        /\ shown.restored <= latest /\ shown.history <= log /\ disk <= log
        /\ shown.restored \in Nat /\ shown.history \in Nat /\ shown' = shown
    <2>1. /\ reader \in ReaderStates
          /\ shown.restored \in 0..MaxChunks /\ shown.history \in 0..MaxChunks /\ shown' = shown
      BY DEF Typed, TypeOK, surface
    <2>2. Counted
      BY DEF Typed
    <2> QED
      BY <2>1, <2>2, <1>1 DEF Counted
  <1>4. /\ log' \in 0..MaxChunks /\ latest' \in 0..MaxChunks /\ disk' \in 0..MaxChunks
        /\ reader' \in ReaderStates
        /\ Counted'
    <2>1. CASE ReadChunk
      <3>1. /\ reader = "idle" /\ log < MaxChunks /\ log' = log + 1 /\ reader' = "logged"
            /\ latest' = latest /\ disk' \in {disk, log'}
        BY <2>1 DEF ReadChunk
      <3>2. disk' \in 0..MaxChunks /\ disk' <= log'
        BY <3>1, <1>1, <1>r
      <3> QED
        BY <3>1, <3>2, <1>1, <1>r DEF Counted
    <2>2. CASE PushRestore
      BY <2>2, <1>1, <1>r DEF Counted, PushRestore
    <2>3. CASE LookForSubscribers
      BY <2>3, <1>1, <1>r DEF Counted, LookForSubscribers
    <2>4. CASE QueueChunk
      BY <2>4, <1>1, <1>r DEF Counted, QueueChunk
    <2>5. CASE FlushChunk
      BY <2>5, <1>1, <1>r DEF Counted, FlushChunk
    <2>6. CASE Tick \/ \E t \in Threads : Emit(t)
      BY <2>6, <1>1, <1>r DEF Counted, Tick, Emit
    <2>7. CASE CloseLog
      <3>1. reader = "idle" /\ reader' = "closed" /\ UNCHANGED <<log, latest>> /\ disk' \in {disk, log}
        BY <2>7 DEF CloseLog
      <3>2. disk' \in 0..MaxChunks /\ disk' <= log'
        BY <3>1, <1>1, <1>r
      <3> QED
        BY <3>1, <3>2, <1>1, <1>r DEF Counted
    <2>8. CASE LookAtEnd \/ ReaderEnds
      BY <2>8, <1>1, <1>r DEF Counted, LookAtEnd, ReaderEnds
    <2>9. CASE ChildExits \/ LookBeforeRemoval \/ RemoveSession \/ RemoveSubscribers \/ ExitFlush
      BY <2>9, <1>1, <1>r DEF Counted, ChildExits, LookBeforeRemoval, RemoveSession,
         RemoveSubscribers, ExitFlush
    <2> QED
      BY <2>1, <2>2, <2>3, <2>4, <2>5, <2>6, <2>7, <2>8, <2>9
  <1>5. /\ child' \in ChildStates /\ subs' \in 0..MaxShows /\ Begun'
        /\ keeps' \in BOOLEAN /\ watched' \in BOOLEAN
    <2>1. /\ child \in ChildStates /\ keeps \in BOOLEAN /\ watched \in BOOLEAN
      BY DEF Typed, TypeOK
    <2>2. /\ child' \in {child, "exited", "looked", "removed", "cleared", "gone"}
          /\ subs' \in {subs, 0} /\ keeps' = keeps
          /\ watched' = watched \/ watched' = (subs > 0) \/ watched' = FALSE
      BY DEF ReadChunk, PushRestore, LookForSubscribers, QueueChunk, FlushChunk, Tick, Emit,
         CloseLog, LookAtEnd, ReaderEnds, ChildExits, LookBeforeRemoval, RemoveSession,
         RemoveSubscribers, ExitFlush
    <2>3. Begun'
      BY <1>1, <2>2 DEF Typed, Begun, surface
    <2>4. watched' \in BOOLEAN
      <3>1. (subs > 0) \in BOOLEAN
        BY <1>1
      <3> QED
        BY <3>1, <2>1, <2>2
    <2> QED
      BY <1>1, <2>1, <2>2, <2>3, <2>4
  <1>6. odd' \subseteq Doubles /\ lost' \subseteq Chunks
    <2>1. odd' = odd
      BY DEF account, ReadChunk, PushRestore, LookForSubscribers, QueueChunk, FlushChunk, Tick, Emit,
         CloseLog, LookAtEnd, ReaderEnds, ChildExits, LookBeforeRemoval, RemoveSession,
         RemoveSubscribers, ExitFlush
    <2>2. ChunksOf(pending) \subseteq Chunks /\ \A t \in Threads : ChunksOf(hands[t]) \subseteq Chunks
      <3>1. \A s \in Seq(Chunks) : ChunksOf(s) \subseteq Chunks
        BY ChunkSeq DEF ChunksOf
      <3> QED
        BY <3>1, <1>1
    <2>3. \A t \in Threads : Overtaken(t) \subseteq Chunks
      BY <2>2 DEF Overtaken
    <2>4. CASE LookForSubscribers
      <3>1. latest \in Chunks
        BY <2>4, <1>1, <1>r DEF LookForSubscribers, Chunks
      <3> QED
        BY <2>1, <2>4, <3>1, <1>1 DEF LookForSubscribers
    <2>5. CASE \E t \in Threads : Emit(t)
      BY <2>1, <2>3, <2>5, <1>1 DEF Emit
    <2>6. CASE ReaderEnds \/ ExitFlush
      BY <2>1, <2>2, <2>6, <1>1 DEF ReaderEnds, ExitFlush, FlushOrDiscard
    <2>7. CASE \/ ReadChunk \/ PushRestore \/ QueueChunk \/ FlushChunk \/ Tick \/ CloseLog
               \/ LookAtEnd \/ ChildExits \/ LookBeforeRemoval \/ RemoveSession
               \/ RemoveSubscribers
      <3>1. lost' = lost
        BY <2>7 DEF account, ReadChunk, PushRestore, QueueChunk, FlushChunk, Tick, CloseLog, LookAtEnd,
           ChildExits, LookBeforeRemoval, RemoveSession, RemoveSubscribers
      <3> QED
        BY <2>1, <3>1, <1>1
    <2> QED
      BY <2>4, <2>5, <2>6, <2>7
  <1>7. pending' \in Seq(Chunks) /\ hands' \in [Threads -> Seq(Chunks)] /\ wire' \in Seq(EventTypes)
    <2>1. CASE QueueChunk
      <3>1. latest \in Chunks
        BY <2>1, <1>1 DEF QueueChunk, Typed, Counted, Chunks
      <3> QED
        BY <2>1, <3>1, <1>1, AppendFacts DEF QueueChunk
    <2>2. CASE \E t \in Threads : Emit(t)
      <3>1. PICK t \in Threads : Emit(t)
        BY <2>2
      <3>2. hands[t] \in EventTypes
        BY <3>1, <1>1 DEF Emit, EventTypes
      <3> QED
        BY <3>1, <3>2, <1>1, <1>2, AppendFacts DEF Emit
    <2>3. ASSUME NEW t \in Threads, Take(t), wire' = wire
          PROVE  /\ pending' \in Seq(Chunks) /\ hands' \in [Threads -> Seq(Chunks)]
                 /\ wire' \in Seq(EventTypes)
      BY <2>3, <1>1, <1>2 DEF Take
    <2>4. CASE FlushChunk \/ Tick \/ ReaderEnds \/ ExitFlush
      <3>1. {"reader", "ticker", "waiter"} \subseteq Threads
        BY DEF Threads
      <3> QED
        BY <2>3, <2>4, <3>1, <1>1, <1>2 DEF FlushChunk, Tick, ReaderEnds, ExitFlush, FlushOrDiscard
    <2>5. CASE \/ ReadChunk \/ PushRestore \/ LookForSubscribers \/ CloseLog \/ LookAtEnd
               \/ ChildExits \/ LookBeforeRemoval \/ RemoveSession \/ RemoveSubscribers
      BY <2>5, <1>1 DEF ReadChunk, PushRestore, LookForSubscribers, CloseLog, LookAtEnd,
         ChildExits, LookBeforeRemoval, RemoveSession, RemoveSubscribers
    <2> QED
      BY <2>1, <2>2, <2>4, <2>5
  <1>8. Filled'
    BY <1>7 DEF Typed, Filled, surface
  <1>9. wire' \in Seq(Seq(Chunks))
    BY <1>7, SeqMonotonic DEF EventTypes
  <1>10. TypeOK'
    BY <1>4, <1>5, <1>6, <1>7, <1>9 DEF Typed, TypeOK, surface
  <1> QED
    BY <1>4, <1>5, <1>8, <1>10 DEF Typed

\* The steps of the surface's calls, and of the surface itself.
LEMMA SurfaceTyped ==
    ASSUME StreamAssumption, Typed, StreamInv, StreamInv',
           \/ RunCall \/ Show \/ Restore \/ ReadSnapshot \/ WriteHistory \/ Ready \/ CatchUpFails
           \/ HandleOutput \/ Frame \/ Hide
    PROVE  Typed'
  <1>1. /\ log \in 0..MaxChunks /\ latest \in 0..MaxChunks /\ pending \in Seq(Chunks)
        /\ MaxChunks \in Nat /\ MaxShows \in Nat /\ MaxQueue \in Nat
        /\ odd \subseteq Doubles /\ subs \in Nat /\ shows \in 0..MaxShows
        /\ lost \subseteq Chunks /\ disk \in 0..MaxChunks /\ keeps \in BOOLEAN
        /\ frame \in Seq(Chunks) /\ screen \in Seq(Chunks) /\ Len(queue) <= MaxQueue
        /\ wire \in Seq(EventTypes) /\ queue \in Seq(EventTypes)
        /\ calls \in Seq({"subscribe", "subscribe late", "unsubscribe"})
    BY DEF Typed, TypeOK, Filled, StreamAssumption, StreamInv, CallsTyped
  <1>2. /\ shown \in [latest : 0..MaxChunks, previous : 0..MaxChunks, restored : 0..MaxChunks,
                      active : BOOLEAN, history : 0..MaxChunks]
        /\ phase \in {"idle", "catchingUp", "live"}
        /\ step \in {"none", "subscribing", "restoring", "reading", "writing", "ready"}
    BY DEF Typed, TypeOK
  <1>b. MaxChunks \in Nat /\ MaxShows \in Nat /\ MaxQueue \in Nat
    BY DEF StreamAssumption
  <1>l. log \in 0..MaxChunks /\ latest \in 0..MaxChunks
    BY <1>1
  <1>s. shows \in 0..MaxShows
    BY <1>1
  <1>k. /\ log \in Nat /\ latest \in Nat /\ log <= MaxChunks /\ latest <= MaxChunks
        /\ MaxChunks \in Nat /\ MaxShows \in Nat /\ MaxQueue \in Nat
        /\ shows \in Nat /\ shows <= MaxShows
    BY <1>b, <1>l, <1>s
  <1>n. /\ shown.latest \in 0..MaxChunks /\ shown.previous \in 0..MaxChunks
        /\ shown.restored \in 0..MaxChunks /\ shown.history \in 0..MaxChunks
    BY <1>2
  <1>e. /\ wire \in Seq(EventTypes) /\ queue \in Seq(EventTypes)
        /\ wire # <<>> => Tail(wire) \in Seq(EventTypes) /\ Head(wire) \in EventTypes
    BY ZenonT(40), <1>1, TailFacts
  <1>3. \A S : <<>> \in Seq(S) /\ Len(<<>>) = 0
    BY EmptySeq
  <1>4. /\ FlightTyped /\ \A n \in 0..MaxChunks : Writer(Live(n))
        /\ latest <= log /\ Writer(Resumed)
    BY TypedFlight
  <1>5. "ahead" \in Doubles
    BY DEF Doubles
  <1>6. \A s : Writer(s) => /\ s.latest \in 0..MaxChunks /\ s.frame \in Seq(Chunks)
                            /\ s.odd \subseteq Doubles
    BY DEF Writer, WriterTypes
  <1>7. /\ \A n \in 0..MaxChunks : Writer(AllWritten(Live(n), queue))
        /\ Writer(AllWritten(Resumed, queue))
    BY <1>1, <1>4, AllFed
  <1>8. UNCHANGED <<keeps, log, latest, reader, child, watched, hands>>
    BY DEF RunCall, Show, Restore, ReadSnapshot, WriteHistory, Ready, CatchUpFails, HandleOutput,
       Frame, Hide, backend
  <1>9. /\ phase' \in {"idle", "catchingUp", "live"}
        /\ step' \in {"none", "subscribing", "restoring", "reading", "writing", "ready"}
    BY <1>2 DEF RunCall, Show, Restore, ReadSnapshot, WriteHistory, Ready, GoLive, GoInactive,
       CatchUpFails, HandleOutput, Frame, Hide
  <1>10. pending' \in Seq(Chunks)
    BY <1>1, <1>3 DEF RunCall, Show, Restore, ReadSnapshot, WriteHistory, Ready, CatchUpFails,
       HandleOutput, Frame, Hide, backend
  <1>11. /\ wire' \in Seq(EventTypes) /\ queue' \in Seq(EventTypes) /\ Len(queue') <= MaxQueue
    <2>1. CASE HandleOutput
      <3>1. wire # <<>> /\ wire' = Tail(wire) /\ queue' \in {queue, Enqueued(Head(wire))}
        BY <2>1 DEF HandleOutput
      <3>2. wire' \in Seq(EventTypes) /\ Head(wire) \in EventTypes
        BY <3>1, <1>e
      <3> DEFINE q == Append(queue, Head(wire))
      <3>3. q \in Seq(EventTypes) /\ q # <<>> /\ Len(q) = Len(queue) + 1 /\ Len(queue) \in Nat
        BY <3>2, <1>e, AppendFacts
      <3> HIDE DEF q
      <3>4. Tail(q) \in Seq(EventTypes) /\ Len(Tail(q)) = Len(queue)
        BY <3>3, TailFacts
      <3>5. Enqueued(Head(wire)) = IF Len(queue) < MaxQueue THEN q ELSE Tail(q)
        BY DEF Enqueued, q
      <3>6. Enqueued(Head(wire)) \in Seq(EventTypes) /\ Len(Enqueued(Head(wire))) <= MaxQueue
        <4>1. CASE Len(queue) < MaxQueue
          BY <4>1, <3>3, <3>5, <1>k
        <4>2. CASE ~(Len(queue) < MaxQueue)
          BY <4>2, <3>4, <3>5, <1>1
        <4> QED
          BY <4>1, <4>2
      <3> QED
        BY <3>1, <3>2, <3>6, <1>1
    <2>2. CASE RunCall \/ Show \/ Restore \/ ReadSnapshot \/ WriteHistory \/ Frame
      BY <2>2, <1>1 DEF RunCall, Show, Restore, ReadSnapshot, WriteHistory, Frame
    <2>3. CASE Ready \/ CatchUpFails \/ Hide
      <3>1. queue' = <<>> /\ wire' = wire
        BY <2>3 DEF Ready, CatchUpFails, Hide
      <3> QED
        BY <3>1, <1>3, <1>e, <1>k
    <2> QED
      BY <2>1, <2>2, <2>3
  <1>12. /\ shown' \in [latest : 0..MaxChunks, previous : 0..MaxChunks, restored : 0..MaxChunks,
                        active : BOOLEAN, history : 0..MaxChunks]
         /\ frame' \in Seq(Chunks) /\ odd' \subseteq Doubles
         /\ shown'.restored <= latest /\ shown'.history <= log
    <2>1. shown.restored <= latest /\ shown.history <= log /\ disk <= log
      BY DEF Typed, Counted
    <2>s. ASSUME NEW n \in 0..MaxChunks
          PROVE  /\ Seen(n) \in [latest : 0..MaxChunks, previous : 0..MaxChunks,
                                 restored : 0..MaxChunks, active : BOOLEAN, history : 0..MaxChunks]
                 /\ Seen(n).restored <= latest /\ Seen(n).history <= log
      BY <1>k DEF Seen
    <2>2. CASE Ready
      <3>1. Writer(AllWritten(Live(shown.restored), queue))
        BY <1>2, <1>7
      <3>2. CASE shown.active
        <4> DEFINE s == AllWritten(Live(shown.restored), queue)
        <4>1. shown' = Seen(s.latest) /\ frame' = s.frame /\ odd' = s.odd
          BY <2>2, <3>2 DEF Ready, GoLive
        <4> HIDE DEF s
        <4> QED
          BY <2>s, <3>1, <4>1, <1>6 DEF s
      <3>3. CASE ~shown.active
        BY <2>s, <2>2, <3>3, <1>1, <1>2 DEF Ready, GoInactive
      <3> QED
        BY <3>2, <3>3
    <2>3. CASE CatchUpFails
      BY <2>s, <2>3, <1>6, <1>7 DEF CatchUpFails
    <2>4. CASE HandleOutput
      <3>1. Head(wire) \in EventTypes
        BY <2>4, <1>e DEF HandleOutput
      <3>2. Writer(Written(Live(shown.latest), Head(wire)))
        BY <3>1, <1>2, <1>4, WrittenTyped
      <3> QED
        <4> DEFINE s == Written(Live(shown.latest), Head(wire))
        <4>1. \/ shown' = Seen(s.latest) /\ frame' = s.frame /\ odd' = s.odd
              \/ shown' = shown /\ frame' = frame /\ odd' = odd
          BY <2>4 DEF HandleOutput, account
        <4>2. s.latest \in 0..MaxChunks /\ s.frame \in Seq(Chunks) /\ s.odd \subseteq Doubles
          BY <3>2, <1>6
        <4> HIDE DEF s
        <4> QED
          BY <2>1, <2>s, <4>1, <4>2, <1>1, <1>2
    <2>5. CASE Restore
      <3>1. PICK number : /\ number = IF Present THEN latest ELSE 0
                          /\ shown' = [shown EXCEPT !.restored = number, !.active = Present]
        BY <2>5 DEF Restore
      <3>2. Present \in BOOLEAN /\ number \in 0..MaxChunks /\ number <= latest
        BY <3>1, <1>k DEF Present
      <3>3. /\ shown'.restored = number /\ shown'.history = shown.history
            /\ shown' \in [latest : 0..MaxChunks, previous : 0..MaxChunks, restored : 0..MaxChunks,
                            active : BOOLEAN, history : 0..MaxChunks]
        BY <3>1, <3>2, <1>2
      <3>4. frame' = frame /\ odd' = odd
        BY <2>5 DEF Restore, account
      <3> QED
        BY <2>1, <3>2, <3>3, <3>4, <1>1
    <2>6. CASE ReadSnapshot
      <3>1. /\ shown' = [shown EXCEPT !.history = disk'] /\ disk' \in {disk, log}
            /\ frame' = frame /\ odd' \subseteq odd \cup {"ahead"}
        BY <2>6 DEF ReadSnapshot
      <3>2. disk' \in 0..MaxChunks /\ disk' <= log
        <4>1. log <= log
          BY <1>k
        <4>2. disk \in 0..MaxChunks /\ log \in 0..MaxChunks /\ disk <= log
          BY <2>1, <1>1
        <4> QED
          BY <3>1, <4>1, <4>2
      <3>3. /\ shown'.restored = shown.restored /\ shown'.history = disk'
            /\ shown' \in [latest : 0..MaxChunks, previous : 0..MaxChunks, restored : 0..MaxChunks,
                            active : BOOLEAN, history : 0..MaxChunks]
        BY <3>1, <3>2, <1>2
      <3>4. odd' \subseteq Doubles /\ frame' \in Seq(Chunks)
        BY <3>1, <1>1, <1>5
      <3> QED
        BY <2>1, <3>2, <3>3, <3>4
    <2>7. CASE RunCall \/ Show \/ WriteHistory \/ Frame \/ Hide
      BY ZenonT(40), <2>1, <2>s, <2>7, <1>1, <1>2, <1>3 DEF RunCall, Show, WriteHistory, Frame, Hide, account
    <2> QED
      BY <2>2, <2>3, <2>4, <2>5, <2>6, <2>7
  <1>13. screen' \in Seq(Chunks)
    <2>1. CASE WriteHistory
      <3>1. shown.history \in Nat /\ 1..shown.history \subseteq Chunks
        BY <1>k, <1>n DEF Chunks
      <3>2. [i \in 1..shown.history |-> i] \in Seq(Chunks)
        BY <3>1, FunctionIsSeq
      <3>3. (IF shown.previous > 0 THEN screen ELSE <<>>) \in Seq(Chunks)
        BY <1>1, <1>3
      <3> QED
        BY <2>1, <3>2, <3>3, ConcatChunks DEF WriteHistory
    <2>2. CASE Frame
      BY <2>2, <1>1, ConcatChunks DEF Frame
    <2>3. CASE ~WriteHistory /\ ~Frame
      BY <2>3, <1>1 DEF RunCall, Show, Restore, ReadSnapshot, Ready, CatchUpFails, HandleOutput, Hide
    <2> QED
      BY <2>1, <2>2, <2>3
  <1>14. shows' \in 0..MaxShows /\ Begun'
    <2>1. CASE Show
      <3>1. shows < MaxShows /\ shows' = shows + 1
        BY <2>1 DEF Show
      <3>2. shows' \in 0..MaxShows /\ shows' > 0
        BY <3>1, <1>k
      <3> QED
        BY <3>2 DEF Begun
    <2>2. CASE ~Show
      <3>1. shows' = shows
        BY <2>2 DEF RunCall, Restore, ReadSnapshot, WriteHistory, Ready, CatchUpFails, HandleOutput,
           Frame, Hide
      <3>2. phase' # "idle" \/ calls' # <<>> \/ subs' > 0 => phase # "idle" \/ calls # <<>> \/ subs > 0
        <4>1. CASE RunCall
          BY <4>1 DEF RunCall
        <4>2. CASE ~RunCall
          <5>1. subs' = subs
            BY <4>2, <2>2 DEF Restore, ReadSnapshot, WriteHistory, Ready, CatchUpFails,
               HandleOutput, Frame, Hide, backend
          <5>2. CASE Hide \/ Ready \/ CatchUpFails
            <6>1. phase # "idle"
              BY <5>2 DEF Hide, Ready, CatchUpFails, StreamInv, Latest
            <6> QED
              BY <6>1
          <5>3. CASE Restore \/ ReadSnapshot \/ WriteHistory \/ HandleOutput \/ Frame
            BY <5>1, <5>3 DEF Restore, ReadSnapshot, WriteHistory, HandleOutput, Frame
          <5> QED
            BY <5>2, <5>3, <4>2, <2>2
        <4> QED
          BY <4>1, <4>2
      <3> QED
        BY <3>1, <3>2, <1>1 DEF Typed, Begun
    <2> QED
      BY <2>1, <2>2
  <1>15. subs' \in 0..MaxShows /\ calls' \in Seq({"subscribe", "subscribe late", "unsubscribe"})
    <2>1. subs' \in Nat /\ subs' <= 1
      BY DEF StreamInv, CallsTyped, Balanced
    <2>2. subs' > 0 => shows' > 0
      BY <1>14 DEF Begun
    <2>3. shows' \in 0..MaxShows
      BY <1>14
    <2>4. subs' \in 0..MaxShows
      BY <2>1, <2>2, <2>3, <1>b
    <2>5. calls' \in Seq({"subscribe", "subscribe late", "unsubscribe"})
      BY DEF StreamInv, CallsTyped, CallNames
    <2> QED
      BY <2>4, <2>5
  <1>16. wire' \in Seq(Seq(Chunks)) /\ queue' \in Seq(Seq(Chunks))
    BY <1>11, SeqMonotonic DEF EventTypes
  <1>o. lost' \subseteq Chunks
    <2>1. \A m, n \in 0..MaxChunks : (m + 1)..n \subseteq Chunks
      BY <1>b DEF Chunks
    <2>2. \A s \in Seq(Chunks) : ChunksOf(s) \subseteq Chunks
      BY ChunkSeq DEF ChunksOf
    <2>3. CASE ReadSnapshot
      <3>1. lost' \subseteq lost \cup (disk' + 1)..shown.restored /\ disk' \in {disk, log}
        BY <2>3 DEF ReadSnapshot
      <3> QED
        BY <3>1, <2>1, <1>1, <1>n
    <2>4. CASE CatchUpFails
      BY <2>1, <2>4, <1>1, <1>n DEF CatchUpFails
    <2>5. CASE HandleOutput
      <3>1. Head(wire) \in EventTypes
        BY <2>5, <1>e DEF HandleOutput
      <3>2. Append(queue, Head(wire)) \in Seq(EventTypes) /\ Append(queue, Head(wire)) # <<>>
        BY <3>1, <1>e, AppendFacts
      <3>3. Head(Append(queue, Head(wire))) \in EventTypes
        BY <3>2, TailFacts
      <3>4. ChunksOf(Head(Append(queue, Head(wire)))) \subseteq Chunks
        BY <3>3, <2>2 DEF EventTypes
      <3> QED
        BY <3>4, <2>5, <1>1 DEF HandleOutput, account
    <2>6. CASE Hide
      BY <2>2, <2>6, <1>1 DEF Hide
    <2>7. CASE RunCall \/ Show \/ Restore \/ WriteHistory \/ Ready \/ Frame
      BY <2>7, <1>1 DEF RunCall, Show, Restore, WriteHistory, Ready, Frame, account
    <2> QED
      BY <2>3, <2>4, <2>5, <2>6, <2>7
  <1>d. disk' \in 0..MaxChunks /\ disk' <= log
    <2>1. disk' \in {disk, log}
      BY DEF RunCall, Show, Restore, ReadSnapshot, WriteHistory, Ready, CatchUpFails, HandleOutput,
         Frame, Hide, backend
    <2>2. log <= log
      BY <1>k
    <2>3. disk \in 0..MaxChunks /\ log \in 0..MaxChunks /\ disk <= log
      BY <1>1 DEF Typed, Counted
    <2> QED
      BY <2>1, <2>2, <2>3
  <1>17. TypeOK'
    BY <1>8, <1>9, <1>10, <1>11, <1>12, <1>13, <1>14, <1>15, <1>16, <1>o, <1>d DEF Typed, TypeOK
  <1>18. Counted'
    BY <1>8, <1>12, <1>d DEF Typed, Counted
  <1> QED
    BY <1>11, <1>14, <1>17, <1>18 DEF Typed, Filled

(***************************************************************************)
(* What the surface has.                                                   *)
(***************************************************************************)
Drawn == screen \o frame

\* What waits, and what is remembered, belongs to what the surface is doing.
Stages ==
    /\ phase # "catchingUp" => queue = <<>> /\ step = "none"
    /\ phase # "live" => frame = <<>>
    /\ phase = "catchingUp" => shown.previous = shown.latest
    /\ step \in {"reading", "writing", "ready"} /\ ~shown.active =>
         shown.restored = 0 /\ ~Present
    /\ step = "writing" /\ shown.active => (shown.history + 1)..shown.restored \subseteq lost

\* Up to the number it counts as seen a surface has everything that is not lost,
\* and nothing that was not logged; the history is written only for a number that
\* has moved.
Full ==
    /\ shown.latest <= latest
    /\ 1..shown.latest \subseteq ChunksOf(Drawn) \cup lost /\ ChunksOf(Drawn) \subseteq 1..log
    /\ step \in {"reading", "writing"} /\ shown.active =>
         shown.previous = 0 \/ shown.previous < shown.restored
    /\ step = "ready" /\ shown.active => 1..shown.restored \subseteq ChunksOf(screen) \cup lost

\* A live surface ends with the number it counts as seen; what is between the end
\* of its screen and that number waits for the frame.
Level ==
    /\ EndsAt(Drawn, shown.latest, lost)
    /\ EndsAt(screen, shown.latest, ChunksOf(frame) \cup lost)

\* Where nothing was doubled a surface ends with its number, or the number the
\* restore answers will differ, so that the history is written.
Tight ==
    /\ Chain(Drawn, lost)
    /\ phase = "live" => Level
    /\ step = "writing" /\ shown.active => shown.history <= shown.restored
    /\ step \in {"reading", "writing"} /\ shown.active => ChunksOf(screen) \subseteq 1..shown.restored
    /\ step = "ready" /\ shown.active => EndsAt(screen, shown.restored, lost)
    /\ Present => ChunksOf(Drawn) \subseteq 1..latest
    /\ phase # "live" =>
         \/ shown.latest = 0 \/ EndsAt(screen, shown.latest, lost)
         \/ shown.latest < latest \/ ~Present

Picture == Full /\ (odd = {} => Tight)

SurfaceInv == Typed /\ StreamInv /\ Linked /\ Stages /\ Flight /\ Picture

BackendStep ==
    \/ ReadChunk \/ PushRestore \/ LookForSubscribers \/ QueueChunk \/ FlushChunk \/ Tick
    \/ (\E t \in Threads : Emit(t)) \/ CloseLog \/ LookAtEnd \/ ReaderEnds \/ ChildExits
    \/ LookBeforeRemoval \/ RemoveSession \/ RemoveSubscribers \/ ExitFlush

LEMMA BackendQuiet ==
    ASSUME BackendStep
    PROVE  UNCHANGED <<calls, surface>>
  BY DEF BackendStep, ReadChunk, PushRestore, LookForSubscribers, QueueChunk, FlushChunk, Tick,
     Emit, CloseLog, LookAtEnd, ReaderEnds, ChildExits, LookBeforeRemoval, RemoveSession,
     RemoveSubscribers, ExitFlush, surface

LEMMA NextSteps ==
    ASSUME Next
    PROVE  \/ BackendStep
           \/ RunCall \/ Show \/ Restore \/ ReadSnapshot \/ WriteHistory \/ Ready \/ CatchUpFails
           \/ HandleOutput \/ Frame \/ Hide
  BY DEF Next, Progress, BackendStep

\* A session that was removed does not come back, and only then it has no
\* subscription any more.
LEMMA PresenceLost ==
    ASSUME BackendStep
    PROVE  (Present' => Present) /\ (Present' => subs' = subs)
  BY DEF BackendStep, ReadChunk, PushRestore, LookForSubscribers, QueueChunk, FlushChunk, Tick,
     Emit, CloseLog, LookAtEnd, ReaderEnds, ChildExits, LookBeforeRemoval, RemoveSession,
     RemoveSubscribers, ExitFlush, Present

\* What has happened stays in the history.
LEMMA AccountGrows ==
    ASSUME StreamAssumption, Typed, Next
    PROVE  odd \subseteq odd' /\ lost \subseteq lost'
  <1>1. /\ shown.latest \in 0..MaxChunks /\ shown.restored \in 0..MaxChunks
        /\ FlightTyped /\ screen \in Seq(Chunks) /\ \A n \in 0..MaxChunks : Writer(Live(n))
        /\ Writer(Resumed)
    BY TypedFlight DEF Typed, TypeOK
  <1>2. CASE BackendStep
    BY <1>2 DEF BackendStep, ReadChunk, PushRestore, LookForSubscribers, QueueChunk, FlushChunk, Tick,
       Emit, FlushOrDiscard, CloseLog, LookAtEnd, ReaderEnds, ChildExits, LookBeforeRemoval,
       RemoveSession, RemoveSubscribers, ExitFlush, account
  <1>3. CASE Ready
    <2>1. Writer(AllWritten(Live(shown.restored), queue))
      BY <1>1, AllFed
    <2> QED
      BY <1>3, <2>1 DEF Ready, GoLive, GoInactive, Writer
  <1>4. CASE CatchUpFails
    <2>1. Writer(AllWritten(Resumed, queue))
      BY <1>1, AllFed
    <2> QED
      BY <1>4, <2>1 DEF CatchUpFails, Writer
  <1>5. CASE HandleOutput
    <2>1. Head(wire) \in EventTypes
      BY <1>5, TailFacts DEF HandleOutput, FlightTyped, Typed, Filled
    <2>2. Writer(Written(Live(shown.latest), Head(wire)))
      BY <1>1, <2>1, WrittenTyped
    <2> QED
      BY <1>5, <2>2 DEF HandleOutput, Writer, account
  <1>6. CASE RunCall \/ Show \/ Restore \/ ReadSnapshot \/ WriteHistory \/ Frame \/ Hide
    BY <1>6 DEF RunCall, Show, Restore, ReadSnapshot, WriteHistory, Frame, Hide, account
  <1> QED
    BY <1>2, <1>3, <1>4, <1>5, <1>6, NextSteps

LEMMA LinkedStep ==
    ASSUME StreamInv, Linked, Next
    PROVE  Linked'
  <1>1. CASE BackendStep
    <2>1. UNCHANGED <<calls, phase, step>> /\ (Present' => Present) /\ (Present' => subs' = subs)
      BY <1>1, BackendQuiet, PresenceLost DEF surface
    <2> QED
      BY <2>1 DEF Linked
  <1>2. CASE RunCall
    <2>1. calls # <<>> /\ phase' = phase /\ calls' = Tail(calls) /\ Present' = Present
      BY <1>2 DEF RunCall, Present
    <2>2. step \notin {"restoring", "reading", "writing", "ready"} /\ phase # "live"
      BY <2>1 DEF Linked
    <2>3. CASE Head(calls) = "subscribe"
      <3>1. /\ Head(calls) = calls[1] /\ Len(calls) \in Nat \ {0} /\ Len(calls') = Len(calls) - 1
            /\ calls' \in Seq(CallNames)
        BY <2>1, TailFacts DEF StreamInv, CallsTyped
      <3>2. 1 = Len(calls)
        BY <3>1, <2>3 DEF StreamInv, Latest
      <3>3. calls' = <<>>
        <4>1. Len(calls') = 1 - 1
          BY <3>1, <3>2
        <4> QED
          BY <4>1, <3>1, EmptySeq, 1 - 1 = 0
      <3>4. Present => subs' > 0
        BY <1>2, <2>3 DEF RunCall, StreamInv, CallsTyped
      <3> QED
        BY <3>3, <3>4, <2>1 DEF Linked
    <2>4. CASE Head(calls) # "subscribe"
      <3>1. step' = step
        BY <1>2, <2>4 DEF RunCall
      <3> QED
        BY <3>1, <2>1, <2>2 DEF Linked
    <2> QED
      BY <2>3, <2>4
  <1>3. CASE Show \/ Hide
    BY <1>3 DEF Show, Hide, Linked
  <1>4. CASE Restore \/ ReadSnapshot \/ WriteHistory
    <2>1. step \in {"restoring", "reading", "writing"} /\ UNCHANGED <<calls, subs, child>>
      BY <1>4 DEF Restore, ReadSnapshot, WriteHistory, backend
    <2> QED
      BY <2>1 DEF Linked, Present
  <1>5. CASE Ready \/ CatchUpFails
    <2>1. step \in {"restoring", "reading", "ready"} /\ UNCHANGED <<subs, child>> /\ step' = "none"
          /\ (phase' = "live" => calls' = calls)
      BY <1>5 DEF Ready, CatchUpFails, GoLive, GoInactive, backend
    <2> QED
      BY <2>1 DEF Linked, Present
  <1>6. CASE HandleOutput \/ Frame
    <2>1. UNCHANGED <<calls, subs, child, phase, step>>
      BY <1>6 DEF HandleOutput, Frame, backend
    <2> QED
      BY <2>1 DEF Linked, Present
  <1> QED
    BY <1>1, <1>2, <1>3, <1>4, <1>5, <1>6, NextSteps

LEMMA StagesStep ==
    ASSUME StreamAssumption, Typed, StreamInv, StreamInv', Stages, lost \subseteq lost', Next
    PROVE  Stages'
  <1>1. /\ log \in Nat /\ latest <= log /\ latest \in Nat /\ shown.restored <= latest
    BY TypedFlight DEF Typed, Counted, StreamAssumption
  <1>2. phase \in {"idle", "catchingUp", "live"}
    BY DEF Typed, TypeOK
  <1>3. (step # "none" => phase = "catchingUp") /\ (step' # "none" => phase' = "catchingUp")
    BY DEF StreamInv, Latest
  <1>f. shown \in [latest : 0..MaxChunks, previous : 0..MaxChunks, restored : 0..MaxChunks,
                   active : BOOLEAN, history : 0..MaxChunks]
    BY DEF Typed, TypeOK
  <1>g. shown.restored \in 0..MaxChunks
    BY <1>f
  <1>4. CASE BackendStep
    <2>1. UNCHANGED surface /\ (Present' => Present)
      BY <1>4, BackendQuiet, PresenceLost
    <2> QED
      BY <2>1 DEF Stages, surface
  <1>5. CASE RunCall
    <2>1. /\ UNCHANGED <<phase, shown, queue, frame, child>>
          /\ step' = "restoring" \/ step' = step
      BY <1>5 DEF RunCall
    <2> QED
      BY <2>1, <1>3 DEF Stages, Present
  <1>6. CASE Show
    <2>1. /\ phase = "idle" /\ phase' = "catchingUp" /\ step' = "subscribing" /\ frame' = frame
          /\ shown' = [shown EXCEPT !.previous = shown.latest]
      BY <1>6 DEF Show
    <2>2. shown'.previous = shown'.latest
      BY <2>1, <1>f
    <2> QED
      BY <2>1, <2>2 DEF Stages
  <1>7. CASE Restore
    <2>1. PICK number : /\ number = IF Present THEN latest ELSE 0
                        /\ shown' = [shown EXCEPT !.restored = number, !.active = Present]
      BY <1>7 DEF Restore
    <2>2. /\ UNCHANGED <<phase, queue, frame, child>> /\ step' \in {"ready", "reading"}
          /\ step = "restoring"
      BY <1>7 DEF Restore, backend
    <2>3. /\ shown'.latest = shown.latest /\ shown'.previous = shown.previous
          /\ shown'.active = Present /\ shown'.restored = number
      BY <2>1, <1>f
    <2> QED
      BY <2>1, <2>2, <2>3, <1>3 DEF Stages, Present
  <1>8. CASE ReadSnapshot
    <2>1. /\ UNCHANGED <<phase, queue, frame, child>> /\ step = "reading"
          /\ step' \in {"writing", "ready"}
          /\ shown' = [shown EXCEPT !.history = disk']
          /\ shown.active => (disk' + 1)..shown.restored \subseteq lost'
      BY <1>8 DEF ReadSnapshot, backend
    <2>2. /\ shown'.latest = shown.latest /\ shown'.previous = shown.previous
          /\ shown'.active = shown.active /\ shown'.restored = shown.restored
          /\ shown'.history = disk'
      BY <2>1, <1>f
    <2> QED
      BY <2>1, <2>2, <1>3 DEF Stages, Present
  <1>9. CASE WriteHistory
    <2>1. /\ UNCHANGED <<phase, shown, queue, frame, child>> /\ step = "writing" /\ step' = "ready"
      BY <1>9 DEF WriteHistory, backend
    <2> QED
      BY <2>1, <1>3 DEF Stages, Present
  <1>10. CASE Ready
    <2>1. phase' \in {"live", "idle"} /\ step' = "none" /\ queue' = <<>>
          /\ (phase' = "idle" => frame' = frame) /\ phase = "catchingUp"
      BY <1>10, <1>3 DEF Ready, GoLive, GoInactive
    <2> QED
      BY <2>1 DEF Stages
  <1>11. CASE CatchUpFails
    <2>1. phase' = "live" /\ step' = "none" /\ queue' = <<>>
      BY <1>11 DEF CatchUpFails
    <2> QED
      BY <2>1 DEF Stages
  <1>12. CASE HandleOutput
    <2>1. UNCHANGED <<phase, step, child>>
      BY <1>12 DEF HandleOutput, backend
    <2>2. CASE phase = "live"
      <3>1. queue' = queue
        BY <1>12, <2>2 DEF HandleOutput
      <3> QED
        BY <3>1, <2>1, <2>2, <1>3 DEF Stages
    <2>3. CASE phase # "live"
      <3>1. shown' = shown /\ frame' = frame /\ (phase # "catchingUp" => queue' = queue)
        BY <1>12, <2>3 DEF HandleOutput
      <3> QED
        BY <3>1, <2>1 DEF Stages, Present
    <2> QED
      BY <2>2, <2>3
  <1>13. CASE Frame
    <2>1. UNCHANGED <<phase, step, child, shown, queue>> /\ frame # <<>> /\ frame' = <<>>
      BY <1>13 DEF Frame, backend
    <2> QED
      BY <2>1 DEF Stages, Present
  <1>14. CASE Hide
    <2>1. phase' = "idle" /\ step' = "none" /\ queue' = <<>> /\ frame' = <<>>
      BY <1>14 DEF Hide
    <2> QED
      BY <2>1 DEF Stages
  <1> QED
    BY <1>4, <1>5, <1>6, <1>7, <1>8, <1>9, <1>10, <1>11, <1>12, <1>13, <1>14, NextSteps

(***************************************************************************)
(* Steps of the threads and of the process.                                *)
(***************************************************************************)
\* Nothing moves, and the reader is not done with another chunk.
LEMMA FlightStays ==
    ASSUME StreamAssumption, Typed, Flight, lost \subseteq lost',
           UNCHANGED <<pending, hands, queue, wire>>,
           Taken' = Taken, Attached' => Attached /\ Base' = Base
    PROVE  Flight'
  <1>1. FlightTyped /\ Taken \in Nat /\ Taken <= Taken
    BY TypedFlight
  <1>2. Moves(0)
    BY <1>1, NoneMoves DEF FlightTyped
  <1>3. Sorted'
    BY <1>1, <1>2, SortedMoves DEF Flight
  <1>4. Rest(0) \subseteq Rest(0)'
    BY <1>1, <1>2, RestMoves
  <1>5. ASSUME Attached'
        PROVE  Covered(Base, Rest(0), lost)'
    <2>1. Covered(Base, Rest(0), lost) /\ Base' = Base
      BY <1>5 DEF Flight
    <2> QED
      BY <2>1, <1>4 DEF Covered
  <1> QED
    BY <1>3, <1>5 DEF Flight

\* A thread takes what is pending, or it is lost.
LEMMA FlightTaken ==
    ASSUME StreamAssumption, Typed, Flight, NEW t \in Threads, NEW subscribed,
           FlushOrDiscard(t, subscribed), UNCHANGED <<queue, wire>>,
           Taken' = Taken, Attached' => Attached /\ Base' = Base
    PROVE  Flight'
  <1>1. FlightTyped /\ Taken \in Nat /\ Taken <= Taken
    BY TypedFlight
  <1>2. CASE subscribed
    <2>1. lost' = lost /\ Take(t)
      BY <1>2 DEF FlushOrDiscard
    <2>2. Sorted' /\ Rest(0) \subseteq Rest(0)'
      BY <1>1, <2>1, SortedTake DEF Flight
    <2>3. ASSUME Attached'
          PROVE  Covered(Base, Rest(0), lost)'
      <3>1. Covered(Base, Rest(0), lost) /\ Base' = Base
        BY <2>3 DEF Flight
      <3> QED
        BY <3>1, <2>1, <2>2 DEF Covered
    <2> QED
      BY <2>2, <2>3 DEF Flight
  <1>3. CASE ~subscribed
    <2>1. pending' = <<>> /\ hands' = hands /\ lost' = lost \cup ChunksOf(pending)
      BY <1>3 DEF FlushOrDiscard
    <2>2. Moves(0)
      BY <1>1, NoneMoves DEF FlightTyped
    <2>3. Sorted'
      BY <1>1, <2>1, <2>2, SortedMoves DEF Flight
    <2>4. Rest(0) \subseteq Rest(0)' \cup lost'
      <3>1. Arriving \in Nat /\ Arriving' = Arriving /\ \A i \in 1..Arriving : Arrival(i)' = Arrival(i)
        BY <1>1, <2>2, ArrivalTyped DEF Moves, FlightTyped
      <3> QED
        BY <2>1, <3>1 DEF Rest
    <2>5. ASSUME Attached'
          PROVE  Covered(Base, Rest(0), lost)'
      <3>1. Covered(Base, Rest(0), lost) /\ Base' = Base
        BY <2>5 DEF Flight
      <3> QED
        BY <3>1, <2>1, <2>4 DEF Covered
    <2> QED
      BY <2>3, <2>5 DEF Flight
  <1> QED
    BY <1>2, <1>3

LEMMA FlightBackend ==
    ASSUME StreamAssumption, Typed, Typed', Linked, Flight, lost \subseteq lost', BackendStep
    PROVE  Flight'
  <1>1. /\ FlightTyped /\ log \in 0..MaxChunks /\ log \in Nat /\ Taken \in Nat /\ Taken <= log
    BY TypedFlight DEF StreamAssumption
  <1>2. /\ UNCHANGED surface /\ queue' = queue /\ Attached' = Attached /\ Base' = Base
    BY BackendQuiet DEF surface, Attached, Base
  <1>3. {"reader", "ticker", "waiter"} \subseteq Threads
    BY DEF Threads
  <1>4. CASE \/ ReadChunk \/ PushRestore \/ CloseLog \/ LookAtEnd \/ ChildExits
             \/ LookBeforeRemoval \/ RemoveSession \/ RemoveSubscribers
    <2>1. UNCHANGED <<pending, hands, wire>>
      BY <1>4 DEF ReadChunk, PushRestore, CloseLog, LookAtEnd, ChildExits, LookBeforeRemoval,
         RemoveSession, RemoveSubscribers
    <2>2. Taken' = Taken
      BY <1>1, <1>4 DEF ReadChunk, PushRestore, CloseLog, LookAtEnd, ChildExits, LookBeforeRemoval,
         RemoveSession, RemoveSubscribers, Taken
    <2> QED
      BY <2>1, <2>2, <1>2, FlightStays
  <1>5. CASE LookForSubscribers
    <2>1. UNCHANGED <<pending, hands, wire, log>> /\ reader = "pushed"
      BY <1>5 DEF LookForSubscribers
    <2>2. CASE subs > 0
      <3>1. Taken' = Taken
        BY <1>5, <2>1, <2>2 DEF LookForSubscribers, Taken
      <3> QED
        BY <3>1, <2>1, <1>2, FlightStays
    <2>3. CASE ~(subs > 0)
      <3>1. subs = 0
        <4>1. subs \in 0..MaxShows
          BY DEF Typed, TypeOK
        <4> QED
          BY <4>1, <2>3 DEF StreamAssumption
      <3>2. Taken' = log /\ Taken = log - 1 /\ latest = log
        BY <1>1, <1>5, <2>1, <2>3 DEF LookForSubscribers, Taken, FlightTyped, Counted
      <3>3. Moves(0)
        BY <1>1, <1>2, <2>1, NoneMoves DEF FlightTyped
      <3>4. Sorted'
        BY <3>2, <3>3, <2>1, <1>1, SortedMoves DEF Flight
      <3>5. ASSUME Attached'
            PROVE  Covered(Base, Rest(0), lost)'
        <4>1. ~Present
          BY <2>3, <3>5, <1>2 DEF Attached, Linked
        <4>2. log \in lost'
          BY <1>5, <3>1, <3>2, <4>1 DEF LookForSubscribers
        <4>3. Rest(0) \subseteq Rest(0)'
          BY <3>3, <2>1, <1>1, RestMoves
        <4>4. Covered(Base, Rest(0), lost) /\ Base' = Base
          BY <3>5, <1>2 DEF Flight
        <4>5. ASSUME NEW n \in Nat, Base < n, n <= log
              PROVE  n \in Rest(0)' \cup lost'
          <5>1. n <= Taken \/ n = log
            BY <4>5, <3>2, <1>1
          <5> QED
            BY <5>1, <4>2, <4>3, <4>4, <4>5 DEF Covered
        <4> QED
          BY <4>4, <4>5, <3>2 DEF Covered
      <3> QED
        BY <3>4, <3>5 DEF Flight
    <2> QED
      BY <2>2, <2>3
  <1>6. CASE QueueChunk
    <2>1. /\ reader = "queue" /\ pending' = Append(pending, latest) /\ reader' \in {"flush", "idle"}
          /\ UNCHANGED <<log, hands, wire, lost>>
      BY <1>6 DEF QueueChunk, account
    <2>2. Taken = log - 1 /\ Taken' = log /\ latest = log /\ log > 0
      BY <2>1, <1>1 DEF Taken, FlightTyped, Counted
    <2>3. latest \in Chunks
      BY <2>2, <1>1 DEF Chunks
    <2>4. Sorted' /\ Rest(0) \cup {log} \subseteq Rest(0)'
      BY <2>1, <2>2, <2>3, <1>1, <1>2, SortedQueue DEF Flight
    <2>5. ASSUME Attached'
          PROVE  Covered(Base, Rest(0), lost)'
      <3>1. Covered(Base, Rest(0), lost) /\ Base' = Base
        BY <2>5, <1>2 DEF Flight
      <3>2. ASSUME NEW n \in Nat, Base < n, n <= log
            PROVE  n \in Rest(0)' \cup lost'
        <4>1. n <= Taken \/ n = log
          BY <3>2, <2>2, <1>1
        <4> QED
          BY <4>1, <3>1, <3>2, <2>1, <2>4 DEF Covered
      <3> QED
        BY <3>1, <3>2, <2>2 DEF Covered
    <2> QED
      BY <2>4, <2>5 DEF Flight
  <1>7. CASE FlushChunk \/ Tick
    <2>1. PICK t \in Threads : FlushOrDiscard(t, TRUE) /\ wire' = wire /\ Taken' = Taken
      <3>1. CASE FlushChunk
        BY <1>3, <3>1 DEF FlushChunk, FlushOrDiscard, Taken, account
      <3>2. CASE Tick
        BY <1>3, <3>2 DEF Tick, FlushOrDiscard, Taken, account
      <3> QED
        BY <3>1, <3>2, <1>7
    <2> QED
      BY <2>1, <1>2, FlightTaken
  <1>8. CASE ReaderEnds \/ ExitFlush
    <2>1. CASE ReaderEnds
      <3>1. FlushOrDiscard("reader", reader = "last") /\ wire' = wire /\ Taken' = Taken
        BY <2>1 DEF ReaderEnds, Taken
      <3> QED
        BY <3>1, <1>2, <1>3, FlightTaken
    <2>2. CASE ExitFlush
      <3>1. FlushOrDiscard("waiter", watched) /\ wire' = wire /\ Taken' = Taken
        BY <2>2 DEF ExitFlush, Taken
      <3> QED
        BY <3>1, <1>2, <1>3, FlightTaken
    <2> QED
      BY <2>1, <2>2, <1>8
  <1>9. CASE \E t \in Threads : Emit(t)
    <2>1. PICK t \in Threads : Emit(t)
      BY <1>9
    <2>2. Taken' = Taken
      BY <2>1 DEF Emit, Taken
    <2>4. Sorted' /\ Rest(0) \subseteq Rest(0)'
      BY <2>1, <2>2, <1>1, SortedEmit DEF Flight
    <2>5. ASSUME Attached'
          PROVE  Covered(Base, Rest(0), lost)'
      <3>1. Covered(Base, Rest(0), lost) /\ Base' = Base
        BY <2>5, <1>2 DEF Flight
      <3> QED
        BY <3>1, <2>2, <2>4 DEF Covered
    <2> QED
      BY <2>4, <2>5 DEF Flight
  <1> QED
    BY <1>4, <1>5, <1>6, <1>7, <1>8, <1>9 DEF BackendStep

\* More is logged, and the surface is as it was.
LEMMA PictureBackend ==
    ASSUME StreamAssumption, Typed, Typed', Picture, odd \subseteq odd', lost \subseteq lost', BackendStep
    PROVE  Picture'
  <1>1. /\ log \in 0..MaxChunks /\ latest \in 0..MaxChunks
        /\ log' \in 0..MaxChunks /\ latest' \in 0..MaxChunks /\ MaxChunks \in Nat
        /\ shown.latest \in 0..MaxChunks
    BY DEF Typed, TypeOK, StreamAssumption
  <1>2. /\ UNCHANGED <<phase, step, shown, frame, screen>> /\ Drawn' = Drawn /\ (Present' => Present)
    BY BackendQuiet, PresenceLost DEF surface, Drawn
  <1>3. log <= log' /\ latest <= latest'
    <2>1. (log' = log \/ log' = log + 1) /\ (latest' = latest \/ latest' = log)
      BY DEF BackendStep, ReadChunk, PushRestore, LookForSubscribers, QueueChunk, FlushChunk, Tick,
         Emit, CloseLog, LookAtEnd, ReaderEnds, ChildExits, LookBeforeRemoval, RemoveSession,
         RemoveSubscribers, ExitFlush
    <2>2. latest <= log
      BY TypedFlight
    <2> QED
      BY <2>1, <2>2, <1>1
  <1>5. Full => Full'
    <2>1. shown.latest <= latest => shown.latest <= latest'
      BY <1>1, <1>3
    <2>2. 1..log \subseteq 1..log'
      BY <1>1, <1>3
    <2> QED
      BY <2>1, <2>2, <1>2 DEF Full
  <1>6. Tight => Tight'
    <2>1. shown.latest < latest => shown.latest < latest'
      BY <1>1, <1>3
    <2>2. 1..latest \subseteq 1..latest'
      BY <1>1, <1>3
    <2>3. \A c, n : EndsAt(c, n, lost) => EndsAt(c, n, lost')
      BY ChainGrows
    <2>4. \A c : Chain(c, lost) => Chain(c, lost')
      BY ChainGrows
    <2>5. Level => Level'
      <3>1. ChunksOf(frame) \cup lost \subseteq ChunksOf(frame) \cup lost'
        OBVIOUS
      <3>2. \A c, n : EndsAt(c, n, ChunksOf(frame) \cup lost) => EndsAt(c, n, ChunksOf(frame) \cup lost')
        BY <3>1, ChainGrows
      <3> QED
        BY <3>2, <2>3, <1>2 DEF Level
    <2> QED
      BY <2>1, <2>2, <2>3, <2>4, <2>5, <1>2 DEF Tight
  <1> QED
    BY <1>5, <1>6 DEF Picture

(***************************************************************************)
(* Steps of the surface.                                                   *)
(***************************************************************************)
\* What a live surface has written is fed by what is on its way.
LEMMA LiveFed ==
    ASSUME StreamAssumption, Typed, Flight, Picture, phase = "live"
    PROVE  Writer(Live(shown.latest)) /\ Fed(Live(shown.latest), Rest(0), lost)
  <1> DEFINE s == Live(shown.latest)
  <1>1. /\ s.latest = shown.latest /\ s.frame = frame /\ s.odd = odd
        /\ shown.latest \in 0..MaxChunks
    BY DEF Live, Typed, TypeOK
  <1>2. Writer(s)
    BY <1>1, TypedFlight
  <1>3. Covered(shown.latest, Rest(0), lost)
    BY DEF Flight, Attached, Base
  <1>4. /\ shown.latest <= latest
        /\ 1..shown.latest \subseteq ChunksOf(screen \o frame) \cup lost
        /\ ChunksOf(screen \o frame) \subseteq 1..log
    BY DEF Picture, Full, Drawn
  <1>5. odd = {} => /\ Chain(screen \o frame, lost) /\ EndsAt(screen \o frame, shown.latest, lost)
                    /\ EndsAt(screen, shown.latest, ChunksOf(frame) \cup lost)
                    /\ Present => ChunksOf(screen \o frame) \subseteq 1..latest
    BY DEF Picture, Tight, Level, Drawn
  <1> HIDE DEF s
  <1>6. Fed(s, Rest(0), lost)
    BY <1>1, <1>3, <1>4, <1>5 DEF Fed
  <1> QED
    BY <1>2, <1>6 DEF s

\* So is one that has its history.
LEMMA ReadyFed ==
    ASSUME StreamAssumption, Typed, StreamInv, Stages, Flight, Picture, step = "ready", shown.active
    PROVE  Writer(Live(shown.restored)) /\ Fed(Live(shown.restored), Rest(0), lost)
  <1> DEFINE s == Live(shown.restored)
  <1>0. phase = "catchingUp" /\ frame = <<>> /\ Len(<<>>) = 0
    BY EmptySeq DEF StreamInv, Latest, Stages
  <1>1. /\ s.latest = shown.restored /\ s.frame = <<>> /\ s.odd = odd
        /\ shown.restored \in 0..MaxChunks
    BY <1>0 DEF Live, Typed, TypeOK
  <1>2. Writer(s)
    BY <1>1, TypedFlight
  <1>3. Covered(shown.restored, Rest(0), lost)
    BY <1>0 DEF Flight, Attached, Base
  <1>4. screen \o <<>> = screen /\ Drawn = screen
    <2>1. \A c \in Seq(Chunks) : c \o <<>> = c
      BY ConcatEmptySeq
    <2> QED
      BY <2>1, <1>0 DEF Typed, TypeOK, Drawn
  <1>5. /\ 1..shown.restored \subseteq ChunksOf(screen) \cup lost /\ ChunksOf(screen) \subseteq 1..log
        /\ shown.restored <= latest
    BY <1>4 DEF Picture, Full, Typed, Counted
  <1>6. odd = {} => /\ Chain(screen, lost) /\ EndsAt(screen, shown.restored, lost)
                    /\ Present => ChunksOf(screen) \subseteq 1..latest
    BY <1>4 DEF Picture, Tight
  <1>7. EndsAt(screen, shown.restored, lost) =>
          EndsAt(screen, shown.restored, ChunksOf(<<>>) \cup lost)
    BY EmptyOrder
  <1> HIDE DEF s
  <1>8. Fed(s, Rest(0), lost)
    BY <1>1, <1>3, <1>4, <1>5, <1>6, <1>7 DEF Fed
  <1> QED
    BY <1>2, <1>8 DEF s

\* One whose history could not be had is fed, as whatever was read since is lost.
LEMMA ResumedFed ==
    ASSUME StreamAssumption, Typed, Stages, Picture, phase = "catchingUp",
           NEW gone, gone = lost \cup (shown.latest + 1)..latest
    PROVE  Writer(Resumed) /\ Fed(Resumed, Rest(0), gone)
  <1>0. /\ frame = <<>> /\ screen \in Seq(Chunks) /\ lost \subseteq gone
        /\ shown.latest \in 0..MaxChunks /\ MaxChunks \in Nat /\ latest \in 0..MaxChunks
    BY DEF Stages, Typed, TypeOK, StreamAssumption
  <1>1. /\ Resumed.latest = shown.latest /\ Resumed.frame = <<>>
        /\ Resumed.odd = {} => odd = {} /\ (screen = <<>> \/ Last(screen) = shown.latest)
    BY <1>0 DEF Resumed, Live
  <1>2. Writer(Resumed) /\ Taken \in Nat /\ Taken <= latest
    BY TypedFlight
  <1>3. screen \o <<>> = screen /\ Drawn = screen
    <2>1. \A c \in Seq(Chunks) : c \o <<>> = c
      BY ConcatEmptySeq
    <2> QED
      BY <2>1, <1>0 DEF Drawn
  <1>4. Covered(shown.latest, Rest(0), gone)
    BY <1>0, <1>2 DEF Covered
  <1>5. /\ shown.latest <= latest /\ 1..shown.latest \subseteq ChunksOf(screen) \cup lost
        /\ ChunksOf(screen) \subseteq 1..log
    BY <1>3 DEF Picture, Full
  <1>6. ASSUME Resumed.odd = {}
        PROVE  /\ Chain(screen, gone) /\ EndsAt(screen, shown.latest, gone)
               /\ EndsAt(screen, shown.latest, ChunksOf(<<>>) \cup gone)
               /\ Present => ChunksOf(screen) \subseteq 1..latest
    <2>1. Chain(screen, lost) /\ (Present => ChunksOf(screen) \subseteq 1..latest)
      BY <1>1, <1>3, <1>6 DEF Picture, Tight
    <2>2. CASE screen = <<>>
      <3>1. LastOf(screen) = 0 /\ 1..shown.latest \subseteq gone /\ 0 + 1 = 1 /\ 0 <= shown.latest
        BY <2>2, <1>0, <1>5, EmptyOrder DEF LastOf
      <3> QED
        BY <3>1, <2>1, <1>0, ChainGrows DEF EndsAt
    <2>3. CASE screen # <<>>
      <3>1. LastOf(screen) = shown.latest
        BY <2>3, <1>1, <1>6 DEF LastOf, Last
      <3>2. (shown.latest + 1)..shown.latest = {} /\ shown.latest <= shown.latest
        BY <1>0
      <3> QED
        BY <3>1, <3>2, <2>1, <1>0, ChainGrows DEF EndsAt
    <2> QED
      BY <2>2, <2>3
  <1>7. Fed(Resumed, Rest(0), gone)
    BY <1>0, <1>1, <1>3, <1>4, <1>5, <1>6 DEF Fed
  <1> QED
    BY <1>2, <1>7

\* A surface that is live after it was fed has what it counts as seen.
LEMMA FedPicture ==
    ASSUME NEW s, NEW chunks, Fed(s, chunks, lost'),
           phase' = "live", step' = "none", shown'.latest = s.latest, frame' = s.frame,
           odd' = s.odd, UNCHANGED <<screen, log, latest, child>>
    PROVE  Picture'
  <1>1. Drawn' = screen \o s.frame /\ Present' = Present
    BY DEF Drawn, Present
  <1>2. /\ s.latest <= latest
        /\ 1..s.latest \subseteq ChunksOf(screen \o s.frame) \cup lost'
        /\ ChunksOf(screen \o s.frame) \subseteq 1..log
        /\ s.odd = {} => /\ Chain(screen \o s.frame, lost')
                         /\ EndsAt(screen \o s.frame, s.latest, lost')
                         /\ EndsAt(screen, s.latest, ChunksOf(s.frame) \cup lost')
                         /\ Present => ChunksOf(screen \o s.frame) \subseteq 1..latest
    BY DEF Fed
  <1>3. Full'
    BY <1>1, <1>2 DEF Full
  <1>4. odd' = {} => Tight'
    BY <1>1, <1>2 DEF Tight, Level
  <1> QED
    BY <1>3, <1>4 DEF Picture

\* Events went from the front, and what is behind them covers the rest.
LEMMA FlightMoves ==
    ASSUME StreamAssumption, Typed, Sorted, NEW k, Moves(k), UNCHANGED <<pending, hands>>,
           Taken' = Taken, lost \subseteq lost', Attached' => Covered(Base', Rest(k), lost')
    PROVE  Flight'
  <1>1. FlightTyped /\ Taken \in Nat /\ Taken <= Taken
    BY TypedFlight
  <1>2. Sorted' /\ Rest(k) \subseteq Rest(0)'
    BY <1>1, SortedMoves, RestMoves
  <1>3. ASSUME Attached'
        PROVE  Covered(Base, Rest(0), lost)'
    BY <1>2, <1>3 DEF Covered
  <1> QED
    BY <1>2, <1>3 DEF Flight

\* The events that waited are written, and the surface is live.
LEMMA AllWrittenStep ==
    ASSUME StreamAssumption, Typed, Sorted, lost \subseteq lost', NEW r, Writer(r),
           Fed(r, Rest(0), lost'),
           phase' = "live", step' = "none", queue' = <<>>,
           shown' = Seen(AllWritten(r, queue).latest),
           frame' = AllWritten(r, queue).frame, odd' = AllWritten(r, queue).odd,
           UNCHANGED <<log, latest, reader, child, pending, hands, wire, screen>>
    PROVE  Flight' /\ Picture'
  <1> DEFINE s == AllWritten(r, queue)
  <1>1. FlightTyped /\ screen \in Seq(Chunks)
    BY TypedFlight
  <1>2. Fed(s, Rest(Len(queue)), lost')
    BY <1>1, AllFed
  <1>3. shown'.latest = s.latest /\ frame' = s.frame /\ odd' = s.odd
    BY DEF Seen
  <1> HIDE DEF s
  <1>4. Picture'
    BY <1>2, <1>3, FedPicture
  <1>5. Moves(Len(queue))
    BY <1>1, QueueMoves DEF FlightTyped
  <1>6. Taken' = Taken /\ Base' = s.latest
    BY <1>3 DEF Taken, Base
  <1>7. Covered(Base', Rest(Len(queue)), lost')
    BY <1>2, <1>6 DEF Fed
  <1> QED
    BY <1>4, <1>5, <1>6, <1>7, FlightMoves

\* The history is there,
LEMMA LiveStep ==
    ASSUME StreamAssumption, Typed, StreamInv, Stages, Flight, Picture, Ready, shown.active
    PROVE  Flight' /\ Picture'
  <1>1. /\ step = "ready" /\ phase' = "live" /\ step' = "none" /\ queue' = <<>>
        /\ shown' = Seen(AllWritten(Live(shown.restored), queue).latest)
        /\ frame' = AllWritten(Live(shown.restored), queue).frame
        /\ odd' = AllWritten(Live(shown.restored), queue).odd
        /\ UNCHANGED <<log, latest, reader, child, pending, hands, wire, screen, lost>>
    BY DEF Ready, GoLive, backend
  <1>2. Sorted /\ Fed(Live(shown.restored), Rest(0), lost) /\ Writer(Live(shown.restored))
    BY <1>1, ReadyFed DEF Flight
  <1>3. Fed(Live(shown.restored), Rest(0), lost') /\ lost \subseteq lost'
    BY <1>1, <1>2
  <1> QED
    BY <1>1, <1>2, <1>3, AllWrittenStep

\* or could not be had.
LEMMA FailStep ==
    ASSUME StreamAssumption, Typed, StreamInv, Stages, Flight, Picture, CatchUpFails
    PROVE  Flight' /\ Picture'
  <1>1. /\ step # "none" /\ phase' = "live" /\ step' = "none" /\ queue' = <<>>
        /\ shown' = Seen(AllWritten(Resumed, queue).latest)
        /\ frame' = AllWritten(Resumed, queue).frame /\ odd' = AllWritten(Resumed, queue).odd
        /\ lost' = lost \cup (shown.latest + 1)..latest /\ lost \subseteq lost'
        /\ UNCHANGED <<log, latest, reader, child, pending, hands, wire, screen>>
    BY DEF CatchUpFails, backend
  <1>2. phase = "catchingUp" /\ Sorted
    BY <1>1 DEF StreamInv, Latest, Flight
  <1>3. PICK gone : gone = lost'
    OBVIOUS
  <1>4. Writer(Resumed) /\ Fed(Resumed, Rest(0), gone)
    BY <1>1, <1>2, <1>3, ResumedFed
  <1>5. Fed(Resumed, Rest(0), lost')
    BY <1>3, <1>4
  <1> QED
    BY <1>1, <1>2, <1>4, <1>5, AllWrittenStep

\* A live surface takes an event.
LEMMA OutputStep ==
    ASSUME StreamAssumption, Typed, Stages, Flight, Picture, HandleOutput, phase = "live",
           step = "none"
    PROVE  Flight' /\ Picture'
  <1>1. FlightTyped /\ screen \in Seq(Chunks) /\ queue = <<>>
    BY TypedFlight DEF Stages
  <1>2. Sorted /\ Fed(Live(shown.latest), Rest(0), lost) /\ Writer(Live(shown.latest))
    BY LiveFed DEF Flight
  <1> DEFINE s == Written(Live(shown.latest), Head(wire))
  <1>3. /\ phase' = "live" /\ step' = "none" /\ queue' = <<>> /\ wire # <<>> /\ wire' = Tail(wire)
        /\ shown' = Seen(s.latest)
        /\ frame' = s.frame /\ odd' = s.odd
        /\ UNCHANGED <<log, latest, reader, child, pending, hands, screen, lost>>
    BY <1>1 DEF HandleOutput, backend
  <1>4. Moves(1) /\ Arrival(1) = Head(wire)
    BY <1>1, <1>3, WireMoves DEF FlightTyped
  <1>5. 1 \in 1..Arriving /\ 1 - 1 = 0
    <2>1. 1 \in 0..Arriving /\ Arriving \in Nat
      BY <1>1, <1>4, ArrivalTyped DEF Moves, FlightTyped
    <2> QED
      BY <2>1
  <1>6. PICK k : k = 1
    OBVIOUS
  <1>7. Fed(s, Rest(1), lost)
    <2>1. k \in 1..Arriving /\ Fed(Live(shown.latest), Rest(k - 1), lost)
      BY <1>2, <1>5, <1>6
    <2>2. Fed(Written(Live(shown.latest), Arrival(k)), Rest(k), lost)
      BY <2>1, <1>1, <1>2, WrittenFed
    <2> QED
      BY <2>2, <1>4, <1>6
  <1>8. shown'.latest = s.latest
    BY <1>3 DEF Seen
  <1> HIDE DEF s
  <1>9. Picture'
    <2>1. Fed(s, Rest(1), lost')
      BY <1>3, <1>7
    <2> QED
      BY <2>1, <1>3, <1>8, FedPicture
  <1>10. Taken' = Taken /\ Base' = s.latest
    BY <1>3, <1>8 DEF Taken, Base
  <1>11. Covered(Base', Rest(1), lost') /\ lost \subseteq lost'
    BY <1>3, <1>7, <1>10 DEF Fed
  <1> QED
    BY <1>2, <1>3, <1>4, <1>9, <1>10, <1>11, FlightMoves

LEMMA FlightSurface ==
    ASSUME StreamAssumption, Typed, StreamInv, StreamInv', Linked, Stages, Flight, Picture,
           lost \subseteq lost',
           \/ RunCall \/ Show \/ Restore \/ ReadSnapshot \/ WriteHistory \/ Ready \/ CatchUpFails
           \/ HandleOutput \/ Frame \/ Hide
    PROVE  Flight'
  <1>1. /\ FlightTyped /\ Sorted /\ Filled /\ Taken \in Nat /\ Taken <= Taken /\ Taken <= latest
        /\ latest \in 0..MaxChunks
    BY TypedFlight DEF Flight, FlightTyped
  <1>2. (step # "none" => phase = "catchingUp") /\ (step' # "none" => phase' = "catchingUp")
    BY DEF StreamInv, Latest
  <1>f. shown \in [latest : 0..MaxChunks, previous : 0..MaxChunks, restored : 0..MaxChunks,
                   active : BOOLEAN, history : 0..MaxChunks]
    BY DEF Typed, TypeOK
  <1>3. Taken' = Taken
    BY DEF RunCall, Show, Restore, ReadSnapshot, WriteHistory, Ready, CatchUpFails, HandleOutput,
       Frame, Hide, backend, Taken
  <1>4. CASE RunCall
    <2>1. /\ calls # <<>> /\ phase' = phase /\ step' \in {"restoring", step}
          /\ pending' \in {pending, <<>>} /\ UNCHANGED <<hands, queue, wire>>
      BY <1>4 DEF RunCall
    <2>2. ~Attached'
      BY <2>1, <1>2 DEF Attached, Linked
    <2>3. Moves(0)
      BY <2>1, <1>1, NoneMoves
    <2>4. Sorted'
      BY <2>1, <2>3, <1>1, <1>3, SortedMoves
    <2> QED
      BY <2>2, <2>4 DEF Flight
  <1>5. CASE Show
    <2>1. UNCHANGED <<pending, hands, queue, wire>> /\ ~Attached'
      BY <1>5 DEF Show, backend, Attached
    <2> QED
      BY <2>1, <1>3, FlightStays
  <1>6. CASE Restore
    <2>1. PICK number : /\ number = IF Present THEN latest ELSE 0
                        /\ shown' = [shown EXCEPT !.restored = number, !.active = Present]
      BY <1>6 DEF Restore
    <2>2. UNCHANGED <<pending, hands, queue, wire, phase>> /\ step = "restoring"
      BY <1>6 DEF Restore, backend
    <2>3. shown'.active = Present /\ shown'.restored = number
      BY <2>1, <1>f
    <2>4. Moves(0)
      BY <2>2, <1>1, NoneMoves
    <2>5. ASSUME Attached'
          PROVE  Covered(Base', Rest(0), lost')
      <3>1. Base' = latest
        BY <2>1, <2>2, <2>3, <2>5, <1>2 DEF Attached, Base
      <3>2. \A n \in Nat : ~(latest < n /\ n <= Taken)
        <4>1. latest \in Nat
          BY <1>1 DEF StreamAssumption
        <4> QED
          BY <4>1, <1>1
      <3> QED
        BY <3>1, <3>2 DEF Covered
    <2> QED
      BY <2>2, <2>4, <2>5, <1>1, <1>3, FlightMoves
  <1>7. CASE ReadSnapshot
    <2>1. /\ UNCHANGED <<pending, hands, queue, wire, phase>> /\ step = "reading"
          /\ step' \in {"writing", "ready"} /\ shown' = [shown EXCEPT !.history = disk']
      BY <1>7 DEF ReadSnapshot, backend
    <2>2. shown'.active = shown.active /\ shown'.restored = shown.restored
      BY <2>1, <1>f
    <2>3. Attached' => Attached /\ Base' = Base
      BY <2>1, <2>2, <1>2 DEF Attached, Base
    <2> QED
      BY <2>1, <2>3, <1>3, FlightStays
  <1>8. CASE WriteHistory \/ Frame
    <2>1. UNCHANGED <<pending, hands, queue, wire, phase, shown>>
      BY <1>8 DEF WriteHistory, Frame, backend
    <2>2. Attached' => Attached /\ Base' = Base
      BY <2>1, <1>8, <1>2 DEF Attached, Base, WriteHistory, Frame
    <2> QED
      BY <2>1, <2>2, <1>3, FlightStays
  <1>9. CASE Ready
    <2>1. CASE shown.active
      BY <2>1, <1>9, LiveStep
    <2>2. CASE ~shown.active
      <3>1. /\ phase' = "idle" /\ step' = "none" /\ queue' = <<>>
            /\ UNCHANGED <<pending, hands, wire>>
        BY <2>2, <1>9 DEF Ready, GoInactive, backend
      <3>2. Moves(Len(queue)) /\ ~Attached'
        BY <3>1, <1>1, QueueMoves DEF Attached
      <3> QED
        BY <3>1, <3>2, <1>1, <1>3, FlightMoves
    <2> QED
      BY <2>1, <2>2
  <1>10. CASE CatchUpFails
    BY <1>10, FailStep
  <1>11. CASE HandleOutput
    <2>1. /\ wire # <<>> /\ wire' = Tail(wire)
          /\ UNCHANGED <<pending, hands, phase, step>>
      BY <1>11 DEF HandleOutput, backend
    <2>2. CASE phase = "live"
      BY <2>2, <1>2, <1>11, OutputStep
    <2>3. CASE phase = "catchingUp"
      <3>1. /\ shown' = shown /\ queue' = Enqueued(Head(wire))
            /\ lost' = IF Len(queue) < MaxQueue THEN lost
                       ELSE lost \cup ChunksOf(Head(Append(queue, Head(wire))))
        BY <2>3, <1>11 DEF HandleOutput
      <3>2. Attached' => Covered(Base', Rest(0), lost)
        BY <3>1, <2>1 DEF Attached, Base, Flight
      <3>3. CASE Len(queue) < MaxQueue
        <4>1. Moves(0)
          BY <3>1, <3>3, <2>1, <1>1, WaitMoves DEF Enqueued
        <4> QED
          BY <3>1, <3>2, <3>3, <4>1, <2>1, <1>1, <1>3, FlightMoves
      <3>4. CASE ~(Len(queue) < MaxQueue)
        <4>1. Moves(1) /\ ChunksOf(Arrival(1)) \subseteq lost'
          BY <3>1, <3>4, <2>1, <1>1, DropMoves DEF Enqueued
        <4>2. Rest(0) \subseteq Rest(1) \cup ChunksOf(Arrival(1))
          <5>1. Arriving \in Nat
            BY <1>1, ArrivalTyped
          <5>2. \A i \in 1..Arriving : i = 1 \/ 1 < i
            BY <5>1
          <5> QED
            BY <5>2 DEF Rest
        <4>3. Attached' => Covered(Base', Rest(1), lost')
          BY <3>2, <4>1, <4>2, <1>3 DEF Covered
        <4> QED
          BY <4>1, <4>3, <2>1, <1>1, <1>3, FlightMoves
      <3> QED
        BY <3>3, <3>4
    <2>4. CASE phase = "idle"
      <3>1. queue = <<>> /\ queue' = <<>> /\ ~Attached'
        BY <2>1, <2>4, <1>2, <1>11 DEF HandleOutput, Stages, Attached
      <3>2. Moves(1)
        BY <3>1, <2>1, <1>1, WireMoves
      <3> QED
        BY <3>1, <3>2, <2>1, <1>1, <1>3, FlightMoves
    <2> QED
      BY <2>2, <2>3, <2>4 DEF Typed, TypeOK
  <1>12. CASE Hide
    <2>1. /\ phase' = "idle" /\ step' = "none" /\ queue' = <<>>
          /\ UNCHANGED <<pending, hands, wire>>
      BY <1>12 DEF Hide, backend
    <2>2. Moves(Len(queue)) /\ ~Attached'
      BY <2>1, <1>1, QueueMoves DEF Attached
    <2> QED
      BY <2>1, <2>2, <1>1, <1>3, FlightMoves
  <1> QED
    BY <1>4, <1>5, <1>6, <1>7, <1>8, <1>9, <1>10, <1>11, <1>12

\* The chunks of the log, from the first.
LEMMA HistoryChain ==
    ASSUME NEW n \in Nat, n > 0, n <= MaxChunks, MaxChunks \in Nat, NEW h, h = [i \in 1..n |-> i]
    PROVE  /\ h \in EventTypes /\ ChunksOf(h) = 1..n /\ \A gone : Runs(h, gone)
           /\ Len(h) = n /\ h[1] = 1 /\ h[Len(h)] = n
  <1>1. h \in [1..n -> Chunks]
    BY DEF Chunks
  <1>2. h \in Seq(Chunks) /\ Len(h) = n
    BY <1>1, FunctionIsSeq
  <1>3. h # <<>>
    BY <1>2, EmptySeq
  <1>4. ASSUME NEW gone, NEW i \in 1..(n - 1)
        PROVE  Joins(h[i], h[i + 1], gone)
    <2>1. i \in 1..n /\ i + 1 \in 1..n
      OBVIOUS
    <2>2. h[i] = i /\ h[i + 1] = i + 1
      BY <2>1
    <2>3. i < i + 1 /\ (i + 1)..((i + 1) - 1) = {}
      OBVIOUS
    <2> QED
      BY <2>2, <2>3 DEF Joins
  <1>5. ChunksOf(h) = 1..n
    BY DEF ChunksOf
  <1>6. h \in EventTypes
    BY <1>2, <1>3 DEF EventTypes
  <1>7. ASSUME NEW gone
        PROVE  Runs(h, gone)
    BY <1>2, <1>4 DEF Runs
  <1>8. h[1] = 1 /\ h[Len(h)] = n
    <2>1. 1 \in 1..n /\ n \in 1..n
      OBVIOUS
    <2> QED
      BY <2>1, <1>2
  <1> QED
    BY <1>2, <1>5, <1>6, <1>7, <1>8

\* A chain without its end is one.
LEMMA ChainPrefix ==
    ASSUME NEW s \in Seq(Chunks), NEW e \in Seq(Chunks), NEW gone, Chain(s \o e, gone)
    PROVE  Chain(s, gone)
  <1> DEFINE d == s \o e
  <1>1. /\ Len(s) \in Nat /\ Len(e) \in Nat /\ Len(d) = Len(s) + Len(e)
        /\ \A i \in 1..Len(s) : d[i] = s[i]
    BY ConcatChunks
  <1>2. s # <<>> => 1 \in 1..Len(s) /\ Len(d) # 0
    BY <1>1, EmptySeq
  <1>3. d # <<>> <=> Len(d) # 0
    BY EmptySeq, ConcatChunks
  <1> HIDE DEF d
  <1>4. Runs(d, gone) /\ (d # <<>> => Joins(0, d[1], gone))
    BY DEF Chain, d
  <1>5. ASSUME NEW i \in 1..(Len(s) - 1)
        PROVE  Joins(s[i], s[i + 1], gone)
    <2>1. i \in 1..Len(s) /\ i + 1 \in 1..Len(s) /\ i \in 1..(Len(d) - 1)
      BY <1>1
    <2> QED
      BY <2>1, <1>1, <1>4 DEF Runs
  <1> QED
    BY <1>1, <1>2, <1>3, <1>4, <1>5 DEF Chain, Runs

LEMMA PictureHistory ==
    ASSUME StreamAssumption, Typed, StreamInv, Stages, Picture, WriteHistory
    PROVE  Picture'
  <1>1. /\ step = "writing" /\ step' = "ready" /\ phase = "catchingUp" /\ phase' = phase
        /\ UNCHANGED <<shown, frame, log, latest, child, odd, lost>> /\ frame = <<>>
    BY DEF WriteHistory, backend, account, StreamInv, Latest, Stages
  <1>2. /\ shown.latest \in 0..MaxChunks /\ shown.previous \in 0..MaxChunks
        /\ shown.restored \in 0..MaxChunks /\ shown.history \in 0..MaxChunks
        /\ MaxChunks \in Nat
    BY DEF Typed, TypeOK, StreamAssumption
  <1>3. /\ shown.active => (shown.history + 1)..shown.restored \subseteq lost
        /\ shown.history <= log /\ shown.restored <= latest
        /\ log \in 0..MaxChunks /\ latest \in 0..MaxChunks
    BY <1>1 DEF Stages, Typed, TypeOK, Counted
  <1>4. shown.previous = shown.latest
    BY <1>1 DEF Stages
  <1>5. PICK h : h = [i \in 1..shown.history |-> i]
    OBVIOUS
  <1>6. ASSUME shown.history # 0
        PROVE  /\ h \in EventTypes /\ ChunksOf(h) = 1..shown.history /\ Runs(h, lost)
               /\ Len(h) = shown.history /\ h[1] = 1 /\ h[Len(h)] = shown.history
    <2>1. shown.history \in Nat /\ shown.history <= MaxChunks /\ shown.history > 0
      BY <1>2, <1>6
    <2> QED
      BY <2>1, <1>2, <1>5, HistoryChain
  <1>7. h \in Seq(Chunks) /\ ChunksOf(h) = 1..shown.history
    <2>1. h \in [1..shown.history -> Chunks] /\ shown.history \in Nat
      BY <1>2, <1>5 DEF Chunks
    <2>2. ChunksOf(h) = 1..shown.history
      BY <1>5 DEF ChunksOf
    <2> QED
      BY <2>1, <2>2, FunctionIsSeq
  <1> DEFINE base == IF shown.previous > 0 THEN screen ELSE <<>>
  <1>8. base \in Seq(Chunks) /\ screen \in Seq(Chunks) /\ <<>> \in Seq(Chunks) /\ Len(<<>>) = 0
    BY EmptySeq DEF Typed, TypeOK
  <1>9. screen' = base \o h
    BY <1>5 DEF WriteHistory
  <1>10. \A c \in Seq(Chunks) : c \o <<>> = c
    BY ConcatEmptySeq
  <1>11. Drawn = screen
    BY <1>1, <1>8, <1>10 DEF Drawn
  <1>12. Drawn' = screen' /\ screen' \in Seq(Chunks)
    BY <1>1, <1>7, <1>8, <1>9, <1>10, ConcatChunks DEF Drawn
  <1>b. base = screen \/ (base = <<>> /\ shown.previous = 0)
    BY <1>2
  <1> HIDE DEF base
  <1>13. ChunksOf(screen') = ChunksOf(base) \cup 1..shown.history
    <2>1. ChunksOf(base \o h) = ChunksOf(base) \cup ChunksOf(h)
      BY <1>7, <1>8, ConcatChunks
    <2> QED
      BY <2>1, <1>7, <1>9
  <1>14. Full'
    <2>1. shown.latest <= latest /\ 1..shown.latest \subseteq ChunksOf(screen) \cup lost
          /\ ChunksOf(screen) \subseteq 1..log
      BY <1>11 DEF Picture, Full
    <2>2. 1..shown.latest \subseteq ChunksOf(screen') \cup lost
      <3>1. CASE base = screen
        BY <3>1, <2>1, <1>13
      <3>2. CASE shown.previous = 0
        BY <3>2, <1>4
      <3> QED
        BY <3>1, <3>2, <1>b
    <2>3. ChunksOf(base) \subseteq 1..log
      BY <1>b, <2>1, EmptyOrder
    <2>4. 1..shown.history \subseteq 1..log
      BY <1>2, <1>3
    <2>5. shown.active => 1..shown.restored \subseteq 1..shown.history \cup lost
      BY <1>2, <1>3
    <2>6. ChunksOf(screen') \subseteq 1..log
      BY <2>3, <2>4, <1>13
    <2>7. shown.active => 1..shown.restored \subseteq ChunksOf(screen') \cup lost
      BY <2>5, <1>13
    <2> QED
      BY <2>1, <2>2, <2>6, <2>7, <1>1, <1>12 DEF Full
  <1>15. ASSUME Tight
         PROVE  Tight'
    <2>1. Chain(base, lost)
      <3>1. Chain(screen, lost)
        BY <1>15, <1>11 DEF Tight
      <3>2. Chain(<<>>, lost)
        BY <1>8 DEF Chain, Runs
      <3> QED
        BY <3>1, <3>2, <1>b
    <2>2. shown.active => /\ shown.history <= shown.restored
                          /\ ChunksOf(screen) \subseteq 1..shown.restored
      BY <1>1, <1>15 DEF Tight
    <2>3. Chain(screen', lost) /\ (shown.active => EndsAt(screen', shown.restored, lost))
      <3>1. CASE shown.history = 0
        <4>1. screen' = base
          <5>1. h = <<>>
            <6>1. ~ \E i \in DOMAIN h : TRUE
              BY <3>1, <1>5
            <6>2. Len(h) \in Nat /\ DOMAIN h = 1..Len(h)
              BY <1>7, ChunkSeq
            <6>3. Len(h) = 0
              BY <6>1, <6>2
            <6> QED
              BY <6>3, <1>7, EmptySeq
          <5> QED
            BY <5>1, <1>8, <1>9, <1>10
        <4>2. ASSUME shown.active
              PROVE  EndsAt(base, shown.restored, lost)
          <5>1. ChunksOf(base) \subseteq 1..shown.restored /\ shown.restored \in Nat
            BY <4>2, <2>2, <1>b, <1>2, EmptyOrder
          <5>2. LastOf(base) \in Nat /\ LastOf(base) <= shown.restored
            BY <5>1, <1>8, LastNat
          <5>3. 1..shown.restored \subseteq lost
            BY <4>2, <3>1, <1>2, <1>3
          <5> QED
            BY <5>1, <5>2, <5>3 DEF EndsAt
        <4> QED
          BY <4>1, <4>2, <2>1
      <3>2. CASE shown.history # 0
        <4>1. Joins(LastOf(base), h[1], lost)
          BY <3>2, <1>6 DEF Joins
        <4>2. Chain(screen', lost) /\ LastOf(screen') = shown.history
          BY <4>1, <3>2, <2>1, <1>6, <1>8, <1>9, ChainConcat
        <4> QED
          BY <4>2, <2>2, <1>3 DEF EndsAt
      <3> QED
        BY <3>1, <3>2
    <2>4. shown.latest = 0 \/ shown.latest < latest \/ ~Present
      <3>1. CASE shown.active
        <4>1. shown.previous = 0 \/ shown.previous < shown.restored
          BY <3>1, <1>1 DEF Picture, Full
        <4> QED
          BY <4>1, <1>2, <1>3, <1>4
      <3>2. CASE ~shown.active
        BY <3>2, <1>1 DEF Stages
      <3> QED
        BY <3>1, <3>2
    <2>5. Present' = Present /\ (Present => shown.active)
      BY <1>1 DEF Present, Stages
    <2>6. Present => ChunksOf(screen') \subseteq 1..latest
      <3> SUFFICES ASSUME Present
                   PROVE  ChunksOf(base) \cup 1..shown.history \subseteq 1..latest
        BY <1>13
      <3>1. ChunksOf(screen) \subseteq 1..latest
        BY <1>15, <1>11 DEF Tight
      <3>2. ChunksOf(base) \subseteq 1..latest
        BY <3>1, <1>b, EmptyOrder
      <3>3. shown.history <= latest
        BY <2>2, <2>5, <1>2, <1>3
      <3> QED
        BY <3>2, <3>3, <1>2, <1>3
    <2> QED
      BY <2>3, <2>4, <2>5, <2>6, <1>1, <1>12 DEF Tight
  <1> QED
    BY <1>1, <1>14, <1>15 DEF Picture

LEMMA PictureSurface ==
    ASSUME StreamAssumption, Typed, StreamInv, StreamInv', Stages, Flight, Picture,
           odd \subseteq odd', lost \subseteq lost',
           \/ RunCall \/ Show \/ Restore \/ ReadSnapshot \/ WriteHistory \/ Ready \/ CatchUpFails
           \/ HandleOutput \/ Frame \/ Hide
    PROVE  Picture'
  <1>1. /\ shown.latest \in 0..MaxChunks /\ shown.previous \in 0..MaxChunks
        /\ shown.restored \in 0..MaxChunks /\ log \in 0..MaxChunks /\ latest \in 0..MaxChunks
        /\ MaxChunks \in Nat
    BY DEF Typed, TypeOK, StreamAssumption
  <1>2. shown.restored <= latest /\ latest <= log
    BY TypedFlight DEF Typed, Counted
  <1>3. (step # "none" => phase = "catchingUp") /\ (step' # "none" => phase' = "catchingUp")
    BY DEF StreamInv, Latest
  <1>f. shown \in [latest : 0..MaxChunks, previous : 0..MaxChunks, restored : 0..MaxChunks,
                   active : BOOLEAN, history : 0..MaxChunks]
    BY DEF Typed, TypeOK
  <1>4. screen \in Seq(Chunks) /\ frame \in Seq(Chunks) /\ \A c \in Seq(Chunks) : c \o <<>> = c
    BY ConcatEmptySeq DEF Typed, TypeOK
  <1>5. Full /\ (odd' = {} => odd = {} /\ Tight)
    BY DEF Picture
  <1>6. UNCHANGED <<log, latest, child>> /\ Present' = Present
    BY DEF RunCall, Show, Restore, ReadSnapshot, WriteHistory, Ready, CatchUpFails, HandleOutput,
       Frame, Hide, backend, Present
  <1>g. /\ \A c, n : EndsAt(c, n, lost) => EndsAt(c, n, lost')
        /\ \A c : Chain(c, lost) => Chain(c, lost')
        /\ \A c, n : EndsAt(c, n, ChunksOf(frame) \cup lost) => EndsAt(c, n, ChunksOf(frame) \cup lost')
    <2>1. ChunksOf(frame) \cup lost \subseteq ChunksOf(frame) \cup lost'
      OBVIOUS
    <2> QED
      BY <2>1, ChainGrows
  \* The screen stays, and so does what is counted as seen.
  <1>7. ASSUME shown'.latest = shown.latest, UNCHANGED <<screen, frame>>,
               phase' = "live" <=> phase = "live",
               step' \in {"reading", "writing", "ready"} => step' = step /\ shown' = shown
        PROVE  Picture'
    <2>0. Drawn' = Drawn
      BY <1>7 DEF Drawn
    <2>1. Full'
      BY <2>0, <1>5, <1>6, <1>7 DEF Full
    <2>2. Tight => Tight'
      <3>1. Level => Level'
        BY <2>0, <1>7, <1>g DEF Level
      <3> QED
        BY <2>0, <3>1, <1>6, <1>7, <1>g DEF Tight
    <2> QED
      BY <2>1, <2>2, <1>5 DEF Picture
  <1>8. CASE RunCall
    BY <1>7, <1>8 DEF RunCall
  <1>9. CASE Show
    <2>1. /\ phase' = "catchingUp" /\ step' = "subscribing" /\ phase = "idle"
          /\ shown' = [shown EXCEPT !.previous = shown.latest] /\ frame' = frame /\ screen' = screen
      BY <1>9 DEF Show
    <2>2. shown'.latest = shown.latest
      BY <2>1, <1>f
    <2> QED
      BY <1>7, <2>1, <2>2
  <1>10. CASE Restore
    <2>1. PICK number : /\ number = IF Present THEN latest ELSE 0
                        /\ shown' = [shown EXCEPT !.restored = number, !.active = Present]
                        /\ step' = IF shown.previous > 0 /\ number = shown.previous
                                   THEN "ready" ELSE "reading"
      BY <1>10 DEF Restore
    <2>2. /\ UNCHANGED <<phase, frame, screen, odd, lost>> /\ step = "restoring"
          /\ phase = "catchingUp" /\ frame = <<>> /\ Drawn' = Drawn
          /\ shown.previous = shown.latest
      BY <1>3, <1>10 DEF Restore, Drawn, Stages, account
    <2>3. /\ shown'.active = Present /\ shown'.restored = number /\ shown'.latest = shown.latest
          /\ shown'.previous = shown.previous
      BY <2>1, <1>f
    <2>4. Drawn = screen
      BY <2>2, <1>4 DEF Drawn
    <2>5. Full'
      <3>1. shown.latest <= latest /\ 1..shown.latest \subseteq ChunksOf(screen) \cup lost
        BY <2>4, <1>5 DEF Full
      <3>2. step' = "reading" /\ Present => shown.previous = 0 \/ shown.previous < number
        BY <2>1, <2>2, <3>1, <1>1
      <3>3. step' = "ready" => 1..number \subseteq ChunksOf(screen) \cup lost
        BY <2>1, <2>2, <3>1
      <3>4. step' \in {"ready", "reading"}
        BY <2>1
      <3> QED
        BY <2>2, <2>3, <3>1, <3>2, <3>3, <3>4, <1>5, <1>6 DEF Full
    <2>6. ASSUME Tight
          PROVE  Tight'
      <3>1. step' = "ready" /\ Present => EndsAt(screen, number, lost)
        <4>1. ASSUME step' = "ready", Present
              PROVE  number = shown.latest /\ shown.latest = latest /\ shown.latest # 0
          BY <2>1, <2>2, <4>1, <1>1
        <4> QED
          BY <2>2, <2>6, <4>1, <1>1 DEF Tight
      <3>2. step' # "writing"
        BY <2>1
      <3>3. step' = "reading" /\ Present => ChunksOf(screen) \subseteq 1..number
        BY <2>1, <2>4, <2>6 DEF Tight
      <3> QED
        BY <2>2, <2>3, <2>6, <3>1, <3>2, <3>3, <1>6 DEF Tight
    <2> QED
      BY <2>5, <2>6, <1>5 DEF Picture
  <1>11. CASE ReadSnapshot
    <2>1. /\ UNCHANGED <<phase, frame, screen>> /\ step = "reading" /\ Drawn' = Drawn
          /\ disk' > 0 => step' = "writing" /\ step' \in {"writing", "ready"}
          /\ step' \in {"writing", "ready"}
          /\ shown' = [shown EXCEPT !.history = disk']
          /\ shown.active => (disk' + 1)..shown.restored \subseteq lost'
          /\ (disk' > shown.restored /\ shown.active => "ahead" \in odd')
      BY <1>11 DEF ReadSnapshot, Drawn
    <2>d. disk' \in Nat
      <3>1. disk' \in {disk, log} /\ disk \in 0..MaxChunks /\ log \in 0..MaxChunks
        BY <1>11 DEF ReadSnapshot, Typed, TypeOK
      <3> QED
        BY <3>1
    <2>2. /\ shown'.latest = shown.latest /\ shown'.previous = shown.previous
          /\ shown'.active = shown.active /\ shown'.restored = shown.restored
          /\ shown'.history = disk'
      BY <2>1, <1>f
    <2>3. phase = "catchingUp" /\ Drawn = screen
      BY <2>1, <1>3, <1>4 DEF Stages, Drawn
    <2>4. step' = "ready" /\ shown.active => 1..shown.restored \subseteq lost'
      <3>1. step' = "ready" => disk' = 0
        BY <2>1, <2>d
      <3> QED
        BY <3>1, <2>1
    <2>5. Full'
      BY <2>1, <2>2, <2>4, <1>5, <1>6 DEF Full
    <2>6. ASSUME Tight, odd' = {}
          PROVE  Tight'
      <3>1. shown.active => disk' <= shown.restored
        BY <2>1, <2>d, <2>6, <1>1
      <3>2. shown.active => ChunksOf(screen) \subseteq 1..shown.restored
        BY <2>1, <2>6 DEF Tight
      <3>3. ASSUME step' = "ready", shown.active
            PROVE  EndsAt(screen, shown.restored, lost')
        <4>1. shown.restored \in Nat /\ LastOf(screen) \in Nat /\ LastOf(screen) <= shown.restored
          BY <3>2, <3>3, <1>1, <1>4, LastNat
        <4> QED
          BY <4>1, <3>3, <2>4 DEF EndsAt
      <3> QED
        BY <2>1, <2>2, <2>3, <2>6, <3>1, <3>2, <3>3, <1>6, <1>g DEF Tight
    <2> QED
      BY <2>5, <2>6, <1>5 DEF Picture
  <1>12. CASE WriteHistory
    BY <1>12, PictureHistory
  <1>13. CASE Ready
    <2>1. CASE shown.active
      BY <2>1, <1>13, LiveStep
    <2>2. CASE ~shown.active
      <3>1. /\ step = "ready" /\ phase = "catchingUp" /\ frame = <<>> /\ shown.restored = 0
        BY <2>2, <1>3, <1>13 DEF Ready, Stages
      <3>2. /\ phase' = "idle" /\ step' = "none" /\ frame' = frame /\ screen' = screen
            /\ shown' = Seen(shown.restored) /\ odd' = odd /\ lost' = lost
        BY <2>2, <1>13 DEF Ready, GoInactive
      <3>3. shown'.latest = 0 /\ Drawn' = Drawn
        BY <3>1, <3>2 DEF Drawn, Seen
      <3>4. Full'
        BY <3>2, <3>3, <1>1, <1>5, <1>6 DEF Full
      <3>5. Tight => Tight'
        BY <3>2, <3>3, <1>6 DEF Tight
      <3> QED
        BY <3>4, <3>5, <1>5 DEF Picture
    <2> QED
      BY <2>1, <2>2
  <1>14. CASE CatchUpFails
    BY <1>14, FailStep
  <1>15. CASE HandleOutput
    <2>1. UNCHANGED <<phase, step, screen>>
      BY <1>15 DEF HandleOutput
    <2>2. CASE phase = "live"
      BY <2>2, <1>3, <1>15, OutputStep
    <2>3. CASE phase # "live"
      <3>1. shown' = shown /\ frame' = frame
        BY <2>3, <1>15 DEF HandleOutput
      <3> QED
        BY <2>1, <2>3, <3>1, <1>7
    <2> QED
      BY <2>2, <2>3
  <1>16. CASE Frame
    <2>1. /\ frame # <<>> /\ screen' = screen \o frame /\ frame' = <<>>
          /\ UNCHANGED <<phase, step, shown, odd, lost>>
      BY <1>16 DEF Frame, account
    <2>2. phase = "live" /\ step = "none"
      BY <2>1, <1>3 DEF Stages
    <2>3. Drawn' = Drawn /\ screen' = Drawn
      <3>1. screen \o frame \in Seq(Chunks)
        BY <1>4, ConcatChunks
      <3> QED
        BY <2>1, <3>1, <1>4 DEF Drawn
    <2>4. Full'
      BY <2>1, <2>2, <2>3, <1>5, <1>6 DEF Full
    <2>5. Level => Level'
      BY <2>1, <2>3, EmptyOrder DEF Level
    <2>6. Tight => Tight'
      BY <2>1, <2>2, <2>3, <2>5, <1>6 DEF Tight
    <2> QED
      BY <2>4, <2>6, <1>5 DEF Picture
  <1>17. CASE Hide
    <2>1. /\ phase' = "idle" /\ step' = "none" /\ frame' = <<>> /\ screen' = screen
          /\ shown' = Seen(shown.latest) /\ lost' = lost \cup ChunksOf(frame)
      BY <1>17 DEF Hide
    <2>2. Drawn' = screen /\ shown'.latest = shown.latest
      BY <2>1, <1>4 DEF Drawn, Seen
    <2>3. ChunksOf(Drawn) = ChunksOf(screen) \cup ChunksOf(frame)
      BY <1>4, ConcatChunks DEF Drawn
    <2>4. Full'
      BY <2>1, <2>2, <2>3, <1>5, <1>6 DEF Full
    <2>5. ASSUME Tight
          PROVE  Tight'
      <3>1. Chain(screen, lost')
        <4>1. Chain(screen, lost)
          BY <2>5, <1>4, ChainPrefix DEF Tight, Drawn
        <4> QED
          BY <4>1, <1>g
      <3>2. Present => ChunksOf(screen) \subseteq 1..latest
        BY <2>3, <2>5 DEF Tight
      <3>3. phase = "live" => EndsAt(screen, shown.latest, lost')
        <4>1. ChunksOf(frame) \cup lost = lost'
          BY <2>1
        <4> QED
          BY <4>1, <2>5 DEF Tight, Level
      <3>4. phase # "live" => \/ shown.latest = 0 \/ EndsAt(screen, shown.latest, lost')
                              \/ shown.latest < latest \/ ~Present
        BY <2>5, <1>g DEF Tight
      <3> QED
        BY <2>1, <2>2, <3>1, <3>2, <3>3, <3>4, <1>6 DEF Tight
    <2> QED
      BY <2>4, <2>5, <1>5 DEF Picture
  <1> QED
    BY <1>8, <1>9, <1>10, <1>11, <1>12, <1>13, <1>14, <1>15, <1>16, <1>17

(***************************************************************************)
(* The theorems.                                                           *)
(***************************************************************************)
LEMMA SurfaceInit ==
    ASSUME StreamAssumption, Init
    PROVE  SurfaceInv
  <1>1. \A S : <<>> \in Seq(S) /\ Len(<<>>) = 0
    BY EmptySeq
  <1>2. Typed /\ StreamInv
    BY TypedInit, StreamInit
  <1>3. /\ phase = "idle" /\ step = "none" /\ queue = <<>> /\ wire = <<>> /\ pending = <<>>
        /\ frame = <<>> /\ screen = <<>> /\ shown.latest = 0 /\ latest = 0
        /\ \A t \in Threads : hands[t] = <<>>
    BY DEF Init, Seen
  <1>4. Linked /\ Stages
    BY <1>3 DEF Linked, Stages
  <1>5. Flight
    <2>1. Arriving = 0
      BY <1>1, <1>3 DEF Arriving
    <2>2. Sorted
      BY <1>3, <2>1, EmptyOrder DEF Sorted
    <2> QED
      BY <1>3, <2>2 DEF Flight, Attached
  <1>6. Picture
    <2>1. Drawn = <<>>
      <3>1. \A c \in Seq(Chunks) : c \o <<>> = c
        BY ConcatEmptySeq
      <3> QED
        BY <1>1, <1>3, <3>1 DEF Drawn
    <2>2. Chain(<<>>, lost)
      BY <1>1 DEF Chain, Runs
    <2> QED
      BY <1>3, <2>1, <2>2, EmptyOrder DEF Picture, Full, Tight
  <1> QED
    BY <1>2, <1>4, <1>5, <1>6 DEF SurfaceInv

LEMMA SurfaceStep ==
    ASSUME StreamAssumption, SurfaceInv, Next
    PROVE  SurfaceInv'
  <1>1. Typed /\ StreamInv /\ Linked /\ Stages /\ Flight /\ Picture
    BY DEF SurfaceInv
  <1>2. StreamInv' /\ Linked' /\ odd \subseteq odd' /\ lost \subseteq lost'
    BY <1>1, StreamStep, LinkedStep, AccountGrows
  <1>3. Stages'
    BY <1>1, <1>2, StagesStep
  <1>4. CASE BackendStep
    <2>1. UNCHANGED <<calls, surface>>
      BY <1>4, BackendQuiet
    <2>2. Typed'
      BY <1>1, <1>4, <2>1, BackendTyped DEF BackendStep
    <2>3. Flight'
      BY <1>1, <1>2, <1>4, <2>2, FlightBackend
    <2>4. Picture'
      BY <1>1, <1>2, <1>4, <2>2, PictureBackend
    <2> QED
      BY <1>2, <1>3, <2>2, <2>3, <2>4 DEF SurfaceInv
  <1>5. CASE \/ RunCall \/ Show \/ Restore \/ ReadSnapshot \/ WriteHistory \/ Ready \/ CatchUpFails
             \/ HandleOutput \/ Frame \/ Hide
    <2>1. Typed'
      BY <1>1, <1>2, <1>5, SurfaceTyped
    <2>2. Flight'
      BY <1>1, <1>2, <1>5, FlightSurface
    <2>3. Picture'
      BY <1>1, <1>2, <1>5, PictureSurface
    <2> QED
      BY <1>2, <1>3, <2>1, <2>2, <2>3 DEF SurfaceInv
  <1> QED
    BY <1>4, <1>5, NextSteps

LEMMA SurfaceStutters ==
    ASSUME SurfaceInv, UNCHANGED vars
    PROVE  SurfaceInv'
  <1>1. Typed' /\ StreamInv'
    <2>1. TypeOK'
      <3>1. TypeOK
        BY DEF SurfaceInv, Typed
      <3>2. /\ keeps' = keeps /\ log' = log /\ disk' = disk /\ latest' = latest
            /\ reader' = reader /\ child' = child /\ watched' = watched /\ subs' = subs
            /\ pending' = pending /\ hands' = hands /\ wire' = wire /\ calls' = calls
            /\ phase' = phase /\ step' = step /\ shown' = shown /\ queue' = queue
            /\ frame' = frame /\ screen' = screen /\ shows' = shows /\ lost' = lost
            /\ odd' = odd
        BY DEF vars, backend, surface, account
      <3> QED
        BY ZenonT(60), <3>1, <3>2 DEF TypeOK
    <2>2. Filled' /\ Begun' /\ Counted'
      BY DEF SurfaceInv, Typed, Filled, Begun, Counted, vars, backend, surface, account
    <2>3. StreamInv'
      BY DEF SurfaceInv, StreamInv, CallsTyped, Alternating, LastCall, Latest, Balanced,
         vars, backend, surface, account
    <2> QED
      BY <2>1, <2>2, <2>3 DEF Typed
  <1>2. Linked' /\ Stages'
    BY DEF SurfaceInv, Linked, Stages, Present, vars, backend, surface, account
  <1>3. Flight'
    BY DEF SurfaceInv, Flight, Sorted, Attached, Covered, Base, Rest, Taken, Arriving,
       Arrival, vars, backend, surface, account
  <1>4. Picture'
    BY DEF SurfaceInv, Picture, Full, Tight, Level, Drawn, Present, vars, backend, surface, account
  <1> QED
    BY <1>1, <1>2, <1>3, <1>4 DEF SurfaceInv

LEMMA SurfaceSafe == Spec => []SurfaceInv
  <1>1. Init => SurfaceInv
    BY StreamAssumption, SurfaceInit
  <1>2. SurfaceInv /\ [Next]_vars => SurfaceInv'
    BY StreamAssumption, SurfaceStep, SurfaceStutters
  <1> QED
    BY <1>1, <1>2, PTL DEF Spec

\* The variables have their types: no event is empty, and every counter stays in
\* its bound.
THEOREM StreamTyped == Spec => []TypeOK
  <1>1. SurfaceInv => TypeOK
    BY DEF SurfaceInv, Typed
  <1> QED
    BY <1>1, SurfaceSafe, PTL

\* Once everything has arrived a live surface has on its screen every chunk that
\* was given to the log, and nothing else, however many chunks there were and
\* however often it was hidden and shown between them, except for chunks that were
\* lost at one of the places of the code that may lose one: a file that is behind
\* the number asked for, as the writer still held the chunk back or there is no
\* log, an event overtaken by a later one, a full queue, a frame dropped when the
\* surface is hidden, a call that failed, or a session that is gone
\* (terminal-live-pipeline.ts, pty_session_manager.rs, tui_terminal.rs).
THEOREM NothingIsMissing == Spec => []NothingMissing
  <1>1. ASSUME SurfaceInv
        PROVE  NothingMissing
    <2> SUFFICES ASSUME AtRest
                 PROVE  OnScreen \subseteq 1..log /\ 1..log \subseteq OnScreen \cup lost
      BY DEF NothingMissing
    <2>1. Typed /\ Stages /\ Sorted /\ (Attached => Covered(Base, Rest(0), lost)) /\ Full
      BY <1>1 DEF SurfaceInv, Flight, Picture
    <2>2. /\ phase = "live" /\ queue = <<>> /\ wire = <<>> /\ frame = <<>> /\ pending = <<>>
          /\ (\A t \in Threads : hands[t] = <<>>) /\ reader \notin {"logged", "pushed", "queue"}
      BY <2>1 DEF AtRest, Stages
    <2>3. Rest(0) = {}
      <3>1. Len(<<>>) = 0
        BY EmptySeq
      <3>2. Arriving = 0
        BY <2>2, <3>1 DEF Arriving
      <3> QED
        BY <2>2, <3>2, EmptyOrder DEF Rest
    <2>4. Taken = log
      BY <2>2 DEF Taken
    <2>5. \A n \in Nat : shown.latest < n /\ n <= log => n \in lost
      BY <2>1, <2>2, <2>3, <2>4 DEF Attached, Base, Covered
    <2>6. shown.latest \in 0..MaxChunks /\ log \in 0..MaxChunks /\ MaxChunks \in Nat
      BY <2>1, StreamAssumption DEF Typed, TypeOK, StreamAssumption
    <2>7. Drawn = screen
      <3>1. \A c \in Seq(Chunks) : c \o <<>> = c
        BY ConcatEmptySeq
      <3> QED
        BY <3>1, <2>1, <2>2 DEF Drawn, Typed, TypeOK
    <2>8. 1..shown.latest \subseteq ChunksOf(screen) \cup lost /\ ChunksOf(screen) \subseteq 1..log
      BY <2>1, <2>7 DEF Full
    <2>9. \A n \in 1..log : n \in 1..shown.latest \/ (n \in Nat /\ shown.latest < n /\ n <= log)
      BY <2>6
    <2> QED
      BY <2>5, <2>8, <2>9 DEF OnScreen
  <1> QED
    BY <1>1, SurfaceSafe, PTL

\* Where nothing was doubled (odd), what is on the screen ascends without
\* repetition, except where a file that is written again begins from the start,
\* and every chunk it passes over was lost at one of the places above: comparing
\* the numbers of events and history never makes a hole of its own
\* (terminal-live-pipeline.ts, writeLiveEvent, writeHistory).
THEOREM ScreenIsContiguous == Spec => []Contiguous
  <1>1. ASSUME SurfaceInv
        PROVE  Contiguous
    <2> SUFFICES ASSUME odd = {}, NEW i \in DOMAIN screen
                 PROVE  Joins(IF i = 1 THEN 0 ELSE screen[i - 1], screen[i], lost)
      BY DEF Contiguous, Joins
    <2>1. Chain(Drawn, lost) /\ screen \in Seq(Chunks) /\ frame \in Seq(Chunks)
      BY <1>1 DEF SurfaceInv, Picture, Tight, Typed, TypeOK
    <2>2. Chain(screen, lost)
      BY <2>1, ChainPrefix DEF Drawn
    <2>3. Len(screen) \in Nat /\ DOMAIN screen = 1..Len(screen)
      BY <2>1, ChunkSeq
    <2>4. CASE i = 1
      <3>1. screen # <<>>
        BY <2>3, <2>4, EmptySeq
      <3> QED
        BY <3>1, <2>2, <2>4 DEF Chain
    <2>5. CASE i # 1
      <3>1. PICK j : j = i - 1
        OBVIOUS
      <3>2. j \in 1..(Len(screen) - 1) /\ j + 1 = i
        BY <2>3, <2>5, <3>1
      <3>3. Joins(screen[j], screen[j + 1], lost)
        BY <2>2, <3>2 DEF Chain, Runs
      <3> QED
        BY <2>5, <3>1, <3>2, <3>3
    <2> QED
      BY <2>4, <2>5
  <1> QED
    BY <1>1, SurfaceSafe, PTL
=============================================================================
