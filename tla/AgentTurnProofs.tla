--------------------------- MODULE AgentTurnProofs ---------------------------
(***************************************************************************)
(* What is proved of AgentTurn for any number of messages and of           *)
(* cancellations: its types, that no grace period is forgotten             *)
(* (GraceHasFinalizer), that the row follows the agent in an orderly       *)
(* session (LiveTurnShown, OrderlyQuietMeansIdle), and that the comments   *)
(* are those of the first turns and the commit prompts, as long as no      *)
(* message is sent during a turn (OrderlyFollowUpsSilent,                  *)
(* DeliveryCommented).                                                     *)
(***************************************************************************)
EXTENDS AgentTurn, TLAPS

(***************************************************************************)
(* The inductive invariant.                                                *)
(***************************************************************************)
\* An event that no statement of has been executed, and one that some have.
Fresh == {Started, Completed, EmptyError, Stopped, ActiveWork}
Rests == {<<"clear">>, <<"finalizer", "handler">>, <<"finalizer">>, <<"handler">>}

Programs == {<<>>} \cup Fresh \cup Rests

\* A thread is in the lock exactly while it is half-way through its event;
\* the command's thread only reports cancellations.
Shape ==
    /\ \A th \in Threads :
        /\ emit[th].todo \in Programs
        /\ lock = th <=> emit[th].todo \in Rests
    /\ emit["cancel"].todo \in {<<>>, Stopped, <<"clear">>}
    /\ ~Silent("stream") => emit["stream"].turn # 0

\* Ends are counted from 1, so none is NULL.
Stamped ==
    /\ 0 \notin finalizers
    /\ \A th \in Threads :
        emit[th].todo \in {<<"finalizer", "handler">>, <<"finalizer">>} => past.stamp # 0

ClosedIsIdle == ~Running => ~row.running

Todo == emit["stream"].todo

\* The row between two statements of an orderly session: it shows the turn
\* once its event is persisted, and is in a grace period or idle otherwise.
Follows ==
    Orderly /\ Running =>
        /\ Silent("cancel")
        /\ agent.turn = agent.busy
        /\ Todo \in {Started, ActiveWork} => agent.busy # 0
        /\ Todo \in Fresh \ {Started, ActiveWork} =>
              agent.busy = 0 /\ row.running /\ row.ended = 0
        /\ Todo \in Rests \ {<<"clear">>} => agent.busy = 0
        /\ Todo \in {<<>>, ActiveWork} /\ agent.busy # 0 => row.running /\ row.ended = 0
        /\ Todo = <<"clear">> => (row.running <=> agent.busy # 0)
        /\ Todo = Started => (row.running <=> row.ended # 0)
        /\ Todo \in {<<>>} \cup (Rests \ {<<"clear">>}) /\ agent.busy = 0 =>
              (row.running <=> row.ended # 0)

IInv ==
    /\ TypeOK
    /\ Shape
    /\ Stamped
    /\ ClosedIsIdle
    /\ GraceHasFinalizer
    /\ Follows

(***************************************************************************)
(* Lemmas: the events as sequences of statements.                          *)
(***************************************************************************)

\* What is left of an event after its next statement.
LEMMA Continues ==
    /\ Head(Started) = "run" /\ Tail(Started) = <<"clear">> /\ Len(Started) = 2
    /\ Head(Completed) = "record" /\ Tail(Completed) = <<"finalizer", "handler">>
    /\ Len(Completed) = 3
    /\ Head(EmptyError) = "record" /\ Tail(EmptyError) = <<"finalizer">>
    /\ Len(EmptyError) = 2
    /\ Head(Stopped) = "stop" /\ Tail(Stopped) = <<"clear">> /\ Len(Stopped) = 2
    /\ Head(ActiveWork) = "ensure" /\ Tail(ActiveWork) = <<>> /\ Len(ActiveWork) = 1
    /\ Head(<<"clear">>) = "clear" /\ Tail(<<"clear">>) = <<>> /\ Len(<<"clear">>) = 1
    /\ Head(<<"finalizer", "handler">>) = "finalizer"
    /\ Tail(<<"finalizer", "handler">>) = <<"handler">>
    /\ Len(<<"finalizer", "handler">>) = 2
    /\ Head(<<"finalizer">>) = "finalizer" /\ Tail(<<"finalizer">>) = <<>>
    /\ Len(<<"finalizer">>) = 1
    /\ Head(<<"handler">>) = "handler" /\ Tail(<<"handler">>) = <<>>
    /\ Len(<<"handler">>) = 1
  BY DEF Started, Completed, EmptyError, Stopped, ActiveWork

\* The events and their rests differ from each other.
LEMMA Distinct ==
    /\ \A p \in Fresh : p # <<>> /\ p \notin Rests
    /\ \A p \in Rests : p # <<>>
    /\ Programs \subseteq Seq(Statements)
    /\ Started \notin {Completed, EmptyError, Stopped, ActiveWork}
    /\ ActiveWork \notin {Started, Completed, EmptyError, Stopped}
    /\ Stopped \notin {Started, Completed, EmptyError, ActiveWork}
    /\ <<"clear">> \notin {<<"finalizer", "handler">>, <<"finalizer">>, <<"handler">>}
    /\ <<"handler">> \notin {<<"finalizer", "handler">>, <<"finalizer">>, <<"clear">>}
  <1>1. Programs \subseteq Seq(Statements)
    BY DEF Programs, Fresh, Rests, Started, Completed, EmptyError, Stopped, ActiveWork, Statements
  <1>2. \A p \in Rests : p # <<>>
    BY DEF Rests
  <1>3. \A p \in Fresh : p # <<>> /\ p \notin Rests
    BY Continues DEF Fresh, Rests
  <1> QED
    BY <1>1, <1>2, <1>3, Continues

\* What a statement finds in the event of its thread and leaves of it.
LEMMA Executed ==
    ASSUME TypeOK, Shape, NEW th \in Threads, NEW statement, Executes(th, statement)
    PROVE  LET p == emit[th].todo
               q == emit'[th].todo
           IN  /\ statement = "run" => p = Started /\ q = <<"clear">>
               /\ statement = "clear" => p = <<"clear">> /\ q = <<>>
               /\ statement = "record" =>
                     \/ p = Completed /\ q = <<"finalizer", "handler">>
                     \/ p = EmptyError /\ q = <<"finalizer">>
               /\ statement = "finalizer" =>
                     \/ p = <<"finalizer", "handler">> /\ q = <<"handler">>
                     \/ p = <<"finalizer">> /\ q = <<>>
               /\ statement = "handler" => p = <<"handler">> /\ q = <<>>
               /\ statement = "stop" => p = Stopped /\ q = <<"clear">>
               /\ statement = "ensure" => p = ActiveWork /\ q = <<>>
               /\ p \in Fresh \cup Rests
               /\ lock' = IF q = <<>> THEN "none" ELSE th
               /\ lock = IF p \in Rests THEN th ELSE "none"
               /\ \A o \in Threads : emit'[o].turn = emit[o].turn
               /\ \A o \in Threads \ {th} : emit'[o].todo = emit[o].todo
               /\ emit' \in [Threads -> [todo : Seq(Statements), turn : Nat]]
  <1> DEFINE p == emit[th].todo
             q == emit'[th].todo
  <1>1. emit \in [Threads -> [todo : Seq(Statements), turn : Nat]]
    BY DEF TypeOK
  <1>2. q = Tail(p) /\ p # <<>> /\ Head(p) = statement
    BY <1>1 DEF Executes, Silent
  <1>3. p \in Fresh \cup Rests
    BY <1>2 DEF Shape, Programs
  <1>4. /\ \A o \in Threads : emit'[o].turn = emit[o].turn
        /\ \A o \in Threads \ {th} : emit'[o].todo = emit[o].todo
    BY <1>1 DEF Executes
  <1>5. lock = IF p \in Rests THEN th ELSE "none"
    BY DEF Shape, Executes, Threads
  <1>6. lock' = IF Len(p) = 1 THEN "none" ELSE th
    BY DEF Executes
  <1>7. Len(p) = 1 <=> q = <<>>
    BY <1>2, <1>3, Continues DEF Fresh, Rests
  <1>8. /\ statement = "run" => p = Started /\ q = <<"clear">>
        /\ statement = "clear" => p = <<"clear">> /\ q = <<>>
        /\ statement = "record" =>
              \/ p = Completed /\ q = <<"finalizer", "handler">>
              \/ p = EmptyError /\ q = <<"finalizer">>
    BY <1>2, <1>3, Continues DEF Fresh, Rests
  <1>9. /\ statement = "finalizer" =>
              \/ p = <<"finalizer", "handler">> /\ q = <<"handler">>
              \/ p = <<"finalizer">> /\ q = <<>>
        /\ statement = "handler" => p = <<"handler">> /\ q = <<>>
        /\ statement = "stop" => p = Stopped /\ q = <<"clear">>
        /\ statement = "ensure" => p = ActiveWork /\ q = <<>>
    BY <1>2, <1>3, Continues DEF Fresh, Rests
  <1>10. q \in Seq(Statements)
    BY <1>1, <1>2
  <1>11. emit' \in [Threads -> [todo : Seq(Statements), turn : Nat]]
    BY <1>1, <1>2, <1>10 DEF Executes
  <1> QED
    BY <1>3, <1>4, <1>5, <1>6, <1>7, <1>8, <1>9, <1>11

\* Executing a statement keeps the lock with the threads half-way.
LEMMA ExecutedShape ==
    ASSUME TypeOK, Shape, NEW th \in Threads, NEW statement, Executes(th, statement)
    PROVE  Shape'
  <1> DEFINE p == emit[th].todo
             q == emit'[th].todo
  <1>1. statement \in {"run", "clear", "record", "finalizer", "handler", "stop", "ensure"}
    BY Continues DEF Shape, Programs, Fresh, Rests, Executes, Silent
  <1>2. q \in {<<>>} \cup Rests
    BY <1>1, Executed DEF Rests
  <1>3. q \in Rests <=> lock' = th
    BY <1>2, Executed, Distinct DEF Threads
  <1>4. ASSUME NEW o \in Threads \ {th}
        PROVE  emit'[o].todo \in Programs /\ (lock' = o <=> emit'[o].todo \in Rests)
    <2>1. emit'[o].todo = emit[o].todo /\ lock # o /\ lock' # o
      BY Executed DEF Threads
    <2> QED
      BY <2>1 DEF Shape
  <1>5. q \in Programs
    BY <1>2 DEF Programs
  <1>6. emit'["cancel"].todo \in {<<>>, Stopped, <<"clear">>}
    <2>1. CASE th = "cancel"
      <3>1. p \in {Stopped, <<"clear">>}
        BY <2>1 DEF Shape, Executes, Silent
      <3> QED
        BY <1>1, <2>1, <3>1, Executed, Continues DEF Executes
    <2>2. CASE th # "cancel"
      BY <2>2, Executed DEF Shape, Threads
    <2> QED
      BY <2>1, <2>2
  <1>7. ~(emit'["stream"].todo = <<>>) => emit'["stream"].turn # 0
    <2>1. CASE th = "stream"
      BY <2>1, Executed DEF Shape, Executes, Silent, Threads
    <2>2. CASE th # "stream"
      BY <2>2, Executed DEF Shape, Silent, Threads
    <2> QED
      BY <2>1, <2>2
  <1> QED
    BY <1>3, <1>4, <1>5, <1>6, <1>7 DEF Shape, Silent

\* A new event, of either thread, is a fresh one.
LEMMA Emitted ==
    ASSUME TypeOK, Shape, NEW th \in Threads, NEW p \in Fresh, NEW t \in Nat,
           Emit(th, p, t), lock' = lock,
           th = "cancel" => p = Stopped, th = "stream" => t # 0
    PROVE  /\ Shape'
           /\ emit' \in [Threads -> [todo : Seq(Statements), turn : Nat]]
           /\ emit[th].todo = <<>> /\ emit'[th].todo = p
           /\ \A o \in Threads \ {th} : emit'[o].todo = emit[o].todo
           /\ lock # th
  <1>1. emit \in [Threads -> [todo : Seq(Statements), turn : Nat]]
    BY DEF TypeOK
  <1>2. p \in Programs /\ p \notin Rests /\ p # <<>> /\ p \in Seq(Statements)
    BY Distinct DEF Programs
  <1>3. /\ emit' \in [Threads -> [todo : Seq(Statements), turn : Nat]]
        /\ emit[th].todo = <<>> /\ emit'[th].todo = p /\ emit'[th].turn = t
        /\ \A o \in Threads \ {th} : emit'[o] = emit[o]
    BY <1>1, <1>2 DEF Emit, Silent
  <1>4. lock # th
    BY <1>3, Distinct DEF Shape
  <1>5. Shape'
    BY <1>2, <1>3, <1>4 DEF Shape, Silent, Threads
  <1> QED
    BY <1>3, <1>4, <1>5

(***************************************************************************)
(* Types and shape.                                                        *)
(***************************************************************************)

\* The events are fresh.
LEMMA EndsFresh ==
    /\ Completed \in Fresh /\ EmptyError \in Fresh /\ Stopped \in Fresh
    /\ Started \in Fresh /\ ActiveWork \in Fresh
  BY DEF Fresh

\* Shape is inductive with the types.
LEMMA ShapeKept ==
    ASSUME TypeOK, Shape, Next
    PROVE  Shape' /\ emit' \in [Threads -> [todo : Seq(Statements), turn : Nat]]
  <1>0. "stream" \in Threads /\ "cancel" \in Threads
    BY DEF Threads
  <1>1. CASE StartTurn
    <2>1. past.started + 1 \in Nat /\ past.started + 1 # 0
      BY DEF TypeOK
    <2>2. Emit("stream", Started, past.started + 1) /\ lock' = lock
      BY <1>1 DEF StartTurn
    <2> QED
      BY <1>0, <2>1, <2>2, Emitted, EndsFresh
  <1>2. CASE Work
    <2>1. agent.busy \in Nat /\ agent.busy # 0
      BY <1>2 DEF TypeOK, Work
    <2>2. Emit("stream", ActiveWork, agent.busy) /\ lock' = lock
      BY <1>2 DEF Work
    <2> QED
      BY <1>0, <2>1, <2>2, Emitted, EndsFresh
  <1>3. ASSUME NEW p \in {Completed, EmptyError}, SpuriousEnd(p)
        PROVE  Shape' /\ emit' \in [Threads -> [todo : Seq(Statements), turn : Nat]]
    <2>1. agent.turn \in Nat /\ agent.turn # 0
      BY <1>3 DEF TypeOK, SpuriousEnd
    <2>2. Emit("stream", p, agent.turn) /\ lock' = lock
      BY <1>3 DEF SpuriousEnd
    <2> QED
      BY <1>0, <2>1, <2>2, Emitted, EndsFresh
  <1>4. ASSUME NEW end, NEW p \in {Completed, EmptyError, Stopped}, EndTurn(end, p)
        PROVE  Shape' /\ emit' \in [Threads -> [todo : Seq(Statements), turn : Nat]]
    <2>1. agent.busy \in Nat /\ agent.busy # 0
      BY <1>4 DEF TypeOK, EndTurn
    <2>2. Emit("stream", p, agent.busy) /\ lock' = lock
      BY <1>4 DEF EndTurn
    <2> QED
      BY <1>0, <2>1, <2>2, Emitted, EndsFresh
  <1>5. CASE CancelNothing
    <2>1. Emit("cancel", Stopped, 0) /\ lock' = lock
      BY <1>5 DEF CancelNothing
    <2> QED
      BY <1>0, <2>1, Emitted, EndsFresh
  <1>6. ASSUME NEW th \in Threads, Persists(th)
        PROVE  Shape' /\ emit' \in [Threads -> [todo : Seq(Statements), turn : Nat]]
    <2>1. PICK statement : Executes(th, statement)
      BY <1>6 DEF Persists, Run, Clear, Stop, Record, Ensure, SpawnFinalizer, SpawnHandler
    <2> QED
      BY <2>1, Executed, ExecutedShape
  <1>7. ASSUME emit' = emit, lock' = lock
        PROVE  Shape' /\ emit' \in [Threads -> [todo : Seq(Statements), turn : Nat]]
    BY <1>7 DEF Shape, TypeOK, Silent
  <1>8. CASE \/ \E source \in {"follow_up", "completion"} : Mark(source) \/ Send(source)
             \/ TakeUp \/ Interrupt \/ SessionEnds
             \/ \E e \in finalizers : Finalize(e)
             \/ \E h \in posting, tagged \in BOOLEAN : Post(h, tagged)
    BY <1>7, <1>8 DEF Mark, Send, TakeUp, Interrupt, SessionEnds, Finalize, Post
  <1> QED
    BY <1>1, <1>2, <1>3, <1>4, <1>5, <1>6, <1>8 DEF Next, Provides

\* The type invariant without the events, which ShapeKept types.
LEMMA TypesKept ==
    ASSUME TurnAssumption, TypeOK, Shape, Next
    PROVE  TypeOK'
  <1>0. emit' \in [Threads -> [todo : Seq(Statements), turn : Nat]]
    BY ShapeKept
  <1> USE DEF TypeOK
  <1>1. ASSUME NEW source \in {"follow_up", "completion"}, Mark(source)
        PROVE  TypeOK'
    <2>1. source \in Sources
      BY DEF Sources
    <2>2. past.sent + 1 \in 0..MaxMessages
      BY <1>1 DEF Mark, TurnAssumption
    <2>3. (IF Overlaps THEN {"overlap"} ELSE {}) \subseteq Deviations
      BY DEF Deviations
    <2> QED
      BY <1>0, <1>1, <2>1, <2>2, <2>3 DEF Mark, Odd
  <1>2. ASSUME NEW source \in {"follow_up", "completion"}, Send(source)
        PROVE  TypeOK'
    <2>1. source \in Sources
      BY DEF Sources
    <2>2. Append(agent.asked, source) \in Seq(Sources)
      BY <2>1
    <2>3. agent' \in [busy : Nat, turn : Nat, asked : Seq(Sources), interrupted : BOOLEAN]
      BY <1>2, <2>2 DEF Send
    <2>4. sending' \subseteq Sources
      BY <1>2 DEF Send
    <2> QED
      BY <1>0, <1>2, <2>3, <2>4 DEF Send
  <1>3. CASE StartTurn
    <2>1. Head(agent.asked) \in Sources /\ Tail(agent.asked) \in Seq(Sources)
      BY <1>3 DEF StartTurn
    <2>2. past.started + 1 \in Nat
      OBVIOUS
    <2> QED
      BY <1>0, <1>3, <2>1, <2>2 DEF StartTurn
  <1>4. CASE TakeUp
    <2>1. Tail(agent.asked) \in Seq(Sources)
      BY <1>4 DEF TakeUp
    <2> QED
      BY <1>0, <1>4, <2>1 DEF TakeUp
  <1>5. CASE Work
    BY <1>0, <1>5 DEF Work
  <1>6. ASSUME NEW p \in {Completed, EmptyError}, SpuriousEnd(p)
        PROVE  TypeOK'
    <2>1. {"spurious"} \subseteq Deviations
      BY DEF Deviations
    <2> QED
      BY <1>0, <1>6, <2>1 DEF SpuriousEnd, Odd
  <1>7. ASSUME NEW end \in {"completed", "canceled", "failed"},
               NEW p \in {Completed, EmptyError, Stopped}, EndTurn(end, p)
        PROVE  TypeOK'
    BY <1>0, <1>7 DEF EndTurn
  <1>8. CASE Interrupt
    BY <1>0, <1>8 DEF Interrupt
  <1>9. CASE CancelNothing
    <2>1. {"late_cancel"} \subseteq Deviations
      BY DEF Deviations
    <2>2. past.cancels + 1 \in 0..MaxCancels
      BY <1>9 DEF CancelNothing, TurnAssumption
    <2> QED
      BY <1>0, <1>9, <2>1, <2>2 DEF CancelNothing, Odd
  <1>10. ASSUME NEW th \in Threads, Persists(th)
         PROVE  TypeOK'
    <2>1. past.stamp + 1 \in Nat
      OBVIOUS
    <2>2. PICK statement : Executes(th, statement)
      BY <1>10 DEF Persists, Run, Clear, Stop, Record, Ensure, SpawnFinalizer, SpawnHandler
    <2>3. lock' \in Threads \cup {"none"} /\ UNCHANGED <<agent, sending, comments>>
      BY <2>2 DEF Executes
    <2>4. CASE Run(th) \/ Clear(th) \/ Stop(th) \/ Record(th) \/ Ensure(th)
      <3>1. row' \in [status : {"running", "stopped"}, running : BOOLEAN,
                     ended : Nat, source : Sources]
        <4>1. CASE Run(th)
          BY <4>1 DEF Run
        <4>2. CASE Clear(th)
          BY <4>2 DEF Clear
        <4>3. CASE Stop(th)
          BY <4>3 DEF Stop
        <4>4. CASE Record(th)
          BY <4>4, <2>1 DEF Record
        <4>5. CASE Ensure(th)
          <5>1. row' = row \/ row' = [row EXCEPT !.running = TRUE, !.ended = 0]
            BY <4>5 DEF Ensure
          <5>2. ASSUME row' = [row EXCEPT !.running = TRUE, !.ended = 0]
                PROVE  row' \in [status : {"running", "stopped"}, running : BOOLEAN,
                                ended : Nat, source : Sources]
            BY <5>2
          <5> QED
            BY <5>1, <5>2
        <4> QED
          BY <2>4, <4>1, <4>2, <4>3, <4>4, <4>5
      <3>2. past' = past \/ past' = [past EXCEPT !.stamp = @ + 1]
        BY <2>4 DEF Run, Clear, Stop, Record, Ensure
      <3>3. past' \in [origin : [Turns -> Sources \cup {"none"}],
                      end : [Turns -> {"none", "completed", "canceled", "failed"}],
                      odd : SUBSET Deviations, started : Nat, stamp : Nat,
                      sent : 0..MaxMessages, cancels : 0..MaxCancels]
        BY <2>1, <3>2
      <3>4. UNCHANGED <<finalizers, posting>>
        BY <2>4 DEF Run, Clear, Stop, Record, Ensure
      <3> QED
        BY <1>0, <2>3, <3>1, <3>3, <3>4
    <2>5. CASE SpawnFinalizer(th)
      BY <1>0, <2>3, <2>5 DEF SpawnFinalizer
    <2>6. CASE SpawnHandler(th)
      <3>1. emit[th].todo = <<"handler">>
        BY <2>6, Executed DEF SpawnHandler
      <3>2. th = "stream"
        BY <3>1, Distinct, Continues DEF Shape, Threads, Rests
      <3>3. emit[th].turn \in Nat \ {0}
        BY <3>1, <3>2, Distinct DEF Shape, Silent, Threads, Rests
      <3>4. [turn |-> emit[th].turn, source |-> row.source]
              \in [turn : Nat \ {0}, source : Sources]
        BY <3>3
      <3>5. posting' \subseteq [turn : Nat \ {0}, source : Sources]
        BY <2>6, <3>4 DEF SpawnHandler
      <3> QED
        BY <1>0, <2>3, <2>6, <3>5 DEF SpawnHandler
    <2> QED
      BY <1>10, <2>4, <2>5, <2>6 DEF Persists
  <1>11. ASSUME NEW e \in finalizers, Finalize(e)
         PROVE  TypeOK'
    <2>1. (IF InStart THEN {"cut"} ELSE {}) \subseteq Deviations
      BY DEF Deviations
    <2>2. past' \in [origin : [Turns -> Sources \cup {"none"}],
                    end : [Turns -> {"none", "completed", "canceled", "failed"}],
                    odd : SUBSET Deviations, started : Nat, stamp : Nat,
                    sent : 0..MaxMessages, cancels : 0..MaxCancels]
      <3>1. past' = past \/ past' = Odd(IF InStart THEN {"cut"} ELSE {})
        BY <1>11 DEF Finalize
      <3> DEFINE d == IF InStart THEN {"cut"} ELSE {}
      <3>2. d \subseteq Deviations
        BY <2>1
      <3> HIDE DEF d
      <3>3. [past EXCEPT !.odd = past.odd \cup d]
              \in [origin : [Turns -> Sources \cup {"none"}],
                  end : [Turns -> {"none", "completed", "canceled", "failed"}],
                  odd : SUBSET Deviations, started : Nat, stamp : Nat,
                  sent : 0..MaxMessages, cancels : 0..MaxCancels]
        BY <3>2
      <3>4. past' = past \/ past' = [past EXCEPT !.odd = past.odd \cup d]
        BY <3>1 DEF Odd, d
      <3> QED
        BY <3>3, <3>4
    <2>3. row' \in [status : {"running", "stopped"}, running : BOOLEAN,
                   ended : Nat, source : Sources]
      <3>1. row' = row \/ row' = [row EXCEPT !.running = FALSE, !.ended = 0]
        BY <1>11 DEF Finalize
      <3>2. ASSUME row' = [row EXCEPT !.running = FALSE, !.ended = 0]
            PROVE  row' \in [status : {"running", "stopped"}, running : BOOLEAN,
                            ended : Nat, source : Sources]
        BY <3>2
      <3> QED
        BY <3>1, <3>2
    <2>4. finalizers' \subseteq Nat
      BY <1>11 DEF Finalize
    <2> QED
      BY <1>0, <1>11, <2>2, <2>3, <2>4 DEF Finalize
  <1>12. ASSUME NEW h \in posting, NEW tagged \in BOOLEAN, Post(h, tagged)
         PROVE  TypeOK'
    BY <1>0, <1>12 DEF Post
  <1>13. CASE SessionEnds
    <2>1. <<>> \in Seq(Sources)
      OBVIOUS
    <2>2. agent' \in [busy : Nat, turn : Nat, asked : Seq(Sources), interrupted : BOOLEAN]
      BY <1>13, <2>1 DEF SessionEnds
    <2> QED
      BY <1>0, <1>13, <2>2 DEF SessionEnds
  <1>14. CASE Provides
    BY <1>3, <1>4, <1>5, <1>6, <1>7, <1>14 DEF Provides
  <1> QED
    BY ONLY Next, <1>1, <1>2, <1>14, <1>8, <1>9, <1>10, <1>11, <1>12, <1>13 DEF Next

(***************************************************************************)
(* No grace period is forgotten.                                           *)
(***************************************************************************)

\* The steps that persist nothing: the provider's, the commands', the posts'.
Outside ==
    \/ \E source \in {"follow_up", "completion"} : Mark(source) \/ Send(source)
    \/ Provides \/ Interrupt \/ CancelNothing
    \/ \E h \in posting, tagged \in BOOLEAN : Post(h, tagged)

\* They leave the turn in the row, the tasks and the thread in the lock alone.
LEMMA OutsideKeeps ==
    ASSUME TypeOK, Shape, Outside
    PROVE  /\ row'.status = row.status /\ row'.running = row.running
           /\ row'.ended = row.ended
           /\ finalizers' = finalizers /\ lock' = lock /\ past'.stamp = past.stamp
           /\ \A th \in Threads : ~Silent(th) => emit'[th] = emit[th]
           /\ \A th \in Threads : Silent(th) => emit'[th].todo \in {<<>>} \cup Fresh
  <1>0. "stream" \in Threads /\ "cancel" \in Threads
    BY DEF Threads
  <1>1. /\ row'.status = row.status /\ row'.running = row.running
        /\ row'.ended = row.ended /\ finalizers' = finalizers /\ lock' = lock
    <2>1. CASE \E source \in {"follow_up", "completion"} : Mark(source)
      <3>1. PICK source \in {"follow_up", "completion"} : Mark(source)
        BY <2>1
      <3> QED
        BY <3>1 DEF Mark, TypeOK
    <2>2. CASE ~ \E source \in {"follow_up", "completion"} : Mark(source)
      BY <2>2 DEF Outside, Send, Provides, Interrupt, CancelNothing, Post, StartTurn,
                  TakeUp, Work, SpuriousEnd, EndTurn
    <2> QED
      BY <2>1, <2>2
  <1>2. past'.stamp = past.stamp
    BY DEF Outside, Mark, Send, Provides, Interrupt, CancelNothing, Post, StartTurn,
           TakeUp, Work, SpuriousEnd, EndTurn, Odd, TypeOK
  <1>3. \/ emit' = emit
        \/ \E th \in Threads, p \in Fresh : \E t : Emit(th, p, t)
    BY <1>0, EndsFresh
       DEF Outside, Mark, Send, Provides, Interrupt, CancelNothing, Post, StartTurn,
           TakeUp, Work, SpuriousEnd, EndTurn
  <1>4. ASSUME NEW th \in Threads, NEW p \in Fresh, NEW t, Emit(th, p, t)
        PROVE  /\ \A o \in Threads : ~Silent(o) => emit'[o] = emit[o]
               /\ \A o \in Threads : Silent(o) => emit'[o].todo \in {<<>>} \cup Fresh
    BY <1>4 DEF Emit, TypeOK, Silent
  <1>5. CASE emit' = emit
    BY <1>1, <1>2, <1>5 DEF Silent
  <1> QED
    BY <1>1, <1>2, <1>3, <1>4, <1>5

\* Ends are counted from 1 and a closed session is in no turn.
LEMMA StampedKept ==
    ASSUME TypeOK, Shape, Stamped, ClosedIsIdle, Next
    PROVE  Stamped' /\ ClosedIsIdle'
  <1>1. CASE Outside
    <2>1. \A th \in Threads : emit[th].todo \notin Rests => emit'[th].todo \notin Rests
      BY <1>1, OutsideKeeps, Distinct DEF Silent
    <2>2. \A th \in Threads : emit[th].todo \in Rests => emit'[th].todo = emit[th].todo
      BY <1>1, OutsideKeeps, Distinct DEF Silent
    <2> QED
      BY <1>1, <2>1, <2>2, OutsideKeeps DEF Stamped, ClosedIsIdle, Running, Rests
  <1>2. ASSUME NEW th \in Threads, Run(th) \/ Clear(th) \/ Stop(th) \/ Ensure(th)
        PROVE  Stamped' /\ ClosedIsIdle'
    <2>1. PICK statement \in {"run", "clear", "stop", "ensure"} : Executes(th, statement)
      BY <1>2 DEF Run, Clear, Stop, Ensure
    <2>2. finalizers' = finalizers /\ past' = past
      BY <1>2 DEF Run, Clear, Stop, Ensure
    <2>3. emit'[th].todo \in {<<>>, <<"clear">>}
      BY <2>1, Executed
    <2>4. Stamped'
      BY <2>1, <2>2, <2>3, Executed, Distinct DEF Stamped, Rests
    <2>5. ClosedIsIdle'
      BY <1>2 DEF Run, Clear, Stop, Ensure, ClosedIsIdle, Running, TypeOK
    <2> QED
      BY <2>4, <2>5
  <1>3. ASSUME NEW th \in Threads, Record(th)
        PROVE  Stamped' /\ ClosedIsIdle'
    <2>1. past.stamp \in Nat /\ past'.stamp = past.stamp + 1 /\ finalizers' = finalizers
      BY <1>3 DEF Record, TypeOK
    <2>2. Stamped'
      BY <2>1 DEF Stamped
    <2>3. ClosedIsIdle'
      BY <1>3 DEF Record, ClosedIsIdle, Running, TypeOK
    <2> QED
      BY <2>2, <2>3
  <1>4. ASSUME NEW th \in Threads, SpawnFinalizer(th) \/ SpawnHandler(th)
        PROVE  Stamped' /\ ClosedIsIdle'
    <2>1. PICK statement \in {"finalizer", "handler"} : Executes(th, statement)
      BY <1>4 DEF SpawnFinalizer, SpawnHandler
    <2>2. finalizers' = finalizers \/ finalizers' = finalizers \cup {past.stamp}
      BY <1>4 DEF SpawnFinalizer, SpawnHandler
    <2>3. past' = past /\ row' = row
      BY <1>4 DEF SpawnFinalizer, SpawnHandler
    <2>4. ASSUME finalizers' # finalizers
          PROVE  past.stamp # 0
      <3>1. SpawnFinalizer(th)
        BY <1>4, <2>4 DEF SpawnHandler
      <3> QED
        BY <3>1, Executed DEF SpawnFinalizer, Stamped
    <2>5. emit'[th].todo \in {<<>>, <<"handler">>}
      BY <2>1, Executed
    <2>6. Stamped'
      BY <2>1, <2>2, <2>3, <2>4, <2>5, Executed, Distinct DEF Stamped, Rests
    <2>7. ClosedIsIdle'
      BY <2>3 DEF ClosedIsIdle, Running
    <2> QED
      BY <2>6, <2>7
  <1>5. ASSUME NEW e \in finalizers, Finalize(e)
        PROVE  Stamped' /\ ClosedIsIdle'
    <2>1. past'.stamp = past.stamp /\ emit' = emit /\ finalizers' \subseteq finalizers
      BY <1>5 DEF Finalize, Odd, TypeOK
    <2>2. row' = row \/ ~row'.running
      BY <1>5 DEF Finalize, TypeOK
    <2> QED
      BY <2>1, <2>2 DEF Stamped, ClosedIsIdle, Running
  <1>6. CASE SessionEnds
    BY <1>6 DEF SessionEnds, Stamped, ClosedIsIdle, Running, TypeOK
  <1>7. CASE \E th \in Threads : Persists(th)
    BY <1>2, <1>3, <1>4, <1>7 DEF Persists
  <1> QED
    BY <1>1, <1>5, <1>6, <1>7 DEF Next, Outside

\* The invariant of the grace period is inductive.
LEMMA GraceKept ==
    ASSUME TypeOK, Shape, ClosedIsIdle, GraceHasFinalizer, Next
    PROVE  GraceHasFinalizer'
  <1>1. CASE Outside
    <2>1. \A th \in Threads : lock = th => emit'[th] = emit[th]
      BY <1>1, OutsideKeeps, Distinct DEF Shape, Silent
    <2>2. lock' = lock /\ past'.stamp = past.stamp /\ finalizers' = finalizers
          /\ row'.running = row.running /\ row'.ended = row.ended
      BY <1>1, OutsideKeeps
    <2> QED
      BY <2>1, <2>2 DEF GraceHasFinalizer, At, Silent
  <1>2. ASSUME NEW th \in Threads, Run(th)
        PROVE  GraceHasFinalizer'
    <2>1. emit'[th].todo = <<"clear">> /\ lock' = th
      BY <1>2, Executed, Distinct DEF Run, Rests
    <2>2. At("clear")'
      BY <2>1, Continues, Distinct DEF At, Silent, Rests
    <2> QED
      BY <2>2 DEF GraceHasFinalizer
  <1>3. ASSUME NEW th \in Threads, Clear(th)
        PROVE  GraceHasFinalizer'
    BY <1>3 DEF Clear, GraceHasFinalizer, TypeOK
  <1>4. ASSUME NEW th \in Threads, Stop(th)
        PROVE  GraceHasFinalizer'
    <2>1. ~row'.running
      BY <1>4 DEF Stop, ClosedIsIdle, Running, TypeOK
    <2> QED
      BY <2>1 DEF GraceHasFinalizer
  <1>5. ASSUME NEW th \in Threads, Record(th)
        PROVE  GraceHasFinalizer'
    <2>1. emit'[th].todo \in {<<"finalizer", "handler">>, <<"finalizer">>} /\ lock' = th
      BY <1>5, Executed, Distinct DEF Record, Rests
    <2>2. At("finalizer")'
      BY <2>1, Continues, Distinct DEF At, Silent, Rests
    <2>3. row'.running => row'.ended = past'.stamp
      BY <1>5 DEF Record, ClosedIsIdle, Running, TypeOK
    <2> QED
      BY <2>2, <2>3 DEF GraceHasFinalizer
  <1>6. ASSUME NEW th \in Threads, SpawnFinalizer(th)
        PROVE  GraceHasFinalizer'
    <2>1. finalizers' = finalizers \cup {past.stamp} /\ row' = row /\ past' = past
      BY <1>6 DEF SpawnFinalizer
    <2>2. ~At("clear")
      <3>1. lock = th /\ Head(emit[th].todo) = "finalizer"
        BY <1>6, Executed, Continues DEF SpawnFinalizer, Rests
      <3> QED
        BY <3>1 DEF At
    <2> QED
      BY <2>1, <2>2 DEF GraceHasFinalizer
  <1>7. ASSUME NEW th \in Threads, SpawnHandler(th) \/ Ensure(th)
        PROVE  GraceHasFinalizer'
    <2>1. ~At("clear") /\ ~At("finalizer")
      <3>1. CASE SpawnHandler(th)
        <4>1. lock = th /\ Head(emit[th].todo) = "handler"
          BY <3>1, Executed, Continues DEF SpawnHandler, Rests
        <4> QED
          BY <4>1 DEF At
      <3>2. CASE Ensure(th)
        <4>1. lock = "none"
          BY <3>2, Executed, Distinct DEF Ensure, Fresh
        <4> QED
          BY <4>1 DEF At, Threads
      <3> QED
        BY <1>7, <3>1, <3>2
    <2>2. finalizers' = finalizers
      BY <1>7 DEF SpawnHandler, Ensure
    <2>3. row' = row \/ row' = [row EXCEPT !.running = TRUE, !.ended = 0]
      BY <1>7 DEF SpawnHandler, Ensure
    <2>4. row'.ended = 0 \/ (row'.ended = row.ended /\ row'.running = row.running)
      BY <2>3 DEF TypeOK
    <2> QED
      BY <2>1, <2>2, <2>4 DEF GraceHasFinalizer
  <1>8. ASSUME NEW e \in finalizers, Finalize(e)
        PROVE  GraceHasFinalizer'
    <2>1. CASE Finalizes(e)
      BY <1>8, <2>1 DEF Finalize, GraceHasFinalizer, TypeOK
    <2>2. CASE ~Finalizes(e)
      <3>1. finalizers' = finalizers \ {e} /\ row' = row /\ past' = past
            /\ emit' = emit /\ lock' = lock
        BY <1>8, <2>2 DEF Finalize
      <3>2. row.running => row.ended # e
        BY <2>2 DEF Finalizes, ClosedIsIdle
      <3> QED
        BY <3>1, <3>2 DEF GraceHasFinalizer, At, Silent
    <2> QED
      BY <2>1, <2>2
  <1>9. CASE SessionEnds
    BY <1>9 DEF SessionEnds, GraceHasFinalizer, TypeOK
  <1>10. CASE \E th \in Threads : Persists(th)
    BY <1>2, <1>3, <1>4, <1>5, <1>6, <1>7, <1>10 DEF Persists
  <1> QED
    BY <1>1, <1>8, <1>9, <1>10 DEF Next, Outside

(***************************************************************************)
(* The row follows the agent in an orderly session.                        *)
(***************************************************************************)

\* A deviation is never taken back.
LEMMA OddGrows ==
    ASSUME TypeOK, Next
    PROVE  past.odd \subseteq past'.odd
  <1>1. past.odd \in SUBSET Deviations
    BY DEF TypeOK
  <1>2. \A source : Mark(source) => past'.odd = past.odd \cup (IF Overlaps THEN {"overlap"} ELSE {})
    BY DEF Mark, Odd, TypeOK
  <1>3. \A e : Finalize(e) => past'.odd = past.odd
                             \/ past'.odd = past.odd \cup (IF InStart THEN {"cut"} ELSE {})
    BY DEF Finalize, Odd, TypeOK
  <1>4. Provides \/ CancelNothing => past.odd \subseteq past'.odd
    <2>1. StartTurn => past'.odd = past.odd
      BY DEF StartTurn, TypeOK
    <2>2. TakeUp \/ Work => past'.odd = past.odd
      BY DEF TakeUp, Work
    <2>3. \A p : SpuriousEnd(p) => past'.odd = past.odd \cup {"spurious"}
      BY DEF SpuriousEnd, Odd, TypeOK
    <2>4. \A end, p : EndTurn(end, p) => past'.odd = past.odd
      BY DEF EndTurn, TypeOK
    <2>5. CancelNothing => past'.odd = past.odd \cup {"late_cancel"}
      BY DEF CancelNothing, Odd, TypeOK
    <2> QED
      BY <2>1, <2>2, <2>3, <2>4, <2>5 DEF Provides
  <1>5. \A th : Persists(th) => past'.odd = past.odd
    BY DEF Persists, Run, Clear, Stop, Record, Ensure, SpawnFinalizer, SpawnHandler, TypeOK
  <1> QED
    BY <1>2, <1>3, <1>4, <1>5 DEF Next, Send, Interrupt, Post, SessionEnds

\* Neither an orderly nor an open session comes after one that is not.
LEMMA OrderlyBefore ==
    ASSUME TypeOK, Next, Orderly', Running'
    PROVE  Orderly /\ Running
  <1>1. past.odd \subseteq past'.odd
    BY OddGrows
  <1>2. Running
    <2>1. \A source : Mark(source) => row'.status = row.status
      BY DEF Mark, TypeOK
    <2>2. Provides \/ CancelNothing => row'.status = row.status
      BY DEF Provides, CancelNothing, StartTurn, TakeUp, Work, SpuriousEnd, EndTurn
    <2>3. \A th : Persists(th) => row'.status = row.status
      BY DEF Persists, Run, Clear, Stop, Record, Ensure, SpawnFinalizer, SpawnHandler, TypeOK
    <2>4. \A e : Finalize(e) => row'.status = row.status
      BY DEF Finalize, TypeOK
    <2> QED
      BY <2>1, <2>2, <2>3, <2>4 DEF Next, Send, Interrupt, Post, SessionEnds, Running
  <1> QED
    BY <1>1, <1>2 DEF Orderly

\* What the row shows between two statements is inductive in an orderly session.
LEMMA FollowsKept ==
    ASSUME TypeOK, Shape, Stamped, ClosedIsIdle, Follows, Next
    PROVE  Follows'
  <1>1. SUFFICES ASSUME Orderly', Running'
                 PROVE  Follows'
    BY DEF Follows
  <1>2. Orderly /\ Running
    BY <1>1, OrderlyBefore
  <1>0. "stream" \in Threads /\ "cancel" \in Threads
    BY DEF Threads
  <1>3. ASSUME emit' = emit, agent'.busy = agent.busy, agent'.turn = agent.turn,
               row'.running = row.running, row'.ended = row.ended
        PROVE  Follows'
    BY <1>2, <1>3 DEF Follows, Silent, Todo
  <1>4. CASE \/ \E source \in {"follow_up", "completion"} : Mark(source) \/ Send(source)
             \/ TakeUp \/ Interrupt
             \/ \E h \in posting, tagged \in BOOLEAN : Post(h, tagged)
    <2>1. emit' = emit
      BY <1>4 DEF Mark, Send, TakeUp, Interrupt, Post
    <2>2. agent'.busy = agent.busy /\ agent'.turn = agent.turn
      BY <1>4 DEF Mark, Send, TakeUp, Interrupt, Post, TypeOK
    <2>3. row'.running = row.running /\ row'.ended = row.ended
      BY <1>4 DEF Mark, Send, TakeUp, Interrupt, Post, TypeOK
    <2> QED
      BY <1>3, <2>1, <2>2, <2>3
  <1>5. CASE StartTurn
    <2>1. /\ agent.busy = 0 /\ agent'.busy = past.started + 1 /\ agent'.turn = agent'.busy
          /\ row' = row
      BY <1>5 DEF StartTurn, TypeOK
    <2>2. emit["stream"].todo = <<>> /\ emit'["stream"].todo = Started
          /\ emit'["cancel"].todo = emit["cancel"].todo
      BY <1>0, <1>5 DEF StartTurn, Emit, Silent, TypeOK
    <2>3. agent'.busy # 0
      BY <2>1 DEF TypeOK
    <2> QED
      BY <1>2, <2>1, <2>2, <2>3, Distinct, EndsFresh, Continues
         DEF Follows, Silent, Todo, Fresh, Rests
  <1>6. CASE Work
    <2>1. agent.busy # 0 /\ agent' = agent /\ row' = row
      BY <1>6 DEF Work
    <2>2. emit["stream"].todo = <<>> /\ emit'["stream"].todo = ActiveWork
          /\ emit'["cancel"].todo = emit["cancel"].todo
      BY <1>0, <1>6 DEF Work, Emit, Silent, TypeOK
    <2> QED
      BY <1>2, <2>1, <2>2, Distinct, EndsFresh, Continues
         DEF Follows, Silent, Todo, Fresh, Rests
  <1>7. ASSUME NEW p \in {Completed, EmptyError}, SpuriousEnd(p)
        PROVE  FALSE
    BY <1>1, <1>7 DEF SpuriousEnd, Odd, Orderly, TypeOK
  <1>8. ASSUME NEW end, NEW p \in {Completed, EmptyError, Stopped}, EndTurn(end, p)
        PROVE  Follows'
    <2>1. agent.busy # 0 /\ agent'.busy = 0 /\ agent'.turn = 0 /\ row' = row
      BY <1>8 DEF EndTurn, TypeOK
    <2>2. emit["stream"].todo = <<>> /\ emit'["stream"].todo = p
          /\ emit'["cancel"].todo = emit["cancel"].todo
      BY <1>0, <1>8 DEF EndTurn, Emit, Silent, TypeOK
    <2>3. p \in Fresh /\ p \notin {Started, ActiveWork} /\ p \notin Rests /\ p # <<>>
      BY Distinct, EndsFresh
    <2>4. p # <<"clear">>
      BY <2>3 DEF Rests
    <2> QED
      BY <1>2, <2>1, <2>2, <2>3, <2>4 DEF Follows, Silent, Todo
  <1>9. CASE CancelNothing
    BY <1>1, <1>9 DEF CancelNothing, Odd, Orderly, TypeOK
  <1>10. ASSUME NEW th \in Threads, Persists(th)
         PROVE  Follows'
    <2>1. th = "stream"
      BY <1>2, <1>10
         DEF Follows, Persists, Run, Clear, Stop, Record, Ensure, SpawnFinalizer,
             SpawnHandler, Executes, Threads
    <2>2. PICK statement : Executes(th, statement)
      BY <1>10 DEF Persists, Run, Clear, Stop, Record, Ensure, SpawnFinalizer, SpawnHandler
    <2>3. agent' = agent /\ emit'["cancel"].todo = emit["cancel"].todo
      BY <1>0, <2>1, <2>2, Executed DEF Executes
    <2>4. Silent("cancel")'
      BY <1>2, <2>3 DEF Follows, Silent
    <2>5. agent'.turn = agent'.busy
      BY <1>2, <2>3 DEF Follows
    <2>6. CASE Run(th)
      <3>1. Todo = Started /\ Todo' = <<"clear">>
        BY <2>1, <2>6, Executed DEF Run, Todo
      <3>2. row'.running
        BY <1>2, <2>6 DEF Run, TypeOK
      <3>3. agent.busy # 0
        BY <1>2, <3>1 DEF Follows
      <3> QED
        BY <2>3, <2>4, <2>5, <3>1, <3>2, <3>3, Distinct, EndsFresh DEF Follows, Rests
    <2>7. CASE Clear(th)
      <3>1. Todo = <<"clear">> /\ Todo' = <<>>
        BY <2>1, <2>7, Executed DEF Clear, Todo
      <3>2. row'.running = row.running /\ row'.ended = 0
        BY <2>7 DEF Clear, TypeOK
      <3>3. row.running <=> agent.busy # 0
        BY <1>2, <3>1 DEF Follows
      <3> QED
        BY <2>3, <2>4, <2>5, <3>1, <3>2, <3>3, Distinct, Continues, EndsFresh DEF Follows, Rests
    <2>8. CASE Stop(th)
      <3>1. Todo = Stopped /\ Todo' = <<"clear">>
        BY <2>1, <2>8, Executed DEF Stop, Todo
      <3>2. ~row'.running
        BY <1>2, <2>8 DEF Stop, TypeOK
      <3>3. agent.busy = 0
        BY <1>2, <3>1, Distinct, EndsFresh DEF Follows
      <3> QED
        BY <2>3, <2>4, <2>5, <3>1, <3>2, <3>3, Distinct, EndsFresh DEF Follows, Rests
    <2>9. CASE Record(th)
      <3>1. Todo \in {Completed, EmptyError}
            /\ Todo' \in {<<"finalizer", "handler">>, <<"finalizer">>}
        BY <2>1, <2>9, Executed DEF Record, Todo
      <3>2. agent.busy = 0 /\ row.running
        BY <1>2, <3>1, Distinct, EndsFresh DEF Follows
      <3>3. row'.running = row.running /\ row'.ended = past.stamp + 1
        BY <1>2, <2>9 DEF Record, TypeOK
      <3>4. row'.ended # 0
        BY <3>3 DEF TypeOK
      <3> QED
        BY <2>3, <2>4, <2>5, <3>1, <3>2, <3>3, <3>4, Distinct, EndsFresh DEF Follows, Rests
    <2>10. CASE SpawnFinalizer(th) \/ SpawnHandler(th)
      <3>1. Todo \in Rests \ {<<"clear">>} /\ Todo' \in {<<>>, <<"handler">>}
        BY <2>1, <2>10, Executed, Distinct DEF SpawnFinalizer, SpawnHandler, Todo, Rests
      <3>2. agent.busy = 0 /\ (row.running <=> row.ended # 0)
        BY <1>2, <3>1 DEF Follows
      <3>3. row' = row
        BY <2>10 DEF SpawnFinalizer, SpawnHandler
      <3> QED
        BY <2>3, <2>4, <2>5, <3>1, <3>2, <3>3, Distinct, EndsFresh DEF Follows, Rests
    <2>11. CASE Ensure(th)
      <3>1. Todo = ActiveWork /\ Todo' = <<>>
        BY <2>1, <2>11, Executed DEF Ensure, Todo
      <3>2. agent.busy # 0 /\ row.running /\ row.ended = 0
        BY <1>2, <3>1 DEF Follows
      <3>3. row' = row
        BY <2>11, <3>2 DEF Ensure
      <3> QED
        BY <2>3, <2>4, <2>5, <3>1, <3>2, <3>3, Distinct, EndsFresh DEF Follows, Rests
    <2> QED
      BY <1>10, <2>6, <2>7, <2>8, <2>9, <2>10, <2>11 DEF Persists
  <1>11. ASSUME NEW e \in finalizers, Finalize(e)
         PROVE  Follows'
    <2>1. agent' = agent /\ emit' = emit
      BY <1>11 DEF Finalize
    <2>2. CASE ~Finalizes(e)
      BY <1>3, <1>11, <2>1, <2>2 DEF Finalize
    <2>3. CASE Finalizes(e)
      <3>1. row.running /\ row.ended # 0
        BY <2>3 DEF Finalizes, Stamped
      <3>2. ~row'.running /\ row'.ended = 0
        <4>1. row' = [row EXCEPT !.running = FALSE, !.ended = 0]
          BY <1>11, <2>3 DEF Finalize
        <4> QED
          BY <4>1 DEF TypeOK
      <3>3. ~InStart
        <4>1. past' = Odd(IF InStart THEN {"cut"} ELSE {})
          BY <1>11, <2>3 DEF Finalize
        <4>2. InStart => "cut" \in past'.odd
          BY <4>1 DEF Odd, TypeOK
        <4> QED
          BY <1>1, <4>2 DEF Orderly
      <3>4. Todo # <<"clear">>
        BY <1>0, <3>3 DEF InStart, Shape, Rests, Todo
      <3>5. Todo' = Todo
        BY <2>1 DEF Todo
      <3> QED
        BY <1>2, <2>1, <3>1, <3>2, <3>4, <3>5 DEF Follows, Silent
    <2> QED
      BY <2>2, <2>3
  <1>12. CASE SessionEnds
    BY <1>1, <1>12 DEF SessionEnds, Running, TypeOK
  <1>13. CASE Provides
    <2>1. CASE TakeUp
      BY <1>4, <2>1
    <2> QED
      BY <1>5, <1>6, <1>7, <1>8, <1>13, <2>1 DEF Provides
  <1> QED
    BY <1>4, <1>9, <1>10, <1>11, <1>12, <1>13 DEF Next

(***************************************************************************)
(* The theorems.                                                           *)
(***************************************************************************)

\* The invariant holds when the first message has been sent.
LEMMA IInvInit == Init => IInv
  <1> SUFFICES ASSUME Init PROVE IInv
    OBVIOUS
  <1>1. TypeOK
    <2>1. <<"initial">> \in Seq(Sources) /\ <<>> \in Seq(Statements)
      BY DEF Sources
    <2>2. past \in [origin : [Turns -> Sources \cup {"none"}],
                   end : [Turns -> {"none", "completed", "canceled", "failed"}],
                   odd : SUBSET Deviations, started : Nat, stamp : Nat,
                   sent : 0..MaxMessages, cancels : 0..MaxCancels]
      BY TurnAssumption DEF Init
    <2> QED
      BY <2>1, <2>2 DEF Init, TypeOK, Sources
  <1>2. \A th \in Threads : emit[th].todo = <<>> /\ <<>> \notin Rests
    BY Distinct DEF Init
  <1>3. Shape
    BY <1>2 DEF Init, Shape, Programs, Silent, Threads
  <1>4. Stamped
    BY <1>2 DEF Init, Stamped, Rests
  <1>5. ClosedIsIdle /\ GraceHasFinalizer
    BY DEF Init, ClosedIsIdle, Running, GraceHasFinalizer
  <1>6. emit["stream"].todo = <<>> /\ emit["cancel"].todo = <<>> /\ agent.turn = 0
        /\ agent.busy = 0 /\ ~row.running /\ row.ended = 0
    BY <1>2 DEF Init, Threads
  <1>7. Follows
    BY <1>2, <1>6, Distinct, EndsFresh DEF Follows, Silent, Todo, Rests
  <1> QED
    BY <1>1, <1>3, <1>4, <1>5, <1>7 DEF IInv

\* Every step keeps it.
LEMMA IInvKept == IInv /\ [Next]_vars => IInv'
  <1> SUFFICES ASSUME IInv, [Next]_vars PROVE IInv'
    OBVIOUS
  <1>1. CASE Next
    BY <1>1, TurnAssumption, TypesKept, ShapeKept, StampedKept, GraceKept, FollowsKept DEF IInv
  <1>2. CASE UNCHANGED vars
    BY <1>2 DEF vars, IInv, TypeOK, Shape, Silent, Stamped, ClosedIsIdle, Running,
                GraceHasFinalizer, At, Follows, Orderly, Todo
  <1> QED
    BY <1>1, <1>2

\* The invariant holds for any number of messages and cancellations.
THEOREM TurnInvariant == Spec => []IInv
  BY IInvInit, IInvKept, PTL DEF Spec

\* The turn columns, the tasks and the comments keep their types.
THEOREM TurnTyped == Spec => []TypeOK
  <1>1. IInv => TypeOK
    BY DEF IInv
  <1> QED
    BY <1>1, TurnInvariant, PTL

\* Whatever is canceled, reported twice or sent in between, a row in its grace
\* period has a task that will take it out (persist_stream_event).
THEOREM GraceNotForgotten == Spec => []GraceHasFinalizer
  <1>1. IInv => GraceHasFinalizer
    BY DEF IInv
  <1> QED
    BY <1>1, TurnInvariant, PTL

\* In an orderly session a turn that runs is shown as running, however many
\* tasks of earlier turns are still asleep.
THEOREM LiveShown == Spec => []LiveTurnShown
  <1>1. IInv => LiveTurnShown
    BY Distinct DEF IInv, LiveTurnShown, Follows, Todo, Silent
  <1> QED
    BY <1>1, TurnInvariant, PTL

\* An orderly session with nothing left to do is not in a turn, so that the
\* completion gives up a commit turn that left the workspace dirty.
THEOREM QuietIdle == Spec => []OrderlyQuietMeansIdle
  <1>1. ASSUME IInv, Orderly, Quiet PROVE ~InProgress
    <2>1. SUFFICES ASSUME InProgress PROVE FALSE
      OBVIOUS
    <2>2. Silent("stream") /\ Silent("cancel") /\ agent.busy = 0 /\ finalizers = {} /\ Running
      BY <1>1, <2>1 DEF Quiet, InProgress, Threads
    <2>3. row.running <=> row.ended # 0
      BY <1>1, <2>2 DEF IInv, Follows, Todo, Silent
    <2>4. row.running /\ row.ended # 0
      BY <2>1, <2>3 DEF InProgress
    <2>5. \A statement : ~At(statement)
      BY <2>2 DEF At, Threads
    <2> QED
      BY <1>1, <2>2, <2>4, <2>5 DEF IInv, GraceHasFinalizer
  <1>2. IInv => OrderlyQuietMeansIdle
    BY <1>1 DEF OrderlyQuietMeansIdle, QuietMeansIdle
  <1> QED
    BY <1>2, TurnInvariant, PTL

(***************************************************************************)
(* Whose turn it is.  While no message overlaps a turn, the source in the  *)
(* row is that of the one message asked for, running or being persisted,   *)
(* and a comment handler takes it over.                                    *)
(***************************************************************************)
Alone == "overlap" \notin past.odd

\* At most one message is on its way, and the provider has taken up all others.
OneAtATime ==
    /\ sending # {} =>
         /\ sending = {row.source} /\ agent.asked = <<>>
         /\ agent.busy = 0 /\ Silent("stream")
         /\ past.started <= past.sent
    /\ agent.asked # <<>> =>
         /\ agent.asked = <<row.source>>
         /\ agent.busy = 0 /\ Silent("stream")
         /\ past.started <= past.sent
    /\ past.started <= past.sent + 1
    /\ agent.turn # 0 => agent.turn = agent.busy

\* The turn that runs or is being persisted is the last one started, the row
\* has its source, and no turn ends before it starts.
SourceOfTurn ==
    /\ agent.busy # 0 =>
         agent.busy = past.started /\ past.origin[past.started] = row.source
    /\ ~Silent("stream") =>
         /\ emit["stream"].turn = past.started
         /\ past.origin[past.started] = row.source
    /\ \A t \in Turns : past.end[t] # "none" => t <= past.started

\* Handlers have the source of their turn, and comments are theirs.
SourceOfComment ==
    /\ \A h \in posting :
         h.turn <= past.started /\ past.origin[h.turn] = h.source
    /\ \A c \in comments :
         /\ c.turn <= past.started
         /\ ~c.tagged => Eligible(past.origin[c.turn])

\* A turn that completed is commented, or a handler has it, or the thread that
\* persists its end is about to start the handler.
HandlerAhead == {Completed, <<"finalizer", "handler">>, <<"handler">>}

Delivered(t) ==
    \/ \E c \in comments : c.turn = t
    \/ \E h \in posting : h.turn = t
    \/ emit["stream"].turn = t /\ Todo \in HandlerAhead

Delivery ==
    \A t \in Turns : past.end[t] = "completed" /\ Eligible(past.origin[t]) => Delivered(t)

Attributed == OneAtATime /\ SourceOfTurn /\ SourceOfComment /\ Delivery

SourceInv == Alone => Attributed

\* No message is on its way during a turn.
LEMMA NoneDuringTurn ==
    ASSUME OneAtATime, agent.busy # 0 \/ ~Silent("stream")
    PROVE  sending = {} /\ agent.asked = <<>>
  BY DEF OneAtATime

\* A step of the commands or tasks that concerns neither turns nor comments.
LEMMA AttributedFrame ==
    ASSUME Attributed, UNCHANGED <<sending, posting, comments>>,
           row'.source = row.source,
           \/ agent'.busy = agent.busy /\ agent'.turn = agent.turn /\ agent'.asked = agent.asked
           \/ agent'.busy = 0 /\ agent'.turn = 0 /\ agent'.asked = <<>>,
           emit'["stream"] = emit["stream"],
           past'.origin = past.origin, past'.end = past.end,
           past'.started = past.started, past'.sent = past.sent
    PROVE  Attributed'
  BY DEF Attributed, OneAtATime, SourceOfTurn, SourceOfComment, Delivery, Delivered,
         Silent, Todo

\* What the event of a turn may do to the ends of the turns.
EndsOnly(p) ==
    \A t \in Turns :
        \/ past'.end[t] = past.end[t]
        \/ t = agent.busy /\ (past'.end[t] = "completed" => p = Completed)

\* A new event of the running turn, while no other message is on its way.
LEMMA AttributedEvent ==
    ASSUME TypeOK, Attributed, agent.busy # 0, NEW p \in Fresh,
           Emit("stream", p, agent.busy), UNCHANGED <<row, sending, posting, comments>>,
           agent'.asked = agent.asked,
           agent'.busy \in {0, agent.busy}, agent'.turn \in {0, agent'.busy},
           past'.origin = past.origin, past'.started = past.started, past'.sent = past.sent,
           EndsOnly(p)
    PROVE  Attributed'
  <1>0. \A t \in Turns :
           \/ past'.end[t] = past.end[t]
           \/ t = agent.busy /\ (past'.end[t] = "completed" => p = Completed)
    BY DEF EndsOnly
  <1>1. /\ emit["stream"].todo = <<>> /\ Silent("stream")
        /\ emit'["stream"].todo = p /\ emit'["stream"].turn = agent.busy
    BY DEF Emit, Silent, TypeOK, Threads
  <1>2. ~Silent("stream")'
    BY <1>1, Distinct DEF Silent
  <1>3. /\ agent.busy = past.started /\ past.origin[past.started] = row.source
        /\ sending = {} /\ agent.asked = <<>>
    BY NoneDuringTurn DEF Attributed, SourceOfTurn
  <1>4. OneAtATime'
    BY <1>3 DEF Attributed, OneAtATime
  <1>5. SourceOfTurn'
    <2>1. past.started <= past.started
      BY DEF TypeOK
    <2>2. \A t \in Turns : past'.end[t] # "none" => t <= past.started
      BY <1>0, <1>3, <2>1 DEF Attributed, SourceOfTurn
    <2> QED
      BY <1>1, <1>3, <2>2 DEF SourceOfTurn
  <1>6. SourceOfComment'
    BY DEF Attributed, SourceOfComment
  <1>7. Todo \notin HandlerAhead
    BY <1>1, Distinct, EndsFresh, Continues DEF Todo, HandlerAhead
  <1>8. ASSUME NEW t \in Turns, past'.end[t] = "completed", Eligible(past'.origin[t])
        PROVE  Delivered(t)'
    <2>1. CASE past'.end[t] = past.end[t]
      <3>1. Delivered(t)
        BY <1>8, <2>1 DEF Attributed, Delivery
      <3> QED
        BY <1>7, <3>1 DEF Delivered
    <2>2. CASE t = agent.busy /\ p = Completed
      BY <1>1, <2>2 DEF Delivered, Todo, HandlerAhead
    <2> QED
      BY <1>0, <1>8, <2>1, <2>2
  <1> QED
    BY <1>4, <1>5, <1>6, <1>8 DEF Attributed, Delivery

\* The attribution of turns and comments is inductive while no message
\* overlaps a turn.
LEMMA SourceKept ==
    ASSUME TurnAssumption, TypeOK, Shape, SourceInv, Next
    PROVE  SourceInv'
  <1>1. SUFFICES ASSUME Alone'
                 PROVE  Attributed'
    BY DEF SourceInv
  <1>2. Alone /\ Attributed
    BY <1>1, OddGrows DEF SourceInv, Alone
  <1>0. "stream" \in Threads /\ "cancel" \in Threads
    BY DEF Threads
  <1>3. ASSUME NEW source \in {"follow_up", "completion"}, Mark(source)
        PROVE  Attributed'
    <2>1. past'.odd = past.odd \cup (IF Overlaps THEN {"overlap"} ELSE {})
      BY <1>3 DEF Mark, Odd, TypeOK
    <2>2. ~Overlaps
      BY <1>1, <2>1 DEF Alone
    <2>3. sending = {} /\ agent.asked = <<>> /\ agent.busy = 0 /\ Silent("stream")
      BY <2>2 DEF Overlaps
    <2>4. /\ sending' = {source} /\ row'.source = source
          /\ agent' = agent /\ emit' = emit /\ posting' = posting /\ comments' = comments
          /\ past'.origin = past.origin /\ past'.end = past.end
          /\ past'.started = past.started /\ past'.sent = past.sent + 1
      BY <1>3, <2>3 DEF Mark, Odd, TypeOK
    <2>5. past.sent \in Nat /\ past.started \in Nat
      BY DEF TypeOK, TurnAssumption
    <2>6. OneAtATime'
      BY <1>2, <2>3, <2>4, <2>5 DEF Attributed, OneAtATime, Silent
    <2>7. SourceOfTurn'
      BY <1>2, <2>3, <2>4 DEF Attributed, SourceOfTurn, Silent
    <2>8. SourceOfComment' /\ Delivery'
      BY <1>2, <2>4 DEF Attributed, SourceOfComment, Delivery, Delivered, Todo
    <2> QED
      BY <2>6, <2>7, <2>8 DEF Attributed
  <1>4. ASSUME NEW source \in {"follow_up", "completion"}, Send(source)
        PROVE  Attributed'
    <2>1. /\ sending = {row.source} /\ agent.asked = <<>> /\ agent.busy = 0
          /\ Silent("stream") /\ past.started <= past.sent /\ source = row.source
      BY <1>2, <1>4 DEF Send, Attributed, OneAtATime
    <2>2. sending' = {} /\ UNCHANGED <<row, emit, posting, comments, past>>
      BY <1>4, <2>1 DEF Send
    <2>3. /\ agent'.asked = <<source>> \/ agent'.asked = <<>>
          /\ agent'.busy = agent.busy /\ agent'.turn = agent.turn
      BY <1>4, <2>1 DEF Send, TypeOK
    <2>4. OneAtATime'
      BY <1>2, <2>1, <2>2, <2>3 DEF Attributed, OneAtATime, Silent
    <2>5. SourceOfTurn' /\ SourceOfComment' /\ Delivery'
      BY <1>2, <2>2, <2>3
         DEF Attributed, SourceOfTurn, SourceOfComment, Delivery, Delivered, Todo, Silent
    <2> QED
      BY <2>4, <2>5 DEF Attributed
  <1>5. CASE StartTurn
    <2> DEFINE t == past.started + 1
    <2>1. /\ agent.asked = <<row.source>> /\ sending = {} /\ Silent("stream")
          /\ past.started <= past.sent
      BY <1>2, <1>5 DEF StartTurn, Attributed, OneAtATime
    <2>2. past.sent \in 0..MaxMessages /\ past.started \in Nat /\ t \in Turns
      BY <2>1 DEF TypeOK, TurnAssumption, Turns
    <2>3. /\ agent'.busy = t /\ agent'.turn = t /\ agent'.asked = <<>>
          /\ UNCHANGED <<row, sending, posting, comments>>
      BY <1>5, <2>1 DEF StartTurn, TypeOK
    <2>4. /\ past'.started = t /\ past'.sent = past.sent /\ past'.end = past.end
          /\ past'.origin[t] = row.source
          /\ \A u \in Turns \ {t} : past'.origin[u] = past.origin[u]
      BY <1>5, <2>1, <2>2 DEF StartTurn, TypeOK
    <2>5. emit'["stream"].todo = Started /\ emit'["stream"].turn = t
            /\ emit["stream"].todo = <<>>
      BY <1>0, <1>5 DEF StartTurn, Emit, Silent, TypeOK
    <2> HIDE DEF t
    <2>6. OneAtATime'
      BY <2>1, <2>2, <2>3, <2>4 DEF OneAtATime, t
    <2>7. SourceOfTurn'
      <3>1. past.started <= t
        BY <2>2 DEF t
      <3>2. \A u \in Turns : past'.end[u] # "none" => u <= t
        BY <1>2, <2>2, <2>4, <3>1 DEF Attributed, SourceOfTurn, Turns, TurnAssumption, t
      <3> QED
        BY <2>3, <2>4, <2>5, <3>2 DEF SourceOfTurn
    <2>8. \A u \in Nat \ {0} : u <= past.started => u # t /\ u \in Turns /\ u <= t
      BY <2>2 DEF t, Turns, TurnAssumption
    <2>9. SourceOfComment'
      <3>1. (\A h \in posting : h.turn \in Nat \ {0}) /\ (\A c \in comments : c.turn \in Nat \ {0})
        BY DEF TypeOK
      <3> QED
        BY <1>2, <2>3, <2>4, <2>8, <3>1 DEF Attributed, SourceOfComment
    <2>10. Delivery'
      <3>1. Todo \notin HandlerAhead
        BY <2>5, Distinct, EndsFresh, Continues DEF Todo, HandlerAhead
      <3>2. ASSUME NEW u \in Turns, past'.end[u] = "completed", Eligible(past'.origin[u])
            PROVE  Delivered(u)'
        <4>1. u \in Nat \ {0} /\ u <= past.started
          BY <1>2, <2>4, <3>2 DEF Attributed, SourceOfTurn, Turns
        <4>2. past'.origin[u] = past.origin[u]
          BY <2>4, <2>8, <4>1
        <4>3. Delivered(u)
          BY <1>2, <2>4, <3>2, <4>2 DEF Attributed, Delivery
        <4> QED
          BY <2>3, <3>1, <4>3 DEF Delivered
      <3> QED
        BY <3>2 DEF Delivery
    <2> QED
      BY <2>6, <2>7, <2>9, <2>10 DEF Attributed
  <1>6. CASE TakeUp
    BY <1>2, <1>6, NoneDuringTurn DEF TakeUp, Attributed
  <1>7. CASE Work
    <2>1. /\ agent.busy # 0 /\ Emit("stream", ActiveWork, agent.busy)
          /\ UNCHANGED <<row, agent, sending, posting, comments, past>>
      BY <1>7 DEF Work
    <2>2. agent.turn \in {0, agent.busy}
      BY <1>2 DEF Attributed, OneAtATime
    <2>3. EndsOnly(ActiveWork)
      BY <2>1 DEF EndsOnly
    <2> QED
      BY <1>2, <2>1, <2>2, <2>3, EndsFresh, AttributedEvent
  <1>8. ASSUME NEW p \in {Completed, EmptyError}, SpuriousEnd(p)
        PROVE  Attributed'
    <2>1. agent.turn = agent.busy /\ agent.busy # 0
      BY <1>2, <1>8 DEF SpuriousEnd, Attributed, OneAtATime
    <2>2. /\ agent'.asked = agent.asked /\ agent'.busy = agent.busy /\ agent'.turn = 0
          /\ past'.origin = past.origin /\ past'.started = past.started
          /\ past'.sent = past.sent /\ past'.end = past.end
      BY <1>8 DEF SpuriousEnd, Odd, TypeOK
    <2>3. p \in Fresh /\ Emit("stream", p, agent.busy)
            /\ UNCHANGED <<row, sending, posting, comments>>
      BY <1>8, <2>1, EndsFresh DEF SpuriousEnd
    <2>4. EndsOnly(p)
      BY <2>2 DEF EndsOnly
    <2> QED
      BY <1>2, <2>1, <2>2, <2>3, <2>4, AttributedEvent
  <1>9. ASSUME NEW end, NEW p \in {Completed, EmptyError, Stopped},
               end = "completed" => p = Completed, EndTurn(end, p)
        PROVE  Attributed'
    <2>1. /\ agent'.asked = agent.asked /\ agent'.busy = 0 /\ agent'.turn = 0
          /\ past'.origin = past.origin /\ past'.started = past.started
          /\ past'.sent = past.sent
      BY <1>9 DEF EndTurn, TypeOK
    <2>2. \A t \in Turns : past'.end[t] = past.end[t] \/ (t = agent.busy /\ past'.end[t] = end)
      BY <1>9 DEF EndTurn, TypeOK
    <2>3. /\ p \in Fresh /\ agent.busy # 0 /\ Emit("stream", p, agent.busy)
          /\ UNCHANGED <<row, sending, posting, comments>>
      BY <1>9, EndsFresh DEF EndTurn
    <2>4. EndsOnly(p)
      BY <1>9, <2>2 DEF EndsOnly
    <2> QED
      BY <1>2, <2>1, <2>3, <2>4, AttributedEvent
  <1>10. CASE Interrupt
    BY <1>2, <1>10, AttributedFrame DEF Interrupt, TypeOK
  <1>11. CASE CancelNothing
    <2>1. emit'["stream"] = emit["stream"]
      BY <1>0, <1>11 DEF CancelNothing, Emit, TypeOK
    <2>2. past'.origin = past.origin /\ past'.end = past.end
            /\ past'.started = past.started /\ past'.sent = past.sent
      BY <1>11 DEF CancelNothing, Odd, TypeOK
    <2> QED
      BY <1>2, <1>11, <2>1, <2>2, AttributedFrame DEF CancelNothing
  <1>12. ASSUME NEW e \in finalizers, Finalize(e)
         PROVE  Attributed'
    <2>1. row'.source = row.source
      BY <1>12 DEF Finalize, TypeOK
    <2>2. past'.origin = past.origin /\ past'.end = past.end
            /\ past'.started = past.started /\ past'.sent = past.sent
      BY <1>12 DEF Finalize, Odd, TypeOK
    <2> QED
      BY <1>2, <1>12, <2>1, <2>2, AttributedFrame DEF Finalize
  <1>13. CASE SessionEnds
    BY <1>2, <1>13, AttributedFrame DEF SessionEnds, TypeOK
  <1>14. ASSUME NEW h \in posting, NEW tagged \in BOOLEAN, Post(h, tagged)
         PROVE  Attributed'
    <2>1. posting' = posting \ {h} /\ UNCHANGED <<row, agent, sending, emit, past>>
      BY <1>14 DEF Post
    <2>2. /\ comments \subseteq comments'
          /\ \A c \in comments' \ comments :
               c.turn = h.turn /\ (~c.tagged => Eligible(h.source))
      <3> DEFINE new == [turn |-> h.turn, tagged |-> tagged]
      <3>1. new.turn = h.turn /\ new.tagged = tagged
        OBVIOUS
      <3>2. \/ comments' = comments
            \/ comments' = comments \cup {new} /\ (tagged \/ Eligible(h.source))
        BY <1>14 DEF Post
      <3> HIDE DEF new
      <3>3. CASE comments' = comments
        BY <3>3
      <3>4. CASE comments' = comments \cup {new} /\ (tagged \/ Eligible(h.source))
        <4>1. ~new.tagged => Eligible(h.source)
          BY <3>1, <3>4
        <4>2. \A c \in comments' \ comments : c = new
          BY <3>4
        <4> QED
          BY <3>1, <3>4, <4>1, <4>2
      <3> QED
        BY <3>2, <3>3, <3>4
    <2>3. Eligible(h.source) => \E c \in comments' : c.turn = h.turn
      <3> DEFINE new == [turn |-> h.turn, tagged |-> tagged]
      <3>1. new.turn = h.turn
        OBVIOUS
      <3>2. Eligible(h.source) /\ (\A c \in comments : c.turn # h.turn)
              => comments' = comments \cup {new}
        BY <1>14 DEF Post
      <3> HIDE DEF new
      <3> QED
        BY <2>2, <3>1, <3>2
    <2>4. OneAtATime' /\ SourceOfTurn'
      BY <1>2, <2>1 DEF Attributed, OneAtATime, SourceOfTurn, Silent
    <2>5. h.turn <= past.started /\ past.origin[h.turn] = h.source
      BY <1>2 DEF Attributed, SourceOfComment
    <2>6. SourceOfComment'
      BY <1>2, <2>1, <2>2, <2>5 DEF Attributed, SourceOfComment
    <2>7. Delivery'
      BY <1>2, <2>1, <2>2, <2>3, <2>5 DEF Attributed, Delivery, Delivered, Todo
    <2> QED
      BY <2>4, <2>6, <2>7 DEF Attributed
  <1>15. ASSUME NEW th \in Threads, Persists(th)
         PROVE  Attributed'
    <2>1. PICK statement : Executes(th, statement)
      BY <1>15 DEF Persists, Run, Clear, Stop, Record, Ensure, SpawnFinalizer, SpawnHandler
    <2>2. UNCHANGED <<agent, sending, comments>>
      BY <2>1 DEF Executes
    <2>3. row'.source = row.source
      <3>1. CASE Ensure(th)
        <4>1. row' = row \/ row' = [row EXCEPT !.running = TRUE, !.ended = 0]
          BY <3>1 DEF Ensure
        <4> QED
          BY <4>1 DEF TypeOK
      <3>2. CASE ~Ensure(th)
        BY <1>15, <3>2 DEF Persists, Run, Clear, Stop, Record, SpawnFinalizer, SpawnHandler,
                           TypeOK
      <3> QED
        BY <3>1, <3>2
    <2>4. past'.origin = past.origin /\ past'.end = past.end
            /\ past'.started = past.started /\ past'.sent = past.sent
      BY <1>15 DEF Persists, Run, Clear, Stop, Record, Ensure, SpawnFinalizer, SpawnHandler,
                   TypeOK
    <2>5. CASE th = "cancel"
      <3>1. ~SpawnHandler(th)
        BY <2>5, Executed, Continues DEF SpawnHandler, Shape, Stopped
      <3>2. posting' = posting
        BY <1>15, <3>1 DEF Persists, Run, Clear, Stop, Record, Ensure, SpawnFinalizer
      <3>3. emit'["stream"] = emit["stream"]
        BY <1>0, <2>1, <2>5 DEF Executes, TypeOK
      <3> QED
        BY <1>2, <2>2, <2>3, <2>4, <3>2, <3>3, AttributedFrame
    <2>6. CASE th = "stream"
      <3>1. ~Silent("stream") /\ emit'["stream"].turn = emit["stream"].turn
        BY <1>0, <2>1, <2>6, Executed DEF Executes
      <3>2. emit["stream"].turn = past.started /\ past.origin[past.started] = row.source
        BY <1>2, <3>1 DEF Attributed, SourceOfTurn
      <3>3. sending = {} /\ agent.asked = <<>>
        BY <1>2, <3>1, NoneDuringTurn DEF Attributed
      <3>4. OneAtATime' /\ SourceOfTurn'
        BY <1>2, <2>2, <2>3, <2>4, <3>1, <3>2, <3>3 DEF Attributed, OneAtATime, SourceOfTurn
      <3>5. CASE SpawnHandler(th)
        <4>1. posting' = posting \cup {[turn |-> past.started, source |-> row.source]}
          BY <2>6, <3>2, <3>5 DEF SpawnHandler
        <4>2. SourceOfComment'
          <5>1. past.started <= past.started
            BY DEF TypeOK
          <5> QED
            BY <1>2, <2>2, <2>4, <3>2, <4>1, <5>1 DEF Attributed, SourceOfComment
        <4>3. Delivery'
          BY <1>2, <2>2, <2>4, <3>2, <4>1 DEF Attributed, Delivery, Delivered
        <4> QED
          BY <3>4, <4>2, <4>3 DEF Attributed
      <3>6. CASE ~SpawnHandler(th)
        <4>1. posting' = posting
          BY <1>15, <3>6 DEF Persists, Run, Clear, Stop, Record, Ensure, SpawnFinalizer
        <4>2. Todo \in HandlerAhead => Todo' \in HandlerAhead
          <5>1. CASE Run(th) \/ Clear(th) \/ Stop(th) \/ Ensure(th)
            <6>1. Todo \notin HandlerAhead
              BY <2>6, <5>1, Executed, Continues
                 DEF Run, Clear, Stop, Ensure, Todo, HandlerAhead
            <6> QED
              BY <6>1
          <5>2. CASE Record(th)
            BY <2>6, <5>2, Executed, Continues DEF Record, Todo, HandlerAhead
          <5>3. CASE SpawnFinalizer(th)
            BY <2>6, <5>3, Executed, Continues DEF SpawnFinalizer, Todo, HandlerAhead
          <5> QED
            BY <1>15, <3>6, <5>1, <5>2, <5>3 DEF Persists
        <4>3. SourceOfComment' /\ Delivery'
          BY <1>2, <2>2, <2>4, <3>1, <4>1, <4>2
             DEF Attributed, SourceOfComment, Delivery, Delivered
        <4> QED
          BY <3>4, <4>3 DEF Attributed
      <3> QED
        BY <3>5, <3>6
    <2> QED
      BY <2>5, <2>6 DEF Threads
  <1>16. CASE Provides
    BY <1>5, <1>6, <1>7, <1>8, <1>9, <1>16 DEF Provides
  <1> QED
    BY <1>3, <1>4, <1>10, <1>11, <1>12, <1>13, <1>14, <1>15, <1>16 DEF Next

LEMMA SourceHolds == Spec => []SourceInv
  <1>1. Init => SourceInv
    <2> SUFFICES ASSUME Init
                 PROVE  Attributed
      BY DEF SourceInv
    <2>1. /\ sending = {} /\ posting = {} /\ comments = {} /\ Silent("stream")
          /\ agent.busy = 0 /\ agent.turn = 0 /\ agent.asked = <<"initial">>
          /\ row.source = "initial" /\ past.started = 0 /\ past.sent = 0
          /\ \A t \in Turns : past.end[t] = "none"
      BY DEF Init, Silent, Threads
    <2> QED
      BY <2>1 DEF Attributed, OneAtATime, SourceOfTurn, SourceOfComment, Delivery
  <1>2. IInv /\ SourceInv /\ [Next]_vars => SourceInv'
    <2>1. IInv /\ SourceInv /\ Next => SourceInv'
      BY TurnAssumption, SourceKept DEF IInv
    <2>2. SourceInv /\ UNCHANGED vars => SourceInv'
      BY DEF vars, SourceInv, Alone, Attributed, OneAtATime, SourceOfTurn,
             SourceOfComment, Delivery, Delivered, Silent, Todo
    <2> QED
      BY <2>1, <2>2
  <1> QED
    BY <1>1, <1>2, TurnInvariant, PTL DEF Spec

\* As long as no message is sent during a turn, an untagged comment is posted
\* only for a first turn or a commit prompt (ADR 0029), whatever the handlers'
\* order and however late they run.
THEOREM FollowUpsNotCommented == Spec => []OrderlyFollowUpsSilent
  <1>1. SourceInv => OrderlyFollowUpsSilent
    BY DEF SourceInv, Alone, Attributed, SourceOfComment, OrderlyFollowUpsSilent,
           FollowUpsSilent
  <1> QED
    BY <1>1, SourceHolds, PTL

\* As long as no message is sent during a turn, every first turn and every
\* commit prompt that completes is commented once its handler has run.
THEOREM DeliveryIsCommented == Spec => []DeliveryCommented
  <1>1. ASSUME SourceInv, Alone, Silent("stream"), posting = {},
               NEW t \in Turns, past.end[t] = "completed", Eligible(past.origin[t])
        PROVE  \E c \in comments : c.turn = t
    <2>1. Delivered(t)
      BY <1>1 DEF SourceInv, Attributed, Delivery
    <2>2. Todo \notin HandlerAhead
      BY <1>1, Distinct, EndsFresh, Continues DEF Todo, HandlerAhead, Silent
    <2> QED
      BY <1>1, <2>1, <2>2 DEF Delivered
  <1>2. SourceInv => DeliveryCommented
    BY <1>1 DEF DeliveryCommented, Alone
  <1> QED
    BY <1>2, SourceHolds, PTL
=============================================================================
