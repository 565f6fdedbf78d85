------------------------ MODULE SessionLifecycleProofs ------------------------
(***************************************************************************)
(* What is proved of SessionLifecycle for any number of sessions, of       *)
(* threads, of processes and of restarts: its types, and the safety        *)
(* properties of the run "sessions": starting marks are released, the      *)
(* issue follows its session, a session has one writer, and in an orderly  *)
(* project no live agent is taken for lost.                                *)
(***************************************************************************)
EXTENDS SessionLifecycle, TLAPS

(***************************************************************************)
(* Lemmas: the values commands and processes take.                         *)
(***************************************************************************)

\* What an idle thread is said to work on is a session.
LEMMA SomeSessionTyped == SomeSession \in Sessions
  BY LifecycleAssumption DEF SomeSession

ProcessTypes == [Processes -> [of : Sessions, state : {"unborn", "alive", "dead"},
                               waiter : {"none", "waits", "reaped"}]]

\* Ending processes (shutdown and kill) changes the state of those that live.
LEMMA KilledLess ==
    ASSUME process \in ProcessTypes, NEW ps
    PROVE  /\ Killed(ps) \in ProcessTypes
           /\ \A p \in Processes :
                /\ Killed(ps)[p].of = process[p].of
                /\ Killed(ps)[p].waiter = process[p].waiter
                /\ Killed(ps)[p].state = IF p \in ps /\ process[p].state = "alive" THEN "dead"
                                         ELSE process[p].state
  BY DEF Killed, ProcessTypes, Alive, Processes

CommandTypes == [Commands -> [at : Steps, kind : {"start", "resume", "switch", "other"},
                              session : Sessions, mode : Modes, process : 0..MaxProcesses]]

RowTypes == [Sessions -> [status : {"none", "running", "stopped", "ended"},
                          mode : Modes, deleted : BOOLEAN]]

\* Ending a row keeps the types of rows.
LEMMA TerminatedTyped ==
    ASSUME row \in RowTypes, NEW s \in Sessions, NEW status \in {"stopped", "ended"}
    PROVE  Terminated(s, status) \in RowTypes
  BY DEF Terminated, RowTypes

\* Discarding it as well.
LEMMA DiscardedTyped ==
    ASSUME row \in RowTypes, NEW s \in Sessions
    PROVE  [Terminated(s, "ended") EXCEPT ![s].deleted = TRUE] \in RowTypes
  <1>1. Terminated(s, "ended") \in RowTypes
    BY TerminatedTyped
  <1> QED
    BY <1>1 DEF RowTypes

\* So does deleting a row.
LEMMA DeletedTyped ==
    ASSUME row \in RowTypes, NEW s \in Sessions
    PROVE  [row EXCEPT ![s].deleted = TRUE] \in RowTypes
  BY DEF RowTypes

\* A row gets another mode, or runs again.
LEMMA ModeTyped ==
    ASSUME row \in RowTypes, NEW s, NEW mode \in Modes, row' = [row EXCEPT ![s].mode = mode]
    PROVE  row' \in RowTypes
  BY DEF RowTypes

LEMMA RunningTyped ==
    ASSUME row \in RowTypes, NEW s, row' = [row EXCEPT ![s].status = "running"]
    PROVE  row' \in RowTypes
  BY DEF RowTypes

\* The waiting thread of a process starts, or goes on.
LEMMA WaitsTyped ==
    ASSUME process \in ProcessTypes, NEW p, NEW w \in {"none", "waits", "reaped"},
           process' = [process EXCEPT ![p].waiter = w]
    PROVE  process' \in ProcessTypes
  BY DEF ProcessTypes

\* A restart ends them all.
LEMMA EndedTyped ==
    ASSUME process \in ProcessTypes,
           process' = [p \in Processes |->
                         IF process[p].state = "unborn" THEN process[p]
                         ELSE [process[p] EXCEPT !.state = "dead", !.waiter = "none"]]
    PROVE  process' \in ProcessTypes
  BY DEF ProcessTypes

PollTypes == [at : {"idle", "scan", "checked", "doomed", "ids", "purge"},
              todo : SUBSET Sessions, session : Sessions]

\* The listing goes on to its next session.
LEMMA SkipTyped ==
    ASSUME poll \in PollTypes, NEW s \in Sessions, poll' = Skip(s)
    PROVE  poll' \in PollTypes
  BY SomeSessionTyped DEF Skip, PollTypes

\* A command goes on to another step, or ends.
LEMMA GoTyped ==
    ASSUME cmd \in CommandTypes, NEW c \in Commands, NEW at \in Steps, Go(c, at)
    PROVE  cmd' \in CommandTypes
  BY DEF Go, CommandTypes

LEMMA SpawnedTyped ==
    ASSUME cmd \in CommandTypes, NEW c \in Commands, NEW p \in Processes,
           cmd' = [cmd EXCEPT ![c].at = "spawned", ![c].process = p]
    PROVE  cmd' \in CommandTypes
  <1> DEFINE d == [cmd[c] EXCEPT !.at = "spawned", !.process = p]
  <1>1. cmd' = [cmd EXCEPT ![c] = d]
    BY DEF CommandTypes
  <1>2. d \in [at : Steps, kind : {"start", "resume", "switch", "other"},
               session : Sessions, mode : Modes, process : 0..MaxProcesses]
    <2>1. /\ cmd[c] \in [at : Steps, kind : {"start", "resume", "switch", "other"},
                         session : Sessions, mode : Modes, process : 0..MaxProcesses]
          /\ "spawned" \in Steps /\ p \in 0..MaxProcesses
      BY LifecycleAssumption DEF CommandTypes, Steps, Processes
    <2> QED
      BY <2>1
  <1> QED
    BY <1>1, <1>2 DEF CommandTypes

LEMMA DoneTyped ==
    ASSUME cmd \in CommandTypes, NEW c \in Commands, Done(c)
    PROVE  cmd' \in CommandTypes
  BY SomeSessionTyped, LifecycleAssumption DEF Done, Idle, CommandTypes, Steps, Modes


(***************************************************************************)
(* Types.                                                                  *)
(***************************************************************************)

\* A step keeps the types.
LEMMA TypesStep ==
    ASSUME TypeOK, Next
    PROVE  TypeOK'
  <1>1. ASSUME NEW c \in Commands, NEW s \in Sessions, NEW mode \in Modes, StartSession(c, s, mode), UNCHANGED restarts
        PROVE  TypeOK'
    BY <1>1, TypeOK, LifecycleAssumption DEF StartSession, Begin, TypeOK, Steps, Modes,
       Overlap, Other, Deviations
  <1>2. ASSUME NEW c \in Commands, NEW s \in Sessions, ResumeSession(c, s), UNCHANGED restarts
        PROVE  TypeOK'
    BY <1>2, TypeOK, LifecycleAssumption DEF ResumeSession, Begin, TypeOK, Steps, Modes,
       Overlap, Deviations
  <1>3. ASSUME NEW c \in Commands, NEW s \in Sessions, SwitchMode(c, s), UNCHANGED restarts
        PROVE  TypeOK'
    BY <1>3, TypeOK, LifecycleAssumption, KilledLess DEF SwitchMode, Begin, TypeOK,
       ProcessTypes, Steps, Modes, Overlap, Other, Deviations
  <1>4. ASSUME NEW c \in Commands, NEW s \in Sessions, ReturnToBacklog(c, s), UNCHANGED restarts
        PROVE  TypeOK'
    <2>1. row' \in RowTypes
      BY <1>4, TypeOK, DiscardedTyped DEF ReturnToBacklog, TypeOK, RowTypes
    <2>2. cmd' \in CommandTypes
      BY <1>4, TypeOK, LifecycleAssumption DEF ReturnToBacklog, Begin, TypeOK, CommandTypes,
         Steps, Modes
    <2>3. odd' \subseteq Deviations
      BY <1>4, TypeOK DEF ReturnToBacklog, Begin, Overlap, TypeOK, Deviations
    <2> QED
      BY <2>1, <2>2, <2>3, <1>4, TypeOK DEF ReturnToBacklog, TypeOK, RowTypes, CommandTypes,
         Begin
  <1>5. ASSUME NEW c \in Commands, NEW s \in Sessions, CancelFindsDead(c, s), UNCHANGED restarts
        PROVE  TypeOK'
    BY <1>5, TypeOK, LifecycleAssumption DEF CancelFindsDead, Begin, TypeOK, Steps, Modes,
       Overlap, Deviations
  <1>6. ASSUME NEW c \in Commands, SwitchTimesOut(c), UNCHANGED restarts PROVE TypeOK'
    BY <1>6, TypeOK, LifecycleAssumption, SomeSessionTyped DEF SwitchTimesOut, Done, Idle,
       Session, TypeOK, Steps, Modes, Deviations
  <1>7. ASSUME NEW c \in Commands, PersistMode(c), UNCHANGED restarts PROVE TypeOK'
    <2>1. cmd[c].session \in Sessions /\ cmd[c].mode \in Modes
      BY TypeOK DEF TypeOK
    <2>2. row \in RowTypes
      BY TypeOK DEF TypeOK, RowTypes
    <2>3. row' \in RowTypes
      <3>1. CASE row' = row
        BY <3>1, <2>2
      <3>2. CASE row' = [row EXCEPT ![cmd[c].session].mode = cmd[c].mode]
        BY <3>2, <2>1, <2>2, ModeTyped
      <3> QED
        BY <3>1, <3>2, <1>7 DEF PersistMode, Session
    <2>4. cmd' \in CommandTypes
      BY <1>7, TypeOK, GoTyped, DoneTyped DEF PersistMode, TypeOK, CommandTypes, Steps
    <2> QED
      BY <2>3, <2>4, <1>7, TypeOK DEF PersistMode, TypeOK, RowTypes, CommandTypes
  <1>8. ASSUME NEW c \in Commands, MarkStarting(c), UNCHANGED restarts PROVE TypeOK'
    BY <1>8, TypeOK, LifecycleAssumption DEF MarkStarting, Go, At, Session, TypeOK, Steps,
       Modes, RacesListing, Deviations
  <1>9. ASSUME NEW c \in Commands, NEW p \in Processes, Spawn(c, p), UNCHANGED restarts
        PROVE  TypeOK'
    <2>1. process' \in ProcessTypes
      BY <1>9, TypeOK DEF Spawn, At, Spawning, Session, TypeOK, ProcessTypes, Processes
    <2>2. cmd' \in CommandTypes
      BY <1>9, TypeOK, SpawnedTyped DEF Spawn, TypeOK, CommandTypes
    <2> QED
      BY <2>1, <2>2, <1>9, TypeOK DEF Spawn, TypeOK, ProcessTypes, CommandTypes
  <1>10. ASSUME NEW c \in Commands, SpawnFails(c), UNCHANGED restarts PROVE TypeOK'
    BY <1>10, TypeOK, LifecycleAssumption DEF SpawnFails, Go, At, Spawning, TypeOK, Steps,
       Modes, Deviations
  <1>11. ASSUME NEW c \in Commands, ProviderFails(c), UNCHANGED restarts PROVE TypeOK'
    <2>1. cmd' \in CommandTypes
      BY <1>11, TypeOK, GoTyped DEF ProviderFails, TypeOK, CommandTypes, Steps
    <2> QED
      BY <2>1, <1>11, TypeOK DEF ProviderFails, TypeOK, CommandTypes
  <1>12. ASSUME NEW c \in Commands, ReadFails(c), UNCHANGED restarts PROVE TypeOK'
    <2>1. process' \in ProcessTypes
      BY <1>12, TypeOK, KilledLess DEF ReadFails, At, TypeOK, ProcessTypes, Processes
    <2>2. cmd' \in CommandTypes
      BY <1>12, TypeOK, GoTyped, DoneTyped DEF ReadFails, TypeOK, CommandTypes, Steps
    <2>3. odd' \subseteq Deviations
      BY <1>12, TypeOK DEF ReadFails, At, TypeOK, Deviations
    <2> QED
      BY <2>1, <2>2, <2>3, <1>12, TypeOK DEF ReadFails, TypeOK, ProcessTypes, CommandTypes
  <1>13. ASSUME NEW c \in Commands, MarkRunning(c), UNCHANGED restarts PROVE TypeOK'
    <2>2. row \in RowTypes
      BY TypeOK DEF TypeOK, RowTypes
    <2>3. row' \in RowTypes
      <3>1. CASE row' = row
        BY <3>1, <2>2
      <3>2. CASE row' = [row EXCEPT ![cmd[c].session].status = "running"]
        BY <3>2, <2>2, RunningTyped
      <3> QED
        BY <3>1, <3>2, <1>13 DEF MarkRunning, Session
    <2>4. cmd' \in CommandTypes
      BY <1>13, TypeOK, GoTyped DEF MarkRunning, TypeOK, CommandTypes, Steps
    <2> QED
      BY <2>3, <2>4, <1>13, TypeOK DEF MarkRunning, TypeOK, RowTypes, CommandTypes
  <1>14. ASSUME NEW c \in Commands, RegisterHandle(c), UNCHANGED restarts PROVE TypeOK'
    <2>1. process' \in ProcessTypes
      <3>1. process' = Killed({handle[Session(c)]})
        BY <1>14 DEF RegisterHandle
      <3>2. process \in ProcessTypes
        BY TypeOK DEF TypeOK, ProcessTypes
      <3> QED
        BY <3>1, <3>2, KilledLess
    <2>2. handle' \in [Sessions -> 0..MaxProcesses]
      BY <1>14, TypeOK, LifecycleAssumption DEF RegisterHandle, Session, TypeOK
    <2>3. cmd' \in CommandTypes
      <3>1. cmd \in CommandTypes /\ "inserted" \in Steps /\ Go(c, "inserted")
        BY <1>14, TypeOK DEF RegisterHandle, TypeOK, CommandTypes, Steps
      <3> QED
        BY <3>1, GoTyped
    <2> QED
      BY <2>1, <2>2, <2>3, <1>14, TypeOK DEF RegisterHandle, TypeOK, ProcessTypes, CommandTypes
  <1>15. ASSUME NEW c \in Commands, RegisterTerminal(c), UNCHANGED restarts PROVE TypeOK'
    <2>1. pty' \in [Sessions -> 0..MaxProcesses]
      BY <1>15, TypeOK, LifecycleAssumption DEF RegisterTerminal, At, Registering, Session,
         TypeOK, Processes
    <2>2. process' \in ProcessTypes
      <3>1. process' = [process EXCEPT ![cmd[c].process].waiter = "waits"]
        BY <1>15 DEF RegisterTerminal
      <3> QED
        BY <3>1, TypeOK, WaitsTyped DEF TypeOK, ProcessTypes
    <2>3. cmd' \in CommandTypes
      BY <1>15, TypeOK, LifecycleAssumption DEF RegisterTerminal, Go, At, Registering, Session,
         TypeOK, CommandTypes, Steps, Modes
    <2>4. odd' \subseteq Deviations
      BY <1>15, TypeOK DEF RegisterTerminal, At, Registering, Session, RacesListing, TypeOK,
         Deviations
    <2> QED
      BY <2>1, <2>2, <2>3, <2>4, <1>15, TypeOK DEF RegisterTerminal, TypeOK, ProcessTypes,
         CommandTypes
  <1>16. ASSUME NEW c \in Commands, TerminalRefused(c), UNCHANGED restarts PROVE TypeOK'
    <2>1. starting' \subseteq Sessions
      BY <1>16, TypeOK DEF TerminalRefused, At, Registering, Session, TypeOK
    <2>2. process' \in ProcessTypes
      BY <1>16, TypeOK, KilledLess DEF TerminalRefused, At, Registering, Session, TypeOK,
         ProcessTypes, Processes
    <2>3. row' \in RowTypes
      BY <1>16, TypeOK, TerminatedTyped DEF TerminalRefused, At, Registering, Session, TypeOK,
         RowTypes, Modes
    <2>4. cmd' \in CommandTypes
      BY <1>16, TypeOK, LifecycleAssumption, SomeSessionTyped DEF TerminalRefused, Idle, At,
         Registering, Session, TypeOK, CommandTypes, Steps, Modes
    <2> QED
      BY <2>1, <2>2, <2>3, <2>4, <1>16, TypeOK DEF TerminalRefused, TypeOK, RowTypes,
         ProcessTypes, CommandTypes
  <1>17. ASSUME NEW c \in Commands, ClearMark(c), UNCHANGED restarts PROVE TypeOK'
    BY <1>17, TypeOK, LifecycleAssumption, SomeSessionTyped DEF ClearMark, Done, Idle, At,
       Session, TypeOK, Steps, Modes, Deviations
  <1>18. ASSUME NEW c \in Commands, InputFails(c), UNCHANGED restarts PROVE TypeOK'
    <2>1. process' \in ProcessTypes
      BY <1>18, TypeOK, KilledLess DEF InputFails, At, Session, TypeOK, ProcessTypes, Processes
    <2>2. row' \in RowTypes
      BY <1>18, TypeOK, TerminatedTyped DEF InputFails, At, Session, TypeOK, RowTypes, Modes
    <2>3. cmd' \in CommandTypes
      BY <1>18, TypeOK, LifecycleAssumption DEF InputFails, Go, At, Session, TypeOK,
         CommandTypes, Steps, Modes
    <2> QED
      BY <2>1, <2>2, <2>3, <1>18, TypeOK DEF InputFails, TypeOK, RowTypes, ProcessTypes,
         CommandTypes
  <1>19. ASSUME NEW c \in Commands, Unmark(c), UNCHANGED restarts PROVE TypeOK'
    BY <1>19, TypeOK, LifecycleAssumption DEF Unmark, Go, At, Session, TypeOK, Steps, Modes,
       Deviations
  <1>20. ASSUME NEW c \in Commands, RollBack(c), UNCHANGED restarts PROVE TypeOK'
    <2>1. process' \in ProcessTypes
      BY <1>20, TypeOK, KilledLess DEF RollBack, At, Session, TypeOK, ProcessTypes, Processes
    <2>2. row' \in RowTypes
      BY <1>20, TypeOK, DeletedTyped DEF RollBack, At, Session, TypeOK, RowTypes
    <2>3. cmd' \in CommandTypes
      BY <1>20, TypeOK, LifecycleAssumption, SomeSessionTyped DEF RollBack, Done, Idle, At,
         Session, TypeOK, CommandTypes, Steps, Modes
    <2> QED
      BY <2>1, <2>2, <2>3, <1>20, TypeOK DEF RollBack, TypeOK, RowTypes, ProcessTypes,
         CommandTypes
  <1>21. ASSUME NEW c \in Commands, GiveUp(c), UNCHANGED restarts PROVE TypeOK'
    <2>1. process' \in ProcessTypes
      BY <1>21, TypeOK, KilledLess DEF GiveUp, At, TypeOK, ProcessTypes, Processes
    <2>2. cmd' \in CommandTypes
      BY <1>21, TypeOK, GoTyped, DoneTyped DEF GiveUp, TypeOK, CommandTypes, Steps
    <2> QED
      BY <2>1, <2>2, <1>21, TypeOK DEF GiveUp, TypeOK, ProcessTypes, CommandTypes
  <1>22. ASSUME NEW c \in Commands, RestoreMode(c), UNCHANGED restarts PROVE TypeOK'
    <2>1. row' \in RowTypes
      BY <1>22, TypeOK DEF RestoreMode, Session, Other, TypeOK, RowTypes, Modes
    <2>2. cmd' \in CommandTypes
      BY <1>22, TypeOK, LifecycleAssumption, SomeSessionTyped DEF RestoreMode, Done, Idle,
         Session, TypeOK, CommandTypes, Steps, Modes
    <2> QED
      BY <2>1, <2>2, <1>22, TypeOK DEF RestoreMode, TypeOK, RowTypes, CommandTypes
  <1>23. ASSUME NEW c \in Commands, ShutDiscarded(c), UNCHANGED restarts PROVE TypeOK'
    BY <1>23, TypeOK, LifecycleAssumption, SomeSessionTyped, KilledLess DEF ShutDiscarded,
       Done, Idle, Session, Shut, TypeOK, ProcessTypes, Steps, Modes, Deviations
  <1>24. ASSUME NEW c \in Commands, CancelUnregisters(c), UNCHANGED restarts PROVE TypeOK'
    BY <1>24, TypeOK, LifecycleAssumption, SomeSessionTyped, KilledLess DEF
       CancelUnregisters, Done, Idle, Session, TypeOK, ProcessTypes, Steps, Modes,
       Deviations
  <1>25. ASSUME NEW s \in Sessions, ResumeShort(s), UNCHANGED restarts PROVE TypeOK'
    BY <1>25, TypeOK, LifecycleAssumption DEF ResumeShort, TypeOK, Deviations
  <1>26. ASSUME NEW p \in Processes, Exits(p), UNCHANGED restarts PROVE TypeOK'
    BY <1>26, TypeOK, LifecycleAssumption, KilledLess DEF Exits, TypeOK, ProcessTypes,
       Deviations
  <1>27. ASSUME NEW p \in Processes, Reap(p), UNCHANGED restarts PROVE TypeOK'
    <2>1. process' \in ProcessTypes
      <3>1. process' = [process EXCEPT ![p].waiter = "reaped"]
        BY <1>27 DEF Reap
      <3> QED
        BY <3>1, TypeOK, WaitsTyped DEF TypeOK, ProcessTypes
    <2>2. pty' \in [Sessions -> 0..MaxProcesses]
      BY <1>27, TypeOK, LifecycleAssumption DEF Reap, TypeOK, Processes
    <2> QED
      BY <2>1, <2>2, <1>27, TypeOK DEF Reap, TypeOK, ProcessTypes, Go
  <1>28. ASSUME NEW p \in Processes, RecordExit(p), UNCHANGED restarts PROVE TypeOK'
    <2>1. process' \in ProcessTypes
      <3>1. process' = [process EXCEPT ![p].waiter = "none"]
        BY <1>28 DEF RecordExit
      <3> QED
        BY <3>1, TypeOK, WaitsTyped DEF TypeOK, ProcessTypes
    <2>2. row' \in RowTypes
      BY <1>28, TypeOK, TerminatedTyped DEF RecordExit, TypeOK, RowTypes, Modes
    <2>3. odd' \subseteq Deviations
      BY <1>28, TypeOK DEF RecordExit, TypeOK, Deviations
    <2> QED
      BY <2>1, <2>2, <2>3, <1>28, TypeOK DEF RecordExit, TypeOK, RowTypes, ProcessTypes, Go
  <1>29. ASSUME ListRunning, UNCHANGED restarts PROVE TypeOK'
    BY <1>29, TypeOK, LifecycleAssumption DEF ListRunning, TypeOK, Deviations
  <1>30. ASSUME NEW s \in Sessions, LookInTerminals(s), UNCHANGED restarts PROVE TypeOK'
    BY <1>30, TypeOK, LifecycleAssumption, SomeSessionTyped DEF LookInTerminals, Skip,
       TypeOK, Deviations
  <1>31. ASSUME LookInRegistry, UNCHANGED restarts PROVE TypeOK'
    <2>1. poll.session \in Sessions /\ poll \in PollTypes
      BY TypeOK DEF TypeOK, PollTypes
    <2>3. poll' \in PollTypes
      <3>1. CASE poll' = Skip(poll.session)
        BY <3>1, <2>1, SkipTyped
      <3>2. CASE poll' = [poll EXCEPT !.at = "doomed"]
        BY <3>2, <2>1 DEF PollTypes
      <3> QED
        BY <3>1, <3>2, <1>31 DEF LookInRegistry
    <2>4. odd' \subseteq Deviations
      BY <1>31, TypeOK DEF LookInRegistry, TypeOK, Deviations
    <2> QED
      BY <2>3, <2>4, <1>31, TypeOK DEF LookInRegistry, TypeOK, PollTypes
  <1>32. ASSUME StopLost, UNCHANGED restarts PROVE TypeOK'
    BY <1>32, TypeOK, LifecycleAssumption, SomeSessionTyped, TerminatedTyped DEF StopLost,
       Skip, TypeOK, RowTypes, Deviations
  <1>33. ASSUME ListRegistered, UNCHANGED restarts PROVE TypeOK'
    BY <1>33, TypeOK, LifecycleAssumption DEF ListRegistered, TypeOK, Deviations
  <1>34. ASSUME PickEnded, UNCHANGED restarts PROVE TypeOK'
    BY <1>34, TypeOK, LifecycleAssumption DEF PickEnded, TypeOK, Deviations
  <1>35. ASSUME NEW s \in Sessions, ShutEnded(s), UNCHANGED restarts PROVE TypeOK'
    BY <1>35, TypeOK, LifecycleAssumption, KilledLess DEF ShutEnded, Shut, TypeOK,
       ProcessTypes, Deviations
  <1>36. ASSUME Listed, UNCHANGED restarts PROVE TypeOK'
    BY <1>36, TypeOK, LifecycleAssumption, SomeSessionTyped DEF Listed, TypeOK, Deviations,
       NotListing
  <1>37. ASSUME CloseProject, UNCHANGED restarts PROVE TypeOK'
    BY <1>37, TypeOK, LifecycleAssumption, KilledLess DEF CloseProject, TypeOK,
       ProcessTypes, Deviations
  <1>38. ASSUME Restart PROVE TypeOK'
    <2>1. /\ handle' = [s \in Sessions |-> 0] /\ pty' = [s \in Sessions |-> 0]
          /\ starting' = {} /\ cmd' = [c \in Commands |-> Idle] /\ poll' = NotListing
          /\ UNCHANGED <<row, issue, odd>>
      BY <1>38 DEF Restart
    <2>6. restarts' \in 0..MaxRestarts
      <3>1. restarts \in 0..MaxRestarts /\ restarts < MaxRestarts /\ restarts' = restarts + 1
        BY <1>38, TypeOK DEF Restart, TypeOK
      <3> QED
        BY <3>1, LifecycleAssumption
    <2>2. Idle \in [at : Steps, kind : {"start", "resume", "switch", "other"},
                   session : Sessions, mode : Modes, process : 0..MaxProcesses]
      BY SomeSessionTyped, LifecycleAssumption DEF Idle, Steps, Modes
    <2>3. NotListing \in [at : {"idle", "scan", "checked", "doomed", "ids", "purge"},
                         todo : SUBSET Sessions, session : Sessions]
      BY SomeSessionTyped DEF NotListing
    <2>4. process' \in ProcessTypes
      BY <1>38, TypeOK, EndedTyped DEF Restart, TypeOK, ProcessTypes
    <2>5. 0 \in 0..MaxProcesses
      BY LifecycleAssumption
    <2> QED
      BY <2>1, <2>2, <2>3, <2>4, <2>5, <2>6, TypeOK DEF TypeOK, ProcessTypes
  <1> QED
    BY <1>1, <1>2, <1>3, <1>4, <1>5, <1>6, <1>7, <1>8, <1>9, <1>10, <1>11, <1>12, <1>13,
       <1>14, <1>15, <1>16, <1>17, <1>18, <1>19, <1>20, <1>21, <1>22, <1>23, <1>24, <1>25,
       <1>26, <1>27, <1>28, <1>29, <1>30, <1>31, <1>32, <1>33, <1>34, <1>35, <1>36, <1>37,
       <1>38 DEF Next, Requests, Proceeds, Lists

\* The rows, the two tables, the processes and the commands keep their types.
THEOREM LifecycleTyped == Spec => []TypeOK
  <1>1. Init => TypeOK
    BY LifecycleAssumption, SomeSessionTyped DEF Init, TypeOK, Idle, NotListing, Steps, Modes
  <1>2. TypeOK /\ [Next]_vars => TypeOK'
    <2> SUFFICES ASSUME TypeOK, [Next]_vars PROVE TypeOK'
      OBVIOUS
    <2>1. CASE Next
      BY <2>1, TypesStep
    <2>2. CASE UNCHANGED vars
      BY <2>2 DEF vars, TypeOK
    <2> QED
      BY <2>1, <2>2
  <1> QED
    BY <1>1, <1>2, PTL DEF Spec

(***************************************************************************)
(* Lemmas: what a step of a command leaves.                                *)
(***************************************************************************)

\* The command is at its next step and keeps the rest of its state.
LEMMA GoSteps ==
    ASSUME TypeOK, NEW c \in Commands, NEW at \in Steps, Go(c, at)
    PROVE  /\ \A d \in Commands \ {c} : cmd'[d] = cmd[d]
           /\ cmd'[c].at = at /\ cmd'[c].kind = cmd[c].kind /\ cmd'[c].mode = cmd[c].mode
           /\ cmd'[c].session = cmd[c].session /\ cmd'[c].process = cmd[c].process
  BY DEF Go, TypeOK

\* The thread is free for the next command.
LEMMA DoneSteps ==
    ASSUME TypeOK, NEW c \in Commands, Done(c)
    PROVE  /\ \A d \in Commands \ {c} : cmd'[d] = cmd[d]
           /\ cmd'[c].at = "idle" /\ cmd'[c].kind = "other" /\ cmd'[c].process = 0
  BY DEF Done, Idle, TypeOK

\* A command begins; from then on the session is busy.
LEMMA BeginSteps ==
    ASSUME TypeOK, NEW c \in Commands, NEW at, NEW kind, NEW s, NEW mode,
           Begin(c, at, kind, s, mode)
    PROVE  /\ \A d \in Commands \ {c} : cmd'[d] = cmd[d]
           /\ cmd[c].at = "idle"
           /\ cmd'[c].at = at /\ cmd'[c].kind = kind /\ cmd'[c].mode = mode
           /\ cmd'[c].session = s /\ cmd'[c].process = 0
           /\ "overlap" \notin odd' => Busy(s) = {}
  BY DEF Begin, Overlap, TypeOK

\* Deviations are not forgotten.
LEMMA OddGrows ==
    ASSUME Next
    PROVE  odd \subseteq odd'
  <1>1. ASSUME NEW c \in Commands, NEW s \in Sessions, NEW mode \in Modes, StartSession(c, s, mode)
        PROVE  odd \subseteq odd'
    BY <1>1 DEF StartSession, Begin, Overlap
  <1>2. ASSUME NEW c \in Commands, NEW s \in Sessions, ResumeSession(c, s)
        PROVE  odd \subseteq odd'
    BY <1>2 DEF ResumeSession, Begin, Overlap
  <1>3. ASSUME NEW c \in Commands, NEW s \in Sessions, SwitchMode(c, s) PROVE odd \subseteq odd'
    BY <1>3 DEF SwitchMode, Begin, Overlap
  <1>4. ASSUME NEW c \in Commands, NEW s \in Sessions, ReturnToBacklog(c, s)
        PROVE  odd \subseteq odd'
    BY <1>4 DEF ReturnToBacklog, Begin, Overlap
  <1>5. ASSUME NEW c \in Commands, NEW s \in Sessions, CancelFindsDead(c, s)
        PROVE  odd \subseteq odd'
    BY <1>5 DEF CancelFindsDead, Begin, Overlap
  <1>6. ASSUME NEW c \in Commands, MarkStarting(c) PROVE odd \subseteq odd'
    BY <1>6 DEF MarkStarting, Go, At, Session, RacesListing
  <1>7. ASSUME NEW c \in Commands, ReadFails(c) PROVE odd \subseteq odd'
    BY <1>7 DEF ReadFails, Go, Done, Idle, At
  <1>8. ASSUME NEW c \in Commands, RegisterTerminal(c) PROVE odd \subseteq odd'
    BY <1>8 DEF RegisterTerminal, Go, At, Registering, Session, RacesListing
  <1>9. ASSUME NEW p \in Processes, RecordExit(p) PROVE odd \subseteq odd'
    BY <1>9 DEF RecordExit
  <1>10. ASSUME LookInRegistry PROVE odd \subseteq odd'
    BY <1>10 DEF LookInRegistry, Skip
  <1>11. ASSUME NEW s \in Sessions, ShutEnded(s) PROVE odd \subseteq odd'
    BY <1>11 DEF ShutEnded, Shut
  <1>12. CASE UNCHANGED <<odd>>
    BY <1>12
  <1>13. ASSUME NEW c \in Commands, Requests(c) \/ Proceeds(c)
        PROVE  odd \subseteq odd'
    BY <1>13, <1>1, <1>2, <1>3, <1>4, <1>5, <1>6, <1>7, <1>8, <1>9, <1>10, <1>11, <1>12 DEF
       Requests, Proceeds, SwitchTimesOut, Done, Idle, Session, PersistMode, Go, Spawn, At,
       Spawning, SpawnFails, ProviderFails, MarkRunning, RegisterHandle, Registering,
       TerminalRefused, ClearMark, InputFails, Unmark, RollBack, GiveUp, RestoreMode,
       ShutDiscarded, Shut, CancelUnregisters
  <1> QED
    BY <1>1, <1>2, <1>3, <1>4, <1>5, <1>6, <1>7, <1>8, <1>9, <1>10, <1>11, <1>12, <1>13 DEF
       Next, Lists, ResumeShort, Exits, Reap, ListRunning, LookInTerminals, Skip, StopLost,
       ListRegistered, PickEnded, Listed, CloseProject, Restart, Idle

(***************************************************************************)
(* What a step of a command says of its kind, and what a starting mark     *)
(* says of the commands.                                                   *)
(***************************************************************************)

KindFits(c) ==
    /\ cmd[c].at = "idle" => cmd[c].kind \in {"other", "resume"}
    /\ cmd[c].at = "committed" => cmd[c].kind = "start"
    /\ cmd[c].at \in {"decided", "running"} => cmd[c].kind \in {"resume", "switch"}
    /\ cmd[c].at \in {"released", "restore"} => cmd[c].kind = "switch"
    /\ cmd[c].at \in {"marked", "spawned", "inserted", "failed", "unmarked"} =>
         cmd[c].kind \in {"start", "resume", "switch"}
    /\ cmd[c].at \in {"found", "discarded"} => cmd[c].kind = "other"
    /\ cmd[c].at = "marked" => ~(cmd[c].kind = "start" /\ cmd[c].mode = "tui")

Kinds == \A c \in Commands : KindFits(c)

\* A step keeps the kinds.
LEMMA KindsStep ==
    ASSUME TypeOK, Kinds, Next
    PROVE  Kinds'
  <1> SUFFICES ASSUME NEW d \in Commands PROVE KindFits(d)'
    BY DEF Kinds
  <1> USE DEF Kinds, KindFits
  <1>1. ASSUME NEW c \in Commands, NEW s \in Sessions, NEW mode \in Modes, StartSession(c, s, mode)
        PROVE  KindFits(d)'
    BY <1>1, TypeOK, Kinds DEF StartSession, Begin, TypeOK
  <1>2. ASSUME NEW c \in Commands, NEW s \in Sessions, ResumeSession(c, s) PROVE KindFits(d)'
    BY <1>2, TypeOK, Kinds DEF ResumeSession, Begin, TypeOK
  <1>3. ASSUME NEW c \in Commands, NEW s \in Sessions, SwitchMode(c, s) PROVE KindFits(d)'
    BY <1>3, TypeOK, Kinds DEF SwitchMode, Begin, TypeOK
  <1>4. ASSUME NEW c \in Commands, NEW s \in Sessions, ReturnToBacklog(c, s) PROVE KindFits(d)'
    BY <1>4, TypeOK, Kinds DEF ReturnToBacklog, Begin, TypeOK
  <1>5. ASSUME NEW c \in Commands, NEW s \in Sessions, CancelFindsDead(c, s) PROVE KindFits(d)'
    BY <1>5, TypeOK, Kinds DEF CancelFindsDead, Begin, TypeOK
  <1>6. ASSUME NEW c \in Commands, SwitchTimesOut(c) PROVE KindFits(d)'
    BY <1>6, TypeOK, Kinds DEF SwitchTimesOut, Done, Idle, Session, TypeOK
  <1>7. ASSUME NEW c \in Commands, PersistMode(c) PROVE KindFits(d)'
    <2>1. CASE row[Session(c)].deleted
      BY <2>1, <1>7, TypeOK, Kinds, DoneSteps DEF PersistMode, Session, Steps
    <2>2. CASE ~row[Session(c)].deleted
      BY <2>2, <1>7, TypeOK, Kinds, GoSteps DEF PersistMode, Session, Steps
    <2> QED
      BY <2>1, <2>2
  <1>8. ASSUME NEW c \in Commands, MarkStarting(c) PROVE KindFits(d)'
    BY <1>8, TypeOK, Kinds DEF MarkStarting, Go, At, Session, TypeOK, Modes
  <1>9. ASSUME NEW c \in Commands, NEW p \in Processes, Spawn(c, p) PROVE KindFits(d)'
    BY <1>9, TypeOK, Kinds DEF Spawn, At, Spawning, Session, TypeOK, Modes
  <1>10. ASSUME NEW c \in Commands, SpawnFails(c) PROVE KindFits(d)'
    BY <1>10, TypeOK, Kinds DEF SpawnFails, Go, At, Spawning, TypeOK, Modes
  <1>11. ASSUME NEW c \in Commands, ProviderFails(c) PROVE KindFits(d)'
    BY <1>11, TypeOK, Kinds DEF ProviderFails, Go, At, TypeOK, Modes
  <1>12. ASSUME NEW c \in Commands, ReadFails(c) PROVE KindFits(d)'
    <2>1. CASE cmd[c].kind # "switch"
      BY <2>1, <1>12, TypeOK, Kinds, DoneSteps DEF ReadFails, At, Steps
    <2>2. CASE cmd[c].kind = "switch"
      BY <2>2, <1>12, TypeOK, Kinds, GoSteps DEF ReadFails, At, Steps
    <2> QED
      BY <2>1, <2>2
  <1>13. ASSUME NEW c \in Commands, MarkRunning(c) PROVE KindFits(d)'
    <2>1. CASE row[Session(c)].deleted
      BY <2>1, <1>13, TypeOK, Kinds, GoSteps DEF MarkRunning, At, Session, Steps
    <2>2. CASE ~row[Session(c)].deleted
      BY <2>2, <1>13, TypeOK, Kinds, GoSteps DEF MarkRunning, At, Session, Steps
    <2> QED
      BY <2>1, <2>2
  <1>14. ASSUME NEW c \in Commands, RegisterHandle(c) PROVE KindFits(d)'
    BY <1>14, TypeOK, Kinds DEF RegisterHandle, Go, At, Registering, Session, TypeOK, Modes
  <1>15. ASSUME NEW c \in Commands, RegisterTerminal(c) PROVE KindFits(d)'
    BY <1>15, TypeOK, Kinds DEF RegisterTerminal, Go, At, Registering, Session, TypeOK,
       Modes
  <1>16. ASSUME NEW c \in Commands, TerminalRefused(c) PROVE KindFits(d)'
    BY <1>16, TypeOK, Kinds DEF TerminalRefused, Idle, At, Registering, Session, TypeOK,
       Modes
  <1>17. ASSUME NEW c \in Commands, ClearMark(c) PROVE KindFits(d)'
    BY <1>17, TypeOK, Kinds DEF ClearMark, Done, Idle, At, Session, TypeOK, Modes
  <1>18. ASSUME NEW c \in Commands, InputFails(c) PROVE KindFits(d)'
    BY <1>18, TypeOK, Kinds DEF InputFails, Go, At, Session, TypeOK, Modes
  <1>19. ASSUME NEW c \in Commands, Unmark(c) PROVE KindFits(d)'
    BY <1>19, TypeOK, Kinds DEF Unmark, Go, At, Session, TypeOK, Modes
  <1>20. ASSUME NEW c \in Commands, RollBack(c) PROVE KindFits(d)'
    BY <1>20, TypeOK, Kinds DEF RollBack, Done, Idle, At, Session, TypeOK, Modes
  <1>21. ASSUME NEW c \in Commands, GiveUp(c) PROVE KindFits(d)'
    <2>1. CASE cmd[c].kind # "switch"
      BY <2>1, <1>21, TypeOK, Kinds, DoneSteps DEF GiveUp, At, Steps
    <2>2. CASE cmd[c].kind = "switch"
      BY <2>2, <1>21, TypeOK, Kinds, GoSteps DEF GiveUp, At, Steps
    <2> QED
      BY <2>1, <2>2
  <1>22. ASSUME NEW c \in Commands, RestoreMode(c) PROVE KindFits(d)'
    BY <1>22, TypeOK, Kinds DEF RestoreMode, Done, Idle, Session, TypeOK
  <1>23. ASSUME NEW c \in Commands, ShutDiscarded(c) PROVE KindFits(d)'
    BY <1>23, TypeOK, Kinds DEF ShutDiscarded, Done, Idle, Session, Shut, TypeOK
  <1>24. ASSUME NEW c \in Commands, CancelUnregisters(c) PROVE KindFits(d)'
    BY <1>24, TypeOK, Kinds DEF CancelUnregisters, Done, Idle, Session, TypeOK
  <1>25. ASSUME Restart PROVE KindFits(d)'
    BY <1>25, TypeOK, Kinds DEF Restart, Idle, TypeOK
  <1>26. CASE UNCHANGED <<cmd>>
    BY <1>26, TypeOK, Kinds DEF TypeOK
  <1> QED
    BY <1>1, <1>2, <1>3, <1>4, <1>5, <1>6, <1>7, <1>8, <1>9, <1>10, <1>11, <1>12, <1>13,
       <1>14, <1>15, <1>16, <1>17, <1>18, <1>19, <1>20, <1>21, <1>22, <1>23, <1>24, <1>25,
       <1>26 DEF Next, Requests, Proceeds, Lists, ResumeShort, Exits, Reap, RecordExit,
       ListRunning, LookInTerminals, Skip, LookInRegistry, StopLost, ListRegistered,
       PickEnded, ShutEnded, Shut, Listed, CloseProject
\* The command that set a mark and has not cleared it.
MarkedBy(c, s) ==
    /\ cmd[c].session = s /\ cmd[c].at \in {"marked", "spawned", "running", "inserted", "failed"}
    /\ ~(cmd[c].kind = "start" /\ cmd[c].mode = "tui")

Marks == "leak" \notin odd => \A s \in starting : \E c \in Commands : MarkedBy(c, s)

\* A step keeps them.
LEMMA MarksStep ==
    ASSUME TypeOK, Kinds, Marks, Next
    PROVE  Marks'
  <1> SUFFICES ASSUME "leak" \notin odd', NEW t \in starting'
               PROVE  (\E c \in Commands : MarkedBy(c, t))'
    BY DEF Marks
  <1> USE DEF Kinds, KindFits, Marks, MarkedBy
  <1>0. "leak" \notin odd
    BY OddGrows
  <1>1. ASSUME NEW c \in Commands, NEW s \in Sessions, NEW mode \in Modes, StartSession(c, s, mode)
        PROVE  (\E e \in Commands : MarkedBy(e, t))'
    BY <1>1, <1>0, TypeOK, Kinds, Marks DEF StartSession, Begin, TypeOK, Overlap
  <1>2. ASSUME NEW c \in Commands, NEW s \in Sessions, ResumeSession(c, s)
        PROVE  (\E e \in Commands : MarkedBy(e, t))'
    BY <1>2, <1>0, TypeOK, Kinds, Marks DEF ResumeSession, Begin, TypeOK, Overlap
  <1>3. ASSUME NEW c \in Commands, NEW s \in Sessions, SwitchMode(c, s)
        PROVE  (\E e \in Commands : MarkedBy(e, t))'
    BY <1>3, <1>0, TypeOK, Kinds, Marks DEF SwitchMode, Begin, TypeOK, Overlap
  <1>4. ASSUME NEW c \in Commands, NEW s \in Sessions, ReturnToBacklog(c, s)
        PROVE  (\E e \in Commands : MarkedBy(e, t))'
    BY <1>4, <1>0, TypeOK, Kinds, Marks DEF ReturnToBacklog, Begin, TypeOK, Overlap
  <1>5. ASSUME NEW c \in Commands, NEW s \in Sessions, CancelFindsDead(c, s)
        PROVE  (\E e \in Commands : MarkedBy(e, t))'
    BY <1>5, <1>0, TypeOK, Kinds, Marks DEF CancelFindsDead, Begin, TypeOK, Overlap
  <1>6. ASSUME NEW c \in Commands, SwitchTimesOut(c) PROVE (\E e \in Commands : MarkedBy(e, t))'
    BY <1>6, <1>0, TypeOK, Kinds, Marks DEF SwitchTimesOut, Done, Idle, Session, TypeOK
  <1>7. ASSUME NEW c \in Commands, PersistMode(c) PROVE (\E e \in Commands : MarkedBy(e, t))'
    <2>1. CASE row[Session(c)].deleted
      BY <2>1, <1>7, <1>0, TypeOK, Kinds, Marks, DoneSteps DEF PersistMode, Session, Steps
    <2>2. CASE ~row[Session(c)].deleted
      BY <2>2, <1>7, <1>0, TypeOK, Kinds, Marks, GoSteps DEF PersistMode, Session, Steps
    <2> QED
      BY <2>1, <2>2
  <1>8. ASSUME NEW c \in Commands, MarkStarting(c) PROVE (\E e \in Commands : MarkedBy(e, t))'
    BY <1>8, <1>0, TypeOK, Kinds, Marks DEF MarkStarting, Go, At, Session, TypeOK, Modes,
       RacesListing
  <1>9. ASSUME NEW c \in Commands, NEW p \in Processes, Spawn(c, p)
        PROVE  (\E e \in Commands : MarkedBy(e, t))'
    BY <1>9, <1>0, TypeOK, Kinds, Marks DEF Spawn, At, Spawning, Session, TypeOK, Modes
  <1>10. ASSUME NEW c \in Commands, SpawnFails(c) PROVE (\E e \in Commands : MarkedBy(e, t))'
    BY <1>10, <1>0, TypeOK, Kinds, Marks DEF SpawnFails, Go, At, Spawning, TypeOK, Modes
  <1>11. ASSUME NEW c \in Commands, ProviderFails(c) PROVE (\E e \in Commands : MarkedBy(e, t))'
    BY <1>11, <1>0, TypeOK, Kinds, Marks DEF ProviderFails, Go, At, TypeOK, Modes
  <1>12. ASSUME NEW c \in Commands, ReadFails(c) PROVE (\E e \in Commands : MarkedBy(e, t))'
    <2>1. CASE cmd[c].kind # "switch"
      BY <2>1, <1>12, <1>0, TypeOK, Kinds, Marks, DoneSteps DEF ReadFails, At, Steps
    <2>2. CASE cmd[c].kind = "switch"
      BY <2>2, <1>12, <1>0, TypeOK, Kinds, Marks, GoSteps DEF ReadFails, At, Steps
    <2> QED
      BY <2>1, <2>2
  <1>13. ASSUME NEW c \in Commands, MarkRunning(c) PROVE (\E e \in Commands : MarkedBy(e, t))'
    <2>1. CASE row[Session(c)].deleted
      BY <2>1, <1>13, <1>0, TypeOK, Kinds, Marks, GoSteps DEF MarkRunning, At, Session, Steps
    <2>2. CASE ~row[Session(c)].deleted
      BY <2>2, <1>13, <1>0, TypeOK, Kinds, Marks, GoSteps DEF MarkRunning, At, Session, Steps
    <2> QED
      BY <2>1, <2>2
  <1>14. ASSUME NEW c \in Commands, RegisterHandle(c)
        PROVE  (\E e \in Commands : MarkedBy(e, t))'
    BY <1>14, <1>0, TypeOK, Kinds, Marks DEF RegisterHandle, Go, At, Registering, Session,
       TypeOK, Modes
  <1>15. ASSUME NEW c \in Commands, RegisterTerminal(c)
        PROVE  (\E e \in Commands : MarkedBy(e, t))'
    BY <1>15, <1>0, TypeOK, Kinds, Marks DEF RegisterTerminal, Go, At, Registering, Session,
       TypeOK, Modes, RacesListing
  <1>16. ASSUME NEW c \in Commands, TerminalRefused(c)
        PROVE  (\E e \in Commands : MarkedBy(e, t))'
    BY <1>16, <1>0, TypeOK, Kinds, Marks DEF TerminalRefused, Idle, At, Registering,
       Session, TypeOK, Modes
  <1>17. ASSUME NEW c \in Commands, ClearMark(c) PROVE (\E e \in Commands : MarkedBy(e, t))'
    BY <1>17, <1>0, TypeOK, Kinds, Marks DEF ClearMark, Done, Idle, At, Session, TypeOK,
       Modes
  <1>18. ASSUME NEW c \in Commands, InputFails(c) PROVE (\E e \in Commands : MarkedBy(e, t))'
    BY <1>18, <1>0, TypeOK, Kinds, Marks DEF InputFails, Go, At, Session, TypeOK, Modes
  <1>19. ASSUME NEW c \in Commands, Unmark(c) PROVE (\E e \in Commands : MarkedBy(e, t))'
    BY <1>19, <1>0, TypeOK, Kinds, Marks DEF Unmark, Go, At, Session, TypeOK, Modes
  <1>20. ASSUME NEW c \in Commands, RollBack(c) PROVE (\E e \in Commands : MarkedBy(e, t))'
    BY <1>20, <1>0, TypeOK, Kinds, Marks, DoneSteps DEF RollBack, At, Session
  <1>21. ASSUME NEW c \in Commands, GiveUp(c) PROVE (\E e \in Commands : MarkedBy(e, t))'
    <2>1. CASE cmd[c].kind # "switch"
      BY <2>1, <1>21, <1>0, TypeOK, Kinds, Marks, DoneSteps DEF GiveUp, At, Steps
    <2>2. CASE cmd[c].kind = "switch"
      BY <2>2, <1>21, <1>0, TypeOK, Kinds, Marks, GoSteps DEF GiveUp, At, Steps
    <2> QED
      BY <2>1, <2>2
  <1>22. ASSUME NEW c \in Commands, RestoreMode(c) PROVE (\E e \in Commands : MarkedBy(e, t))'
    BY <1>22, <1>0, TypeOK, Kinds, Marks, DoneSteps DEF RestoreMode, Session
  <1>23. ASSUME NEW c \in Commands, ShutDiscarded(c) PROVE (\E e \in Commands : MarkedBy(e, t))'
    BY <1>23, <1>0, TypeOK, Kinds, Marks DEF ShutDiscarded, Done, Idle, Session, Shut,
       TypeOK
  <1>24. ASSUME NEW c \in Commands, CancelUnregisters(c)
        PROVE  (\E e \in Commands : MarkedBy(e, t))'
    BY <1>24, <1>0, TypeOK, Kinds, Marks DEF CancelUnregisters, Done, Idle, Session, TypeOK
  <1>25. ASSUME NEW s \in Sessions, ShutEnded(s) PROVE (\E e \in Commands : MarkedBy(e, t))'
    BY <1>25, <1>0, TypeOK, Kinds, Marks DEF ShutEnded, Shut, TypeOK
  <1>26. ASSUME Restart PROVE (\E e \in Commands : MarkedBy(e, t))'
    BY <1>26, <1>0, TypeOK, Kinds, Marks DEF Restart, Idle, TypeOK
  <1>27. CASE UNCHANGED <<cmd, starting>>
    BY <1>27, <1>0, TypeOK, Kinds, Marks DEF TypeOK
  <1> QED
    BY <1>1, <1>2, <1>3, <1>4, <1>5, <1>6, <1>7, <1>8, <1>9, <1>10, <1>11, <1>12, <1>13,
       <1>14, <1>15, <1>16, <1>17, <1>18, <1>19, <1>20, <1>21, <1>22, <1>23, <1>24, <1>25,
       <1>26, <1>27 DEF Next, Requests, Proceeds, Lists, ResumeShort, Exits, Reap,
       RecordExit, ListRunning, LookInTerminals, Skip, LookInRegistry, StopLost,
       ListRegistered, PickEnded, Listed, CloseProject

\* A command makes a step.
Acts(c) == Requests(c) \/ Proceeds(c)

\* The others do not.
LEMMA OthersStay ==
    ASSUME TypeOK, NEW c \in Commands, Acts(c), NEW d \in Commands, d # c
    PROVE  cmd'[d] = cmd[d]
  <1>1. ASSUME NEW s \in Sessions, NEW mode \in Modes, StartSession(c, s, mode) PROVE cmd'[d] = cmd[d]
    BY <1>1, TypeOK, BeginSteps DEF StartSession
  <1>2. ASSUME NEW s \in Sessions, ResumeSession(c, s) PROVE cmd'[d] = cmd[d]
    BY <1>2, TypeOK, BeginSteps DEF ResumeSession
  <1>3. ASSUME NEW s \in Sessions, SwitchMode(c, s) PROVE cmd'[d] = cmd[d]
    BY <1>3, TypeOK, BeginSteps DEF SwitchMode
  <1>4. ASSUME NEW s \in Sessions, ReturnToBacklog(c, s) PROVE cmd'[d] = cmd[d]
    BY <1>4, TypeOK, BeginSteps DEF ReturnToBacklog
  <1>5. ASSUME NEW s \in Sessions, CancelFindsDead(c, s) PROVE cmd'[d] = cmd[d]
    BY <1>5, TypeOK, BeginSteps DEF CancelFindsDead
  <1>6. ASSUME SwitchTimesOut(c) PROVE cmd'[d] = cmd[d]
    BY <1>6, TypeOK, DoneSteps DEF SwitchTimesOut
  <1>7. ASSUME PersistMode(c) PROVE cmd'[d] = cmd[d]
    <2>1. CASE row[Session(c)].deleted
      BY <2>1, <1>7, TypeOK, DoneSteps DEF PersistMode, Session, Steps
    <2>2. CASE ~row[Session(c)].deleted
      BY <2>2, <1>7, TypeOK, GoSteps DEF PersistMode, Session, Steps
    <2> QED
      BY <2>1, <2>2
  <1>8. ASSUME MarkStarting(c) PROVE cmd'[d] = cmd[d]
    BY <1>8, TypeOK, GoSteps DEF MarkStarting, Steps
  <1>9. ASSUME NEW p \in Processes, Spawn(c, p) PROVE cmd'[d] = cmd[d]
    BY <1>9, TypeOK DEF Spawn, TypeOK
  <1>10. ASSUME SpawnFails(c) PROVE cmd'[d] = cmd[d]
    BY <1>10, TypeOK, GoSteps DEF SpawnFails, Steps
  <1>11. ASSUME ProviderFails(c) PROVE cmd'[d] = cmd[d]
    BY <1>11, TypeOK, GoSteps DEF ProviderFails, Steps
  <1>12. ASSUME ReadFails(c) PROVE cmd'[d] = cmd[d]
    <2>1. CASE cmd[c].kind # "switch"
      BY <2>1, <1>12, TypeOK, DoneSteps DEF ReadFails, At, Steps
    <2>2. CASE cmd[c].kind = "switch"
      BY <2>2, <1>12, TypeOK, GoSteps DEF ReadFails, At, Steps
    <2> QED
      BY <2>1, <2>2
  <1>13. ASSUME MarkRunning(c) PROVE cmd'[d] = cmd[d]
    <2>1. CASE row[Session(c)].deleted
      BY <2>1, <1>13, TypeOK, GoSteps DEF MarkRunning, At, Session, Steps
    <2>2. CASE ~row[Session(c)].deleted
      BY <2>2, <1>13, TypeOK, GoSteps DEF MarkRunning, At, Session, Steps
    <2> QED
      BY <2>1, <2>2
  <1>14. ASSUME RegisterHandle(c) PROVE cmd'[d] = cmd[d]
    BY <1>14, TypeOK, GoSteps DEF RegisterHandle, Steps
  <1>15. ASSUME RegisterTerminal(c) PROVE cmd'[d] = cmd[d]
    BY <1>15, TypeOK, GoSteps DEF RegisterTerminal, Steps
  <1>16. ASSUME TerminalRefused(c) PROVE cmd'[d] = cmd[d]
    BY <1>16, TypeOK DEF TerminalRefused, TypeOK
  <1>17. ASSUME ClearMark(c) PROVE cmd'[d] = cmd[d]
    BY <1>17, TypeOK, DoneSteps DEF ClearMark
  <1>18. ASSUME InputFails(c) PROVE cmd'[d] = cmd[d]
    BY <1>18, TypeOK, GoSteps DEF InputFails, Steps
  <1>19. ASSUME Unmark(c) PROVE cmd'[d] = cmd[d]
    BY <1>19, TypeOK, GoSteps DEF Unmark, Steps
  <1>20. ASSUME RollBack(c) PROVE cmd'[d] = cmd[d]
    BY <1>20, TypeOK, DoneSteps DEF RollBack
  <1>21. ASSUME GiveUp(c) PROVE cmd'[d] = cmd[d]
    <2>1. CASE cmd[c].kind # "switch"
      BY <2>1, <1>21, TypeOK, DoneSteps DEF GiveUp, At, Steps
    <2>2. CASE cmd[c].kind = "switch"
      BY <2>2, <1>21, TypeOK, GoSteps DEF GiveUp, At, Steps
    <2> QED
      BY <2>1, <2>2
  <1>22. ASSUME RestoreMode(c) PROVE cmd'[d] = cmd[d]
    BY <1>22, TypeOK, DoneSteps DEF RestoreMode
  <1>23. ASSUME ShutDiscarded(c) PROVE cmd'[d] = cmd[d]
    BY <1>23, TypeOK, DoneSteps DEF ShutDiscarded
  <1>24. ASSUME CancelUnregisters(c) PROVE cmd'[d] = cmd[d]
    BY <1>24, TypeOK, DoneSteps DEF CancelUnregisters
  <1> QED
    BY <1>1, <1>2, <1>3, <1>4, <1>5, <1>6, <1>7, <1>8, <1>9, <1>10, <1>11, <1>12, <1>13,
       <1>14, <1>15, <1>16, <1>17, <1>18, <1>19, <1>20, <1>21, <1>22, <1>23, <1>24 DEF Acts,
       Requests, Proceeds

LEMMA Unmoved ==
    ASSUME TypeOK, Next, NEW d \in Commands, ~Acts(d), ~Restart
    PROVE  cmd'[d] = cmd[d]
  <1>1. ASSUME NEW c \in Commands, Acts(c) PROVE cmd'[d] = cmd[d]
    BY <1>1, OthersStay
  <1>2. CASE UNCHANGED cmd
    BY <1>2
  <1> QED
    BY <1>1, <1>2 DEF Acts, Next, Lists, ResumeShort, Exits, Reap, RecordExit, ListRunning,
       LookInTerminals, LookInRegistry, StopLost, ListRegistered, PickEnded, ShutEnded,
       Listed, CloseProject


(***************************************************************************)
(* Commands of one session do not overlap, unless the history says so.     *)
(***************************************************************************)

Solo == "overlap" \notin odd

\* A thread is idle after a step, or its command goes on, or it has begun one.
Continues(c) ==
    \/ cmd'[c].at = "idle" /\ cmd'[c].kind = "other"
    \/ cmd'[c].at = "idle" /\ cmd'[c].kind = "resume" /\ cmd[c].kind = "resume"
       /\ cmd'[c].session = cmd[c].session
    \/ /\ cmd[c].at # "idle" /\ cmd'[c].kind = cmd[c].kind
       /\ cmd'[c].mode = cmd[c].mode /\ cmd'[c].session = cmd[c].session
    \/ /\ cmd[c].at = "idle"
       /\ Solo' => Busy(cmd'[c].session) = {}
       /\ \A d \in Commands \ {c} : cmd'[d] = cmd[d]
       /\ cmd'[c].kind = "start" =>
            \E s \in Sessions, mode \in Modes : StartSession(c, s, mode)
       /\ row'[cmd'[c].session].status # "none" \/ cmd'[c].kind = "other"
    \/ cmd'[c] = cmd[c]

LEMMA CommandContinues ==
    ASSUME TypeOK, Next, NEW d \in Commands
    PROVE  Continues(d)
  <1> USE DEF Continues, Solo
  <1>1. ASSUME NEW c \in Commands, NEW s \in Sessions, NEW mode \in Modes, StartSession(c, s, mode)
        PROVE  Continues(d)
    <2>1. /\ cmd'[c].session = s /\ cmd[c].at = "idle" /\ row'[s].status = "running"
          /\ \A e \in Commands \ {c} : cmd'[e] = cmd[e]
          /\ Solo' => Busy(s) = {}
      BY <1>1, TypeOK, BeginSteps DEF StartSession, TypeOK
    <2>2. CASE d = c
      BY <2>1, <2>2, <1>1
    <2>3. CASE d # c
      BY <2>1, <2>3
    <2> QED
      BY <2>2, <2>3
  <1>2. ASSUME NEW c \in Commands, NEW s \in Sessions, ResumeSession(c, s) PROVE Continues(d)
    BY <1>2, TypeOK, BeginSteps DEF ResumeSession, Exists, TypeOK
  <1>3. ASSUME NEW c \in Commands, NEW s \in Sessions, SwitchMode(c, s) PROVE Continues(d)
    BY <1>3, TypeOK, BeginSteps DEF SwitchMode, Exists, TypeOK
  <1>4. ASSUME NEW c \in Commands, NEW s \in Sessions, ReturnToBacklog(c, s) PROVE Continues(d)
    BY <1>4, TypeOK, BeginSteps DEF ReturnToBacklog, Exists, TypeOK
  <1>5. ASSUME NEW c \in Commands, NEW s \in Sessions, CancelFindsDead(c, s) PROVE Continues(d)
    BY <1>5, TypeOK, BeginSteps DEF CancelFindsDead, Exists, TypeOK
  <1>6. ASSUME NEW c \in Commands, SwitchTimesOut(c) PROVE Continues(d)
    BY <1>6, TypeOK, DoneSteps DEF SwitchTimesOut, Session
  <1>7. ASSUME NEW c \in Commands, PersistMode(c) PROVE Continues(d)
    <2>1. CASE row[Session(c)].deleted
      BY <2>1, <1>7, TypeOK, DoneSteps DEF PersistMode, Session, Steps
    <2>2. CASE ~row[Session(c)].deleted
      BY <2>2, <1>7, TypeOK, GoSteps DEF PersistMode, Session, Steps
    <2> QED
      BY <2>1, <2>2
  <1>8. ASSUME NEW c \in Commands, MarkStarting(c) PROVE Continues(d)
    BY <1>8, TypeOK, GoSteps DEF MarkStarting, At, Session, Steps
  <1>9. ASSUME NEW c \in Commands, NEW p \in Processes, Spawn(c, p) PROVE Continues(d)
    BY <1>9, TypeOK DEF Spawn, At, Spawning, Session, TypeOK, Modes
  <1>10. ASSUME NEW c \in Commands, SpawnFails(c) PROVE Continues(d)
    BY <1>10, TypeOK, GoSteps DEF SpawnFails, At, Spawning, Steps
  <1>11. ASSUME NEW c \in Commands, ProviderFails(c) PROVE Continues(d)
    BY <1>11, TypeOK, GoSteps DEF ProviderFails, At, Steps
  <1>12. ASSUME NEW c \in Commands, ReadFails(c) PROVE Continues(d)
    <2>1. CASE cmd[c].kind # "switch"
      BY <2>1, <1>12, TypeOK, DoneSteps DEF ReadFails, At, Steps
    <2>2. CASE cmd[c].kind = "switch"
      BY <2>2, <1>12, TypeOK, GoSteps DEF ReadFails, At, Steps
    <2> QED
      BY <2>1, <2>2
  <1>13. ASSUME NEW c \in Commands, MarkRunning(c) PROVE Continues(d)
    <2>1. CASE row[Session(c)].deleted
      BY <2>1, <1>13, TypeOK, GoSteps DEF MarkRunning, At, Session, Steps
    <2>2. CASE ~row[Session(c)].deleted
      BY <2>2, <1>13, TypeOK, GoSteps DEF MarkRunning, At, Session, Steps
    <2> QED
      BY <2>1, <2>2
  <1>14. ASSUME NEW c \in Commands, RegisterHandle(c) PROVE Continues(d)
    BY <1>14, TypeOK, GoSteps DEF RegisterHandle, At, Session, Registering, Steps
  <1>15. ASSUME NEW c \in Commands, RegisterTerminal(c) PROVE Continues(d)
    BY <1>15, TypeOK, GoSteps DEF RegisterTerminal, At, Session, Registering, Steps
  <1>16. ASSUME NEW c \in Commands, TerminalRefused(c) PROVE Continues(d)
    BY <1>16, TypeOK DEF TerminalRefused, Idle, At, Registering, Session, TypeOK, Modes
  <1>17. ASSUME NEW c \in Commands, ClearMark(c) PROVE Continues(d)
    BY <1>17, TypeOK, DoneSteps DEF ClearMark, At, Session
  <1>18. ASSUME NEW c \in Commands, InputFails(c) PROVE Continues(d)
    BY <1>18, TypeOK, GoSteps DEF InputFails, At, Session, Steps
  <1>19. ASSUME NEW c \in Commands, Unmark(c) PROVE Continues(d)
    BY <1>19, TypeOK, GoSteps DEF Unmark, At, Session, Steps
  <1>20. ASSUME NEW c \in Commands, RollBack(c) PROVE Continues(d)
    BY <1>20, TypeOK, DoneSteps DEF RollBack, At, Session
  <1>21. ASSUME NEW c \in Commands, GiveUp(c) PROVE Continues(d)
    <2>1. CASE cmd[c].kind # "switch"
      BY <2>1, <1>21, TypeOK, DoneSteps DEF GiveUp, At, Steps
    <2>2. CASE cmd[c].kind = "switch"
      BY <2>2, <1>21, TypeOK, GoSteps DEF GiveUp, At, Steps
    <2> QED
      BY <2>1, <2>2
  <1>22. ASSUME NEW c \in Commands, RestoreMode(c) PROVE Continues(d)
    BY <1>22, TypeOK, DoneSteps DEF RestoreMode, Session
  <1>23. ASSUME NEW c \in Commands, ShutDiscarded(c) PROVE Continues(d)
    BY <1>23, TypeOK, DoneSteps DEF ShutDiscarded, Session
  <1>24. ASSUME NEW c \in Commands, CancelUnregisters(c) PROVE Continues(d)
    BY <1>24, TypeOK, DoneSteps DEF CancelUnregisters, Session
  <1>25. ASSUME Restart PROVE Continues(d)
    BY <1>25, TypeOK DEF Restart, Idle, TypeOK
  <1>26. CASE UNCHANGED <<cmd>>
    BY <1>26, TypeOK DEF TypeOK
  <1> QED
    BY <1>1, <1>2, <1>3, <1>4, <1>5, <1>6, <1>7, <1>8, <1>9, <1>10, <1>11, <1>12, <1>13,
       <1>14, <1>15, <1>16, <1>17, <1>18, <1>19, <1>20, <1>21, <1>22, <1>23, <1>24, <1>25,
       <1>26 DEF Next, Requests, Proceeds, Lists, ResumeShort, Exits, Reap, RecordExit,
       ListRunning, LookInTerminals, Skip, LookInRegistry, StopLost, ListRegistered,
       PickEnded, ShutEnded, Shut, Listed, CloseProject

\* Two commands under way are of two sessions.
Alone ==
    Solo => \A c, d \in Commands :
              cmd[c].at # "idle" /\ cmd[d].at # "idle" /\ cmd[c].session = cmd[d].session => c = d

LEMMA AloneStep ==
    ASSUME TypeOK, Alone, Next
    PROVE  Alone'
  <1> SUFFICES ASSUME Solo', NEW c \in Commands, NEW d \in Commands,
                      cmd'[c].at # "idle", cmd'[d].at # "idle", cmd'[c].session = cmd'[d].session
               PROVE  c = d
    BY DEF Alone
  <1>1. Solo
    BY OddGrows DEF Solo
  <1>2. Continues(c) /\ Continues(d)
    BY CommandContinues
  <1> QED
    BY <1>1, <1>2 DEF Continues, Alone, Busy


(***************************************************************************)
(* The rows: a command under way and a process that was started have one,  *)
(* and the issue has at most one.                                          *)
(***************************************************************************)

\* A row is not taken back.
LEMMA StatusStays ==
    ASSUME TypeOK, Next, NEW t \in Sessions, row[t].status # "none"
    PROVE  row'[t].status # "none"
  <1>1. ASSUME NEW c \in Commands, NEW s \in Sessions, NEW mode \in Modes, StartSession(c, s, mode)
        PROVE  row'[t].status # "none"
    BY <1>1, TypeOK DEF StartSession, TypeOK
  <1>2. ASSUME NEW c \in Commands, NEW s \in Sessions, ReturnToBacklog(c, s)
        PROVE  row'[t].status # "none"
    BY <1>2, TypeOK DEF ReturnToBacklog, TypeOK, Terminated
  <1>3. ASSUME NEW c \in Commands, PersistMode(c) PROVE row'[t].status # "none"
    BY <1>3, TypeOK DEF PersistMode, Session, TypeOK
  <1>4. ASSUME NEW c \in Commands, MarkRunning(c) PROVE row'[t].status # "none"
    BY <1>4, TypeOK DEF MarkRunning, Session, At, TypeOK, Modes
  <1>5. ASSUME NEW c \in Commands, TerminalRefused(c) PROVE row'[t].status # "none"
    BY <1>5, TypeOK DEF TerminalRefused, Session, At, Registering, TypeOK, Modes, Terminated
  <1>6. ASSUME NEW c \in Commands, InputFails(c) PROVE row'[t].status # "none"
    BY <1>6, TypeOK DEF InputFails, Session, At, TypeOK, Modes, Terminated
  <1>7. ASSUME NEW c \in Commands, RollBack(c) PROVE row'[t].status # "none"
    BY <1>7, TypeOK DEF RollBack, Session, At, TypeOK, Modes
  <1>8. ASSUME NEW c \in Commands, RestoreMode(c) PROVE row'[t].status # "none"
    BY <1>8, TypeOK DEF RestoreMode, Session, TypeOK
  <1>9. ASSUME NEW s \in Sessions, ResumeShort(s) PROVE row'[t].status # "none"
    BY <1>9, TypeOK DEF ResumeShort, TypeOK
  <1>10. ASSUME NEW p \in Processes, RecordExit(p) PROVE row'[t].status # "none"
    BY <1>10, TypeOK DEF RecordExit, TypeOK, Terminated
  <1>11. ASSUME StopLost PROVE row'[t].status # "none"
    BY <1>11, TypeOK DEF StopLost, TypeOK, Terminated
  <1>12. CASE UNCHANGED <<row>>
    BY <1>12, TypeOK
  <1>13. ASSUME NEW c \in Commands, Requests(c) \/ Proceeds(c)
        PROVE  row'[t].status # "none"
    BY <1>13, <1>1, <1>2, <1>3, <1>4, <1>5, <1>6, <1>7, <1>8, <1>9, <1>10, <1>11, <1>12 DEF
       Requests, Proceeds, ResumeSession, Begin, SwitchMode, CancelFindsDead,
       SwitchTimesOut, Done, Idle, Session, MarkStarting, Go, At, Spawn, Spawning,
       SpawnFails, ProviderFails, ReadFails, RegisterHandle, Registering, RegisterTerminal,
       ClearMark, Unmark, GiveUp, ShutDiscarded, Shut, CancelUnregisters
  <1> QED
    BY <1>1, <1>2, <1>3, <1>4, <1>5, <1>6, <1>7, <1>8, <1>9, <1>10, <1>11, <1>12, <1>13 DEF
       Next, Lists, Exits, Reap, ListRunning, LookInTerminals, Skip, LookInRegistry,
       ListRegistered, PickEnded, ShutEnded, Shut, Listed, CloseProject, Restart, Idle

RowsFit ==
    /\ \A c \in Commands : cmd[c].kind # "other" => row[cmd[c].session].status # "none"
    /\ \A p \in Processes : process[p].state # "unborn" => row[process[p].of].status # "none"

\* Only a start makes a session exist; only a rollback and the return to the
\* backlog make it exist no longer.
LEMMA ExistsStays ==
    ASSUME TypeOK, Kinds, RowsFit, Next, NEW t \in Sessions
    PROVE  \/ Exists(t)' <=> Exists(t)
           \/ \E c \in Commands : \/ \E mode \in Modes : StartSession(c, t, mode)
                                  \/ RollBack(c) /\ cmd[c].session = t
                                  \/ ReturnToBacklog(c, t)
  <1>1. ASSUME NEW c \in Commands, NEW s \in Sessions, NEW mode \in Modes, StartSession(c, s, mode)
        PROVE  \/ Exists(t)' <=> Exists(t)
               \/ \E d \in Commands : \/ \E m \in Modes : StartSession(d, t, m)
                                      \/ RollBack(d) /\ cmd[d].session = t
                                      \/ ReturnToBacklog(d, t)
    <2>1. CASE s = t
      BY <2>1, <1>1
    <2>2. CASE s # t
      BY <2>2, <1>1, TypeOK DEF StartSession, TypeOK, Exists
    <2> QED
      BY <2>1, <2>2
  <1>2. ASSUME NEW c \in Commands, NEW s \in Sessions, ReturnToBacklog(c, s)
        PROVE  \/ Exists(t)' <=> Exists(t)
               \/ \E d \in Commands : \/ \E m \in Modes : StartSession(d, t, m)
                                      \/ RollBack(d) /\ cmd[d].session = t
                                      \/ ReturnToBacklog(d, t)
    <2>1. CASE s = t
      BY <2>1, <1>2
    <2>2. CASE s # t
      BY <2>2, <1>2, TypeOK DEF ReturnToBacklog, TypeOK, Terminated, Exists
    <2> QED
      BY <2>1, <2>2
  <1>3. ASSUME NEW c \in Commands, PersistMode(c)
        PROVE  \/ Exists(t)' <=> Exists(t)
               \/ \E d \in Commands : \/ \E m \in Modes : StartSession(d, t, m)
                                      \/ RollBack(d) /\ cmd[d].session = t
                                      \/ ReturnToBacklog(d, t)
    BY <1>3, TypeOK, Kinds, RowsFit DEF PersistMode, Session, TypeOK, Exists, Kinds, KindFits,
       RowsFit
  <1>4. ASSUME NEW c \in Commands, MarkRunning(c)
        PROVE  \/ Exists(t)' <=> Exists(t)
               \/ \E d \in Commands : \/ \E m \in Modes : StartSession(d, t, m)
                                      \/ RollBack(d) /\ cmd[d].session = t
                                      \/ ReturnToBacklog(d, t)
    BY <1>4, TypeOK, Kinds, RowsFit DEF MarkRunning, Session, At, TypeOK, Modes, Exists,
       Kinds, KindFits, RowsFit
  <1>5. ASSUME NEW c \in Commands, TerminalRefused(c)
        PROVE  \/ Exists(t)' <=> Exists(t)
               \/ \E d \in Commands : \/ \E m \in Modes : StartSession(d, t, m)
                                      \/ RollBack(d) /\ cmd[d].session = t
                                      \/ ReturnToBacklog(d, t)
    BY <1>5, TypeOK, Kinds, RowsFit DEF TerminalRefused, Session, At, Registering, TypeOK,
       Modes, Terminated, Exists, Kinds, KindFits, RowsFit
  <1>6. ASSUME NEW c \in Commands, InputFails(c)
        PROVE  \/ Exists(t)' <=> Exists(t)
               \/ \E d \in Commands : \/ \E m \in Modes : StartSession(d, t, m)
                                      \/ RollBack(d) /\ cmd[d].session = t
                                      \/ ReturnToBacklog(d, t)
    BY <1>6, TypeOK, Kinds, RowsFit DEF InputFails, Session, At, TypeOK, Modes, Terminated,
       Exists, Kinds, KindFits, RowsFit
  <1>7. ASSUME NEW c \in Commands, RollBack(c)
        PROVE  \/ Exists(t)' <=> Exists(t)
               \/ \E d \in Commands : \/ \E m \in Modes : StartSession(d, t, m)
                                      \/ RollBack(d) /\ cmd[d].session = t
                                      \/ ReturnToBacklog(d, t)
    <2>1. CASE cmd[c].session = t
      BY <2>1, <1>7
    <2>2. CASE cmd[c].session # t
      BY <2>2, <1>7, TypeOK DEF RollBack, Session, At, TypeOK, Modes, Exists
    <2> QED
      BY <2>1, <2>2
  <1>8. ASSUME NEW c \in Commands, RestoreMode(c)
        PROVE  \/ Exists(t)' <=> Exists(t)
               \/ \E d \in Commands : \/ \E m \in Modes : StartSession(d, t, m)
                                      \/ RollBack(d) /\ cmd[d].session = t
                                      \/ ReturnToBacklog(d, t)
    BY <1>8, TypeOK, Kinds, RowsFit DEF RestoreMode, Session, TypeOK, Exists, Kinds, KindFits,
       RowsFit
  <1>9. ASSUME NEW s \in Sessions, ResumeShort(s)
        PROVE  \/ Exists(t)' <=> Exists(t)
               \/ \E d \in Commands : \/ \E m \in Modes : StartSession(d, t, m)
                                      \/ RollBack(d) /\ cmd[d].session = t
                                      \/ ReturnToBacklog(d, t)
    BY <1>9, TypeOK, Kinds, RowsFit DEF ResumeShort, TypeOK, Exists, Kinds, KindFits, RowsFit
  <1>10. ASSUME NEW p \in Processes, RecordExit(p)
        PROVE  \/ Exists(t)' <=> Exists(t)
               \/ \E d \in Commands : \/ \E m \in Modes : StartSession(d, t, m)
                                      \/ RollBack(d) /\ cmd[d].session = t
                                      \/ ReturnToBacklog(d, t)
    BY <1>10, TypeOK, Kinds, RowsFit DEF RecordExit, TypeOK, Terminated, Exists, Kinds,
       KindFits, RowsFit
  <1>11. ASSUME StopLost
        PROVE  \/ Exists(t)' <=> Exists(t)
               \/ \E d \in Commands : \/ \E m \in Modes : StartSession(d, t, m)
                                      \/ RollBack(d) /\ cmd[d].session = t
                                      \/ ReturnToBacklog(d, t)
    BY <1>11, TypeOK, Kinds, RowsFit DEF StopLost, TypeOK, Terminated, Exists, Kinds, KindFits,
       RowsFit
  <1>12. CASE UNCHANGED <<row>>
    BY <1>12, TypeOK, Kinds, RowsFit DEF Exists, Kinds, KindFits, RowsFit
  <1>13. ASSUME NEW c \in Commands, Requests(c) \/ Proceeds(c)
        PROVE  \/ Exists(t)' <=> Exists(t)
               \/ \E d \in Commands : \/ \E m \in Modes : StartSession(d, t, m)
                                      \/ RollBack(d) /\ cmd[d].session = t
                                      \/ ReturnToBacklog(d, t)
    BY <1>13, <1>1, <1>2, <1>3, <1>4, <1>5, <1>6, <1>7, <1>8, <1>9, <1>10, <1>11, <1>12 DEF
       Requests, Proceeds, ResumeSession, Begin, SwitchMode, CancelFindsDead,
       SwitchTimesOut, Done, Idle, Session, MarkStarting, Go, At, Spawn, Spawning,
       SpawnFails, ProviderFails, ReadFails, RegisterHandle, Registering, RegisterTerminal,
       ClearMark, Unmark, GiveUp, ShutDiscarded, Shut, CancelUnregisters
  <1> QED
    BY <1>1, <1>2, <1>3, <1>4, <1>5, <1>6, <1>7, <1>8, <1>9, <1>10, <1>11, <1>12, <1>13 DEF
       Next, Lists, Exits, Reap, ListRunning, LookInTerminals, Skip, LookInRegistry,
       ListRegistered, PickEnded, ShutEnded, Shut, Listed, CloseProject, Restart, Idle

\* What a thread's step changes of a process.
LEMMA WaiterSteps ==
    ASSUME process \in ProcessTypes, NEW q, NEW w, process' = [process EXCEPT ![q].waiter = w]
    PROVE  \A p \in Processes :
             /\ process'[p].of = process[p].of
             /\ process'[p].state = process[p].state
             /\ p # q => process'[p].waiter = process[p].waiter
             /\ p = q => process'[p].waiter = w
  BY DEF ProcessTypes

\* A process is of the session it was started for.
LEMMA ProcessStays ==
    ASSUME TypeOK, Next, NEW p \in Processes
    PROVE  \/ /\ process'[p].of = process[p].of
              /\ process'[p].state = "unborn" <=> process[p].state = "unborn"
              /\ process'[p].state = "alive" => process[p].state = "alive"
           \/ \E c \in Commands : Spawn(c, p)
  <1> DEFINE Stays == \/ /\ process'[p].of = process[p].of
                         /\ process'[p].state = "unborn" <=> process[p].state = "unborn"
                         /\ process'[p].state = "alive" => process[p].state = "alive"
                      \/ \E c \in Commands : Spawn(c, p)
  <1>1. ASSUME NEW c \in Commands, NEW s \in Sessions, SwitchMode(c, s) PROVE Stays
    BY <1>1, TypeOK, KilledLess DEF SwitchMode, TypeOK, ProcessTypes
  <1>2. ASSUME NEW c \in Commands, NEW q \in Processes, Spawn(c, q) PROVE Stays
    <2>1. CASE p = q
      BY <2>1, <1>2
    <2>2. CASE p # q
      BY <2>2, <1>2, TypeOK DEF Spawn, TypeOK
    <2> QED
      BY <2>1, <2>2
  <1>3. ASSUME NEW c \in Commands, ReadFails(c) PROVE Stays
    BY <1>3, TypeOK, KilledLess DEF ReadFails, TypeOK, ProcessTypes
  <1>4. ASSUME NEW c \in Commands, RegisterHandle(c) PROVE Stays
    BY <1>4, TypeOK, KilledLess DEF RegisterHandle, TypeOK, ProcessTypes
  <1>5. ASSUME NEW c \in Commands, RegisterTerminal(c) PROVE Stays
    <2>1. process' = [process EXCEPT ![cmd[c].process].waiter = "waits"]
      BY <1>5 DEF RegisterTerminal
    <2>2. process \in ProcessTypes
      BY TypeOK DEF TypeOK, ProcessTypes
    <2> QED
      BY <2>1, <2>2 DEF ProcessTypes
  <1>6. ASSUME NEW c \in Commands, TerminalRefused(c) PROVE Stays
    BY <1>6, TypeOK, KilledLess DEF TerminalRefused, TypeOK, ProcessTypes
  <1>7. ASSUME NEW c \in Commands, InputFails(c) PROVE Stays
    BY <1>7, TypeOK, KilledLess DEF InputFails, TypeOK, ProcessTypes
  <1>8. ASSUME NEW c \in Commands, RollBack(c) PROVE Stays
    BY <1>8, TypeOK, KilledLess DEF RollBack, TypeOK, ProcessTypes
  <1>9. ASSUME NEW c \in Commands, GiveUp(c) PROVE Stays
    BY <1>9, TypeOK, KilledLess DEF GiveUp, TypeOK, ProcessTypes
  <1>10. ASSUME NEW c \in Commands, ShutDiscarded(c) PROVE Stays
    BY <1>10, TypeOK, KilledLess DEF ShutDiscarded, Shut, TypeOK, ProcessTypes
  <1>11. ASSUME NEW c \in Commands, CancelUnregisters(c) PROVE Stays
    BY <1>11, TypeOK, KilledLess DEF CancelUnregisters, TypeOK, ProcessTypes
  <1>12. ASSUME NEW q \in Processes, Exits(q) PROVE Stays
    BY <1>12, TypeOK, KilledLess DEF Exits, TypeOK, ProcessTypes
  <1>13. ASSUME NEW q \in Processes, Reap(q) PROVE Stays
    BY <1>13, TypeOK, WaiterSteps DEF Reap, TypeOK, ProcessTypes
  <1>14. ASSUME NEW q \in Processes, RecordExit(q) PROVE Stays
    <2>1. process' = [process EXCEPT ![q].waiter = "none"]
      BY <1>14 DEF RecordExit
    <2>2. process \in ProcessTypes
      BY TypeOK DEF TypeOK, ProcessTypes
    <2> QED
      BY <2>1, <2>2 DEF ProcessTypes
  <1>15. ASSUME NEW s \in Sessions, ShutEnded(s) PROVE Stays
    <2>1. process' = Killed({handle[s], pty[s]})
      BY <1>15 DEF ShutEnded, Shut
    <2> QED
      BY <2>1, TypeOK, KilledLess DEF TypeOK, ProcessTypes
  <1>16. ASSUME CloseProject PROVE Stays
    BY <1>16, TypeOK, KilledLess DEF CloseProject, TypeOK, ProcessTypes
  <1>17. ASSUME Restart PROVE Stays
    BY <1>17, TypeOK DEF Restart, Idle, TypeOK
  <1>18. CASE UNCHANGED <<process>>
    BY <1>18, TypeOK DEF TypeOK
  <1>19. ASSUME NEW c \in Commands, Requests(c) \/ Proceeds(c)
        PROVE  Stays
    BY <1>19, <1>1, <1>2, <1>3, <1>4, <1>5, <1>6, <1>7, <1>8, <1>9, <1>10, <1>11, <1>12,
       <1>13, <1>14, <1>15, <1>16, <1>17, <1>18 DEF Requests, Proceeds, StartSession, Begin,
       ResumeSession, ReturnToBacklog, CancelFindsDead, SwitchTimesOut, Done, Idle, Session,
       PersistMode, Go, MarkStarting, At, SpawnFails, Spawning, ProviderFails, MarkRunning,
       ClearMark, Unmark, RestoreMode
  <1> QED
    BY <1>1, <1>2, <1>3, <1>4, <1>5, <1>6, <1>7, <1>8, <1>9, <1>10, <1>11, <1>12, <1>13,
       <1>14, <1>15, <1>16, <1>17, <1>18, <1>19 DEF Next, Lists, ResumeShort, ListRunning,
       LookInTerminals, Skip, LookInRegistry, StopLost, ListRegistered, PickEnded, Listed

LEMMA RowsFitStep ==
    ASSUME TypeOK, Kinds, RowsFit, Next
    PROVE  RowsFit'
  <1>1. ASSUME NEW c \in Commands, cmd'[c].kind # "other"
        PROVE  row'[cmd'[c].session].status # "none"
    <2>1. Continues(c)
      BY CommandContinues
    <2>2. cmd[c].session \in Sessions
      BY TypeOK DEF TypeOK
    <2> QED
      BY <2>1, <2>2, <1>1, StatusStays DEF Continues, RowsFit
  <1>2. ASSUME NEW p \in Processes, process'[p].state # "unborn"
        PROVE  row'[process'[p].of].status # "none"
    <2>1. process[p].of \in Sessions
      BY TypeOK DEF TypeOK
    <2>2. \/ process[p].state # "unborn" /\ process'[p].of = process[p].of
          \/ \E c \in Commands : Spawn(c, p)
      BY <1>2, ProcessStays
    <2>3. CASE \E c \in Commands : Spawn(c, p)
      <3>1. PICK c \in Commands : Spawn(c, p)
        BY <2>3
      <3>2. cmd[c].kind # "other" /\ cmd[c].session \in Sessions
        BY <3>1, TypeOK DEF Kinds, KindFits, Spawn, Spawning, At, TypeOK
      <3>3. process'[p].of = cmd[c].session
        BY <3>1, TypeOK DEF Spawn, Session, TypeOK
      <3> QED
        BY <3>2, <3>3, StatusStays DEF RowsFit
    <2> QED
      BY <2>1, <2>2, <2>3, StatusStays DEF RowsFit
  <1> QED
    BY <1>1, <1>2 DEF RowsFit

\* A session under start exists, no two exist, and the issue follows.
OneSession ==
    Solo => /\ \A c \in Commands : cmd[c].kind = "start" => Exists(cmd[c].session)
            /\ \A s, t \in Sessions : Exists(s) /\ Exists(t) => s = t
            /\ issue = "running" <=> \E s \in Sessions : Exists(s)

\* A start that is under way goes on.
LEMMA StartsGoOn ==
    ASSUME TypeOK, Next, NEW c \in Commands, cmd'[c].kind = "start",
           \A s \in Sessions, mode \in Modes : ~StartSession(c, s, mode)
    PROVE  cmd[c].kind = "start" /\ cmd'[c].session = cmd[c].session
  <1>1. Continues(c)
    BY CommandContinues
  <1> QED
    BY <1>1 DEF Continues


\* So does the status of the issue but for these.
LEMMA IssueStays ==
    ASSUME Next, \A c \in Commands, s \in Sessions :
                   /\ \A mode \in Modes : ~StartSession(c, s, mode)
                   /\ ~ReturnToBacklog(c, s) /\ ~RollBack(c)
    PROVE  issue' = issue
  <1>1. ASSUME NEW c \in Commands, RollBack(c) PROVE issue' = issue
    BY <1>1, SomeSessionTyped
  <1>2. CASE UNCHANGED issue
    BY <1>2
  <1> QED
    BY <1>1, <1>2 DEF Next, Requests, Proceeds, Lists, ResumeSession, SwitchMode,
       CancelFindsDead, SwitchTimesOut, PersistMode, MarkStarting, Spawn, SpawnFails,
       ProviderFails, ReadFails, MarkRunning, RegisterHandle, RegisterTerminal,
       TerminalRefused, ClearMark, InputFails, Unmark, GiveUp, RestoreMode, ShutDiscarded,
       CancelUnregisters, ResumeShort, Exits, Reap, RecordExit, ListRunning,
       LookInTerminals, LookInRegistry, StopLost, ListRegistered, PickEnded, ShutEnded,
       Listed, CloseProject, Restart

LEMMA OneSessionStep ==
    ASSUME TypeOK, Kinds, RowsFit, Alone, OneSession, Next
    PROVE  OneSession'
  <1> SUFFICES ASSUME Solo'
               PROVE  /\ \A c \in Commands : cmd'[c].kind = "start" => Exists(cmd[c].session)'
                      /\ \A s, t \in Sessions : Exists(s)' /\ Exists(t)' => s = t
                      /\ issue' = "running" <=> \E s \in Sessions : Exists(s)'
    BY DEF OneSession, Exists
  <1>1. Solo
    BY OddGrows DEF Solo
  <1>2. \A c \in Commands : cmd[c].session \in Sessions
    BY TypeOK DEF TypeOK
  <1>3. ASSUME NEW c \in Commands, NEW s \in Sessions, NEW mode \in Modes, StartSession(c, s, mode)
        PROVE  /\ \A d \in Commands : cmd'[d].kind = "start" => Exists(cmd[d].session)'
               /\ \A t, u \in Sessions : Exists(t)' /\ Exists(u)' => t = u
               /\ issue' = "running" <=> \E t \in Sessions : Exists(t)'
    <2>1. \A t \in Sessions : Exists(t)' <=> t = s
      BY <1>3, TypeOK DEF StartSession, Exists, TypeOK
    <2>2. cmd'[c].session = s /\ \A d \in Commands \ {c} : cmd'[d] = cmd[d]
      BY <1>3, TypeOK, BeginSteps DEF StartSession
    <2>3. \A d \in Commands : cmd[d].kind # "start"
      BY <1>1, <1>2, <1>3 DEF OneSession, StartSession
    <2>4. issue' = "running"
      BY <1>3 DEF StartSession
    <2> QED
      BY <2>1, <2>2, <2>3, <2>4
  <1>4. ASSUME NEW t \in Sessions, Exists(t), NEW c \in Commands,
               \A d \in Commands \ {c} : cmd'[d] = cmd[d],
               cmd'[c].kind # "start", issue' = "backlog", ~Exists(t)',
               \A d \in Commands \ {c} : cmd[d].kind = "start" => cmd[d].session # t,
               \A u \in Sessions \ {t} : row'[u] = row[u]
        PROVE  /\ \A d \in Commands : cmd'[d].kind = "start" => Exists(cmd[d].session)'
               /\ \A u, v \in Sessions : Exists(u)' /\ Exists(v)' => u = v
               /\ issue' = "running" <=> \E u \in Sessions : Exists(u)'
    <2>1. \A u \in Sessions : ~Exists(u)'
      BY <1>1, <1>4 DEF OneSession, Exists
    <2>2. \A d \in Commands : cmd'[d].kind # "start"
      BY <1>1, <1>2, <1>4 DEF OneSession
    <2> QED
      BY <2>1, <2>2, <1>4
  <1>5. ASSUME NEW c \in Commands, RollBack(c)
        PROVE  /\ \A d \in Commands : cmd'[d].kind = "start" => Exists(cmd[d].session)'
               /\ \A u, v \in Sessions : Exists(u)' /\ Exists(v)' => u = v
               /\ issue' = "running" <=> \E u \in Sessions : Exists(u)'
    <2>1. /\ \A d \in Commands \ {c} : cmd'[d] = cmd[d]
          /\ cmd'[c].kind # "start"
      BY <1>5, TypeOK, DoneSteps DEF RollBack
    <2>2. cmd[c].kind = "start" /\ cmd[c].at # "idle" /\ issue' = "backlog"
      BY <1>5 DEF RollBack, At
    <2>3. PICK s \in Sessions : s = cmd[c].session
      BY <1>2
    <2>4. Exists(s)
      BY <1>1, <2>2, <2>3 DEF OneSession
    <2>5. ~Exists(s)' /\ \A u \in Sessions \ {s} : row'[u] = row[u]
      BY <2>3, <1>5, TypeOK DEF RollBack, Session, Exists, TypeOK
    <2>6. \A d \in Commands \ {c} : cmd[d].kind = "start" => cmd[d].session # s
      BY <1>1, <2>2, <2>3 DEF Alone, Kinds, KindFits
    <2> QED
      BY <2>1, <2>2, <2>4, <2>5, <2>6, <1>4
  <1>6. ASSUME NEW c \in Commands, NEW s \in Sessions, ReturnToBacklog(c, s)
        PROVE  /\ \A d \in Commands : cmd'[d].kind = "start" => Exists(cmd[d].session)'
               /\ \A u, v \in Sessions : Exists(u)' /\ Exists(v)' => u = v
               /\ issue' = "running" <=> \E u \in Sessions : Exists(u)'
    <2>1. /\ \A d \in Commands \ {c} : cmd'[d] = cmd[d]
          /\ cmd'[c].kind # "start" /\ Busy(s) = {}
      BY <1>6, TypeOK, BeginSteps DEF ReturnToBacklog, Solo
    <2>2. Exists(s) /\ issue' = "backlog"
      BY <1>6 DEF ReturnToBacklog
    <2>4. ~Exists(s)' /\ \A u \in Sessions \ {s} : row'[u] = row[u]
      BY <1>6, TypeOK DEF ReturnToBacklog, Terminated, Exists, TypeOK
    <2>5. \A d \in Commands \ {c} : cmd[d].kind = "start" => cmd[d].session # s
      BY <2>1 DEF Busy, Kinds, KindFits
    <2> QED
      BY <2>1, <2>2, <2>4, <2>5, <1>4
  <1>7. ASSUME \A c \in Commands, s \in Sessions :
                 /\ \A mode \in Modes : ~StartSession(c, s, mode)
                 /\ ~ReturnToBacklog(c, s) /\ ~RollBack(c)
        PROVE  /\ \A d \in Commands : cmd'[d].kind = "start" => Exists(cmd[d].session)'
               /\ \A u, v \in Sessions : Exists(u)' /\ Exists(v)' => u = v
               /\ issue' = "running" <=> \E u \in Sessions : Exists(u)'
    <2>1. \A t \in Sessions : Exists(t)' <=> Exists(t)
      BY <1>7, ExistsStays
    <2>2. \A d \in Commands : cmd'[d].kind = "start" =>
                                cmd[d].kind = "start" /\ cmd'[d].session = cmd[d].session
      BY <1>7, StartsGoOn
    <2>3. issue' = issue
      BY <1>7, IssueStays
    <2> QED
      BY <1>1, <1>2, <2>1, <2>2, <2>3 DEF OneSession
  <1> QED
    BY <1>3, <1>5, <1>6, <1>7, SomeSessionTyped

(***************************************************************************)
(* Who holds a process: a table, or the command that started it; and a     *)
(* command that is about to start one meets no other.                      *)
(***************************************************************************)

Registered ==
    /\ \A s \in Sessions :
         /\ handle[s] # 0 => process[handle[s]].of = s /\ process[handle[s]].state # "unborn"
         /\ pty[s] # 0 => process[pty[s]].of = s /\ process[pty[s]].state # "unborn"
    /\ \A c \in Commands :
         cmd[c].process # 0 => /\ process[cmd[c].process].of = cmd[c].session
                               /\ process[cmd[c].process].state # "unborn"
    /\ \A p \in Processes :
         /\ process[p].waiter = "waits" => pty[process[p].of] = p
         /\ process[p].state = "unborn" => process[p].waiter = "none"

\* A number that names a process names one.
LEMMA NamesProcess ==
    ASSUME NEW p \in 0..MaxProcesses, p # 0
    PROVE  p \in Processes
  BY LifecycleAssumption DEF Processes

\* A table's entry is cleared or comes from the command that registers.
HandleKept(t) ==
    \/ handle'[t] = 0 \/ handle'[t] = handle[t]
    \/ \E c \in Commands : handle'[t] = cmd[c].process /\ cmd[c].session = t

TerminalKept(t) ==
    \/ pty'[t] = 0 \/ pty'[t] = pty[t]
    \/ \E c \in Commands : pty'[t] = cmd[c].process /\ cmd[c].session = t

LEMMA HandleSteps ==
    ASSUME TypeOK, Next, NEW t \in Sessions
    PROVE  HandleKept(t)
  <1>1. ASSUME NEW c \in Commands, NEW s \in Sessions, SwitchMode(c, s) PROVE HandleKept(t)
    BY <1>1, TypeOK DEF SwitchMode, Begin, TypeOK, HandleKept
  <1>2. ASSUME NEW c \in Commands, RegisterHandle(c) PROVE HandleKept(t)
    BY <1>2, TypeOK DEF RegisterHandle, Go, At, Registering, Session, TypeOK, HandleKept
  <1>3. ASSUME NEW c \in Commands, ShutDiscarded(c) PROVE HandleKept(t)
    BY <1>3, TypeOK DEF ShutDiscarded, Done, Idle, Session, Shut, TypeOK, HandleKept
  <1>4. ASSUME NEW c \in Commands, CancelUnregisters(c) PROVE HandleKept(t)
    BY <1>4, TypeOK DEF CancelUnregisters, Done, Idle, Session, TypeOK, HandleKept
  <1>5. ASSUME NEW s \in Sessions, ShutEnded(s) PROVE HandleKept(t)
    BY <1>5, TypeOK DEF ShutEnded, Shut, TypeOK, HandleKept
  <1>6. ASSUME CloseProject PROVE HandleKept(t)
    BY <1>6, TypeOK DEF CloseProject, TypeOK, HandleKept
  <1>7. ASSUME Restart PROVE HandleKept(t)
    BY <1>7, TypeOK DEF Restart, Idle, TypeOK, HandleKept
  <1>8. CASE UNCHANGED <<handle>>
    BY <1>8, TypeOK DEF TypeOK, HandleKept
  <1>9. ASSUME NEW c \in Commands, Requests(c) \/ Proceeds(c)
        PROVE  HandleKept(t)
    BY <1>9, <1>1, <1>2, <1>3, <1>4, <1>5, <1>6, <1>7, <1>8 DEF Requests, Proceeds,
       StartSession, Begin, ResumeSession, ReturnToBacklog, CancelFindsDead, SwitchTimesOut,
       Done, Idle, Session, PersistMode, Go, MarkStarting, At, Spawn, Spawning, SpawnFails,
       ProviderFails, ReadFails, MarkRunning, RegisterTerminal, Registering,
       TerminalRefused, ClearMark, InputFails, Unmark, RollBack, GiveUp, RestoreMode
  <1> QED
    BY <1>1, <1>2, <1>3, <1>4, <1>5, <1>6, <1>7, <1>8, <1>9 DEF Next, Lists, ResumeShort,
       Exits, Reap, RecordExit, ListRunning, LookInTerminals, Skip, LookInRegistry,
       StopLost, ListRegistered, PickEnded, Listed

LEMMA TerminalSteps ==
    ASSUME TypeOK, Next, NEW t \in Sessions
    PROVE  TerminalKept(t)
  <1>1. ASSUME NEW c \in Commands, RegisterTerminal(c) PROVE TerminalKept(t)
    BY <1>1, TypeOK DEF RegisterTerminal, Go, At, Registering, Session, TypeOK, TerminalKept
  <1>2. ASSUME NEW p \in Processes, Reap(p) PROVE TerminalKept(t)
    BY <1>2, TypeOK DEF Reap, TypeOK, TerminalKept
  <1>3. ASSUME Restart PROVE TerminalKept(t)
    BY <1>3, TypeOK DEF Restart, Idle, TypeOK, TerminalKept
  <1>4. CASE UNCHANGED <<pty>>
    BY <1>4, TypeOK DEF TypeOK, TerminalKept
  <1>5. ASSUME NEW c \in Commands, Requests(c) \/ Proceeds(c)
        PROVE  TerminalKept(t)
    BY <1>5, <1>1, <1>2, <1>3, <1>4 DEF Requests, Proceeds, StartSession, Begin,
       ResumeSession, SwitchMode, ReturnToBacklog, CancelFindsDead, SwitchTimesOut, Done,
       Idle, Session, PersistMode, Go, MarkStarting, At, Spawn, Spawning, SpawnFails,
       ProviderFails, ReadFails, MarkRunning, RegisterHandle, Registering, TerminalRefused,
       ClearMark, InputFails, Unmark, RollBack, GiveUp, RestoreMode, ShutDiscarded, Shut,
       CancelUnregisters
  <1> QED
    BY <1>1, <1>2, <1>3, <1>4, <1>5 DEF Next, Lists, ResumeShort, Exits, RecordExit,
       ListRunning, LookInTerminals, Skip, LookInRegistry, StopLost, ListRegistered,
       PickEnded, ShutEnded, Shut, Listed, CloseProject

\* What a table names was started for the session.
LEMMA TablesStep ==
    ASSUME TypeOK, Registered, Next, NEW t \in Sessions
    PROVE  /\ handle'[t] # 0 => process'[handle'[t]].of = t /\ process'[handle'[t]].state # "unborn"
           /\ pty'[t] # 0 => process'[pty'[t]].of = t /\ process'[pty'[t]].state # "unborn"
  <1> DEFINE Serves(p) == p = 0 \/ (process[p].of = t /\ process[p].state # "unborn")
             ServesAfter(p) == p = 0 \/ (process'[p].of = t /\ process'[p].state # "unborn")
  <1>1. ASSUME NEW p \in 0..MaxProcesses, Serves(p)
        PROVE  ServesAfter(p)
    <2>1. CASE p = 0
      BY <2>1 DEF ServesAfter
    <2>2. CASE p # 0
      <3>1. p \in Processes
        BY <2>2, NamesProcess
      <3>2. ~\E c \in Commands : Spawn(c, p)
        BY <2>2, <1>1 DEF Spawn, Serves
      <3>3. process'[p].of = process[p].of /\ (process'[p].state = "unborn" <=> process[p].state = "unborn")
        BY <3>1, <3>2, ProcessStays
      <3> QED
        BY <3>3, <2>2, <1>1 DEF Serves, ServesAfter
    <2> QED
      BY <2>1, <2>2
  <1>2. handle[t] \in 0..MaxProcesses /\ pty[t] \in 0..MaxProcesses
    BY TypeOK DEF TypeOK
  <1>3. Serves(handle[t]) /\ Serves(pty[t])
    BY DEF Registered, Serves
  <1>4. ASSUME NEW c \in Commands, cmd[c].session = t
        PROVE  cmd[c].process \in 0..MaxProcesses /\ Serves(cmd[c].process)
    BY <1>4, TypeOK DEF TypeOK, Registered, Serves
  <1>5. ServesAfter(0)
    BY DEF ServesAfter
  <1> HIDE DEF Serves, ServesAfter
  <1>6. ServesAfter(handle'[t])
    BY <1>1, <1>2, <1>3, <1>4, <1>5, HandleSteps DEF HandleKept
  <1>7. ServesAfter(pty'[t])
    BY <1>1, <1>2, <1>3, <1>4, <1>5, TerminalSteps DEF TerminalKept
  <1> QED
    BY <1>6, <1>7 DEF ServesAfter


\* The process a command has was started for its session.
ProcessKept(c) ==
    \/ cmd'[c].process = 0
    \/ cmd'[c].process = cmd[c].process /\ cmd'[c].session = cmd[c].session
    \/ \E p \in Processes :
         Spawn(c, p) /\ cmd'[c].process = p /\ cmd'[c].session = cmd[c].session

LEMMA CommandProcess ==
    ASSUME TypeOK, Next, NEW d \in Commands
    PROVE  ProcessKept(d)
  <1>1. ASSUME NEW c \in Commands, NEW s \in Sessions, NEW mode \in Modes, StartSession(c, s, mode)
        PROVE  ProcessKept(d)
    BY <1>1, TypeOK, BeginSteps DEF StartSession, ProcessKept
  <1>2. ASSUME NEW c \in Commands, NEW s \in Sessions, ResumeSession(c, s) PROVE ProcessKept(d)
    BY <1>2, TypeOK, BeginSteps DEF ResumeSession, ProcessKept
  <1>3. ASSUME NEW c \in Commands, NEW s \in Sessions, SwitchMode(c, s) PROVE ProcessKept(d)
    BY <1>3, TypeOK, BeginSteps DEF SwitchMode, ProcessKept
  <1>4. ASSUME NEW c \in Commands, NEW s \in Sessions, ReturnToBacklog(c, s)
        PROVE  ProcessKept(d)
    BY <1>4, TypeOK, BeginSteps DEF ReturnToBacklog, ProcessKept
  <1>5. ASSUME NEW c \in Commands, NEW s \in Sessions, CancelFindsDead(c, s)
        PROVE  ProcessKept(d)
    BY <1>5, TypeOK, BeginSteps DEF CancelFindsDead, ProcessKept
  <1>6. ASSUME NEW c \in Commands, SwitchTimesOut(c) PROVE ProcessKept(d)
    BY <1>6, TypeOK, DoneSteps DEF SwitchTimesOut, Session, ProcessKept
  <1>7. ASSUME NEW c \in Commands, PersistMode(c) PROVE ProcessKept(d)
    <2>1. CASE row[Session(c)].deleted
      BY <2>1, <1>7, TypeOK, DoneSteps DEF PersistMode, Session, Steps, ProcessKept
    <2>2. CASE ~row[Session(c)].deleted
      BY <2>2, <1>7, TypeOK, GoSteps DEF PersistMode, Session, Steps, ProcessKept
    <2> QED
      BY <2>1, <2>2
  <1>8. ASSUME NEW c \in Commands, MarkStarting(c) PROVE ProcessKept(d)
    BY <1>8, TypeOK, GoSteps DEF MarkStarting, At, Session, Steps, ProcessKept
  <1>9. ASSUME NEW c \in Commands, NEW p \in Processes, Spawn(c, p) PROVE ProcessKept(d)
    <2>1. CASE d = c
      BY <2>1, <1>9, TypeOK DEF Spawn, TypeOK, ProcessKept
    <2>2. CASE d # c
      BY <2>2, <1>9, TypeOK DEF Spawn, TypeOK, ProcessKept
    <2> QED
      BY <2>1, <2>2
  <1>10. ASSUME NEW c \in Commands, SpawnFails(c) PROVE ProcessKept(d)
    BY <1>10, TypeOK, GoSteps DEF SpawnFails, At, Spawning, Steps, ProcessKept
  <1>11. ASSUME NEW c \in Commands, ProviderFails(c) PROVE ProcessKept(d)
    BY <1>11, TypeOK, GoSteps DEF ProviderFails, At, Steps, ProcessKept
  <1>12. ASSUME NEW c \in Commands, ReadFails(c) PROVE ProcessKept(d)
    <2>1. CASE cmd[c].kind # "switch"
      BY <2>1, <1>12, TypeOK, DoneSteps DEF ReadFails, At, Steps, ProcessKept
    <2>2. CASE cmd[c].kind = "switch"
      BY <2>2, <1>12, TypeOK, GoSteps DEF ReadFails, At, Steps, ProcessKept
    <2> QED
      BY <2>1, <2>2
  <1>13. ASSUME NEW c \in Commands, MarkRunning(c) PROVE ProcessKept(d)
    <2>1. CASE row[Session(c)].deleted
      BY <2>1, <1>13, TypeOK, GoSteps DEF MarkRunning, At, Session, Steps, ProcessKept
    <2>2. CASE ~row[Session(c)].deleted
      BY <2>2, <1>13, TypeOK, GoSteps DEF MarkRunning, At, Session, Steps, ProcessKept
    <2> QED
      BY <2>1, <2>2
  <1>14. ASSUME NEW c \in Commands, RegisterHandle(c) PROVE ProcessKept(d)
    BY <1>14, TypeOK, GoSteps DEF RegisterHandle, At, Session, Registering, Steps, ProcessKept
  <1>15. ASSUME NEW c \in Commands, RegisterTerminal(c) PROVE ProcessKept(d)
    BY <1>15, TypeOK, GoSteps DEF RegisterTerminal, At, Session, Registering, Steps,
       ProcessKept
  <1>16. ASSUME NEW c \in Commands, TerminalRefused(c) PROVE ProcessKept(d)
    BY <1>16, TypeOK DEF TerminalRefused, Idle, At, Registering, Session, TypeOK, Modes,
       ProcessKept
  <1>17. ASSUME NEW c \in Commands, ClearMark(c) PROVE ProcessKept(d)
    BY <1>17, TypeOK, DoneSteps DEF ClearMark, At, Session, ProcessKept
  <1>18. ASSUME NEW c \in Commands, InputFails(c) PROVE ProcessKept(d)
    BY <1>18, TypeOK, GoSteps DEF InputFails, At, Session, Steps, ProcessKept
  <1>19. ASSUME NEW c \in Commands, Unmark(c) PROVE ProcessKept(d)
    BY <1>19, TypeOK, GoSteps DEF Unmark, At, Session, Steps, ProcessKept
  <1>20. ASSUME NEW c \in Commands, RollBack(c) PROVE ProcessKept(d)
    BY <1>20, TypeOK, DoneSteps DEF RollBack, At, Session, ProcessKept
  <1>21. ASSUME NEW c \in Commands, GiveUp(c) PROVE ProcessKept(d)
    <2>1. CASE cmd[c].kind # "switch"
      BY <2>1, <1>21, TypeOK, DoneSteps DEF GiveUp, At, Steps, ProcessKept
    <2>2. CASE cmd[c].kind = "switch"
      BY <2>2, <1>21, TypeOK, GoSteps DEF GiveUp, At, Steps, ProcessKept
    <2> QED
      BY <2>1, <2>2
  <1>22. ASSUME NEW c \in Commands, RestoreMode(c) PROVE ProcessKept(d)
    BY <1>22, TypeOK, DoneSteps DEF RestoreMode, Session, ProcessKept
  <1>23. ASSUME NEW c \in Commands, ShutDiscarded(c) PROVE ProcessKept(d)
    BY <1>23, TypeOK, DoneSteps DEF ShutDiscarded, Session, ProcessKept
  <1>24. ASSUME NEW c \in Commands, CancelUnregisters(c) PROVE ProcessKept(d)
    BY <1>24, TypeOK, DoneSteps DEF CancelUnregisters, Session, ProcessKept
  <1>25. ASSUME Restart PROVE ProcessKept(d)
    BY <1>25 DEF Restart, Idle, ProcessKept
  <1>26. CASE UNCHANGED <<cmd>>
    BY <1>26, TypeOK DEF TypeOK, ProcessKept
  <1> QED
    BY <1>1, <1>2, <1>3, <1>4, <1>5, <1>6, <1>7, <1>8, <1>9, <1>10, <1>11, <1>12, <1>13,
       <1>14, <1>15, <1>16, <1>17, <1>18, <1>19, <1>20, <1>21, <1>22, <1>23, <1>24, <1>25,
       <1>26 DEF Next, Requests, Proceeds, Lists, ResumeShort, Exits, Reap, RecordExit,
       ListRunning, LookInTerminals, Skip, LookInRegistry, StopLost, ListRegistered,
       PickEnded, ShutEnded, Shut, Listed, CloseProject

LEMMA CommandsHaveTheirs ==
    ASSUME TypeOK, Registered, Next, NEW c \in Commands, cmd'[c].process # 0
    PROVE  /\ process'[cmd'[c].process].of = cmd'[c].session
           /\ process'[cmd'[c].process].state # "unborn"
  <1>1. CASE cmd'[c].process = cmd[c].process /\ cmd'[c].session = cmd[c].session
    <2> DEFINE p == cmd[c].process
    <2>1. p \in Processes
      BY <1>1, NamesProcess, TypeOK DEF TypeOK
    <2>2. process[p].of = cmd[c].session /\ process[p].state # "unborn"
      BY <1>1 DEF Registered
    <2>3. ~\E d \in Commands : Spawn(d, p)
      BY <2>2 DEF Spawn
    <2>4. process'[p].of = process[p].of /\ process'[p].state # "unborn"
      BY <2>1, <2>2, <2>3, ProcessStays
    <2> QED
      BY <1>1, <2>2, <2>4
  <1>2. ASSUME NEW p \in Processes, Spawn(c, p), cmd'[c].process = p,
               cmd'[c].session = cmd[c].session
        PROVE  process'[p].of = cmd'[c].session /\ process'[p].state # "unborn"
    BY <1>2, TypeOK DEF Spawn, Session, TypeOK
  <1> QED
    BY <1>1, <1>2, CommandProcess DEF ProcessKept

WaiterFits(p) ==
    /\ process[p].waiter = "waits" => pty[process[p].of] = p
    /\ process[p].state = "unborn" => process[p].waiter = "none"

\* A thread waits for the process the terminals name.
LEMMA WaitersStep ==
    ASSUME TypeOK, Registered, Next, NEW r \in Processes
    PROVE  WaiterFits(r)'
  <1>0. \A p \in Processes : WaiterFits(p)
    BY DEF Registered, WaiterFits
  <1>1. ASSUME NEW c \in Commands, NEW s \in Sessions, SwitchMode(c, s) PROVE WaiterFits(r)'
    <2>1. pty' = pty
      BY <1>1 DEF SwitchMode
    <2>2. /\ process'[r].of = process[r].of /\ process'[r].waiter = process[r].waiter
          /\ process'[r].state = "unborn" => process[r].state = "unborn"
      BY <1>1, TypeOK, KilledLess DEF SwitchMode, TypeOK, ProcessTypes
    <2> QED
      BY <1>0, <2>1, <2>2 DEF WaiterFits
  <1>2. ASSUME NEW c \in Commands, NEW p \in Processes, Spawn(c, p) PROVE WaiterFits(r)'
    <2>1. CASE p = r
      BY <2>1, <1>2, TypeOK DEF Spawn, TypeOK, WaiterFits
    <2>2. CASE p # r
      BY <2>2, <1>0, <1>2, TypeOK DEF Spawn, TypeOK, WaiterFits
    <2> QED
      BY <2>1, <2>2
  <1>3. ASSUME NEW c \in Commands, ReadFails(c) PROVE WaiterFits(r)'
    <2>1. pty' = pty
      BY <1>3 DEF ReadFails
    <2>2. /\ process'[r].of = process[r].of /\ process'[r].waiter = process[r].waiter
          /\ process'[r].state = "unborn" => process[r].state = "unborn"
      BY <1>3, TypeOK, KilledLess DEF ReadFails, TypeOK, ProcessTypes
    <2> QED
      BY <1>0, <2>1, <2>2 DEF WaiterFits
  <1>4. ASSUME NEW c \in Commands, RegisterHandle(c) PROVE WaiterFits(r)'
    <2>1. pty' = pty
      BY <1>4 DEF RegisterHandle
    <2>2. /\ process'[r].of = process[r].of /\ process'[r].waiter = process[r].waiter
          /\ process'[r].state = "unborn" => process[r].state = "unborn"
      BY <1>4, TypeOK, KilledLess DEF RegisterHandle, TypeOK, ProcessTypes
    <2> QED
      BY <1>0, <2>1, <2>2 DEF WaiterFits
  <1>5. ASSUME NEW c \in Commands, RegisterTerminal(c) PROVE WaiterFits(r)'
    <2> DEFINE q == cmd[c].process
    <2>1. /\ process' = [process EXCEPT ![q].waiter = "waits"]
          /\ pty' = [pty EXCEPT ![cmd[c].session] = q] /\ pty[cmd[c].session] = 0
          /\ cmd[c].session \in Sessions
      BY <1>5, TypeOK DEF RegisterTerminal, Session, TypeOK
    <2>2. CASE r = q
      <3>1. process[q].of = cmd[c].session /\ process[q].state # "unborn"
        BY <2>2, LifecycleAssumption DEF Registered, Processes
      <3>2. process'[q].of = process[q].of /\ process'[q].state = process[q].state
        BY <2>1, <2>2, TypeOK DEF TypeOK
      <3> QED
        BY <2>1, <2>2, <3>1, <3>2, TypeOK DEF WaiterFits, TypeOK
    <2>3. CASE r # q
      <3>1. process'[r] = process[r]
        BY <2>1, <2>3, TypeOK DEF TypeOK
      <3>2. process[r].waiter = "waits" => process[r].of # cmd[c].session
        BY <1>0, <2>1, LifecycleAssumption DEF WaiterFits, Processes
      <3>3. process[r].of \in Sessions /\ pty \in [Sessions -> 0..MaxProcesses]
        BY TypeOK DEF TypeOK
      <3> QED
        BY <1>0, <2>1, <3>1, <3>2, <3>3 DEF WaiterFits
    <2> QED
      BY <2>2, <2>3
  <1>6. ASSUME NEW c \in Commands, TerminalRefused(c) PROVE WaiterFits(r)'
    <2>1. pty' = pty
      BY <1>6 DEF TerminalRefused
    <2>2. /\ process'[r].of = process[r].of /\ process'[r].waiter = process[r].waiter
          /\ process'[r].state = "unborn" => process[r].state = "unborn"
      BY <1>6, TypeOK, KilledLess DEF TerminalRefused, TypeOK, ProcessTypes
    <2> QED
      BY <1>0, <2>1, <2>2 DEF WaiterFits
  <1>7. ASSUME NEW c \in Commands, InputFails(c) PROVE WaiterFits(r)'
    <2>1. pty' = pty
      BY <1>7 DEF InputFails
    <2>2. /\ process'[r].of = process[r].of /\ process'[r].waiter = process[r].waiter
          /\ process'[r].state = "unborn" => process[r].state = "unborn"
      BY <1>7, TypeOK, KilledLess DEF InputFails, TypeOK, ProcessTypes
    <2> QED
      BY <1>0, <2>1, <2>2 DEF WaiterFits
  <1>8. ASSUME NEW c \in Commands, RollBack(c) PROVE WaiterFits(r)'
    <2>1. pty' = pty
      BY <1>8 DEF RollBack
    <2>2. /\ process'[r].of = process[r].of /\ process'[r].waiter = process[r].waiter
          /\ process'[r].state = "unborn" => process[r].state = "unborn"
      BY <1>8, TypeOK, KilledLess DEF RollBack, TypeOK, ProcessTypes
    <2> QED
      BY <1>0, <2>1, <2>2 DEF WaiterFits
  <1>9. ASSUME NEW c \in Commands, GiveUp(c) PROVE WaiterFits(r)'
    <2>1. pty' = pty
      BY <1>9 DEF GiveUp
    <2>2. /\ process'[r].of = process[r].of /\ process'[r].waiter = process[r].waiter
          /\ process'[r].state = "unborn" => process[r].state = "unborn"
      BY <1>9, TypeOK, KilledLess DEF GiveUp, TypeOK, ProcessTypes
    <2> QED
      BY <1>0, <2>1, <2>2 DEF WaiterFits
  <1>10. ASSUME NEW c \in Commands, ShutDiscarded(c) PROVE WaiterFits(r)'
    <2>1. pty' = pty
      BY <1>10 DEF ShutDiscarded
    <2>2. /\ process'[r].of = process[r].of /\ process'[r].waiter = process[r].waiter
          /\ process'[r].state = "unborn" => process[r].state = "unborn"
      BY <1>10, TypeOK, KilledLess DEF ShutDiscarded, Shut, TypeOK, ProcessTypes
    <2> QED
      BY <1>0, <2>1, <2>2 DEF WaiterFits
  <1>11. ASSUME NEW c \in Commands, CancelUnregisters(c) PROVE WaiterFits(r)'
    <2>1. pty' = pty
      BY <1>11 DEF CancelUnregisters
    <2>2. /\ process'[r].of = process[r].of /\ process'[r].waiter = process[r].waiter
          /\ process'[r].state = "unborn" => process[r].state = "unborn"
      BY <1>11, TypeOK, KilledLess DEF CancelUnregisters, TypeOK, ProcessTypes
    <2> QED
      BY <1>0, <2>1, <2>2 DEF WaiterFits
  <1>12. ASSUME NEW p \in Processes, Exits(p) PROVE WaiterFits(r)'
    <2>1. pty' = pty
      BY <1>12 DEF Exits
    <2>2. /\ process'[r].of = process[r].of /\ process'[r].waiter = process[r].waiter
          /\ process'[r].state = "unborn" => process[r].state = "unborn"
      BY <1>12, TypeOK, KilledLess DEF Exits, TypeOK, ProcessTypes
    <2> QED
      BY <1>0, <2>1, <2>2 DEF WaiterFits
  <1>13. ASSUME NEW p \in Processes, Reap(p) PROVE WaiterFits(r)'
    <2>1. /\ process' = [process EXCEPT ![p].waiter = "reaped"]
          /\ pty' = [pty EXCEPT ![process[p].of] = 0]
          /\ process[p].state = "dead" /\ process[p].waiter = "waits"
      BY <1>13 DEF Reap
    <2>2. CASE r = p
      <3>1. process'[p].state = "dead" /\ process'[p].waiter = "reaped"
        BY <2>1, TypeOK DEF TypeOK
      <3> QED
        BY <2>2, <3>1 DEF WaiterFits
    <2>3. CASE r # p
      <3>1. process'[r] = process[r]
        BY <2>1, <2>3, TypeOK DEF TypeOK
      <3>2. process[r].waiter = "waits" => process[r].of # process[p].of
        BY <1>0, <2>1, <2>3 DEF WaiterFits
      <3>3. process[r].of \in Sessions /\ pty \in [Sessions -> 0..MaxProcesses]
        BY TypeOK DEF TypeOK
      <3> QED
        BY <1>0, <2>1, <3>1, <3>2, <3>3 DEF WaiterFits
    <2> QED
      BY <2>2, <2>3
  <1>14. ASSUME NEW p \in Processes, RecordExit(p) PROVE WaiterFits(r)'
    <2>1. process' = [process EXCEPT ![p].waiter = "none"] /\ pty' = pty
      BY <1>14 DEF RecordExit
    <2>2. /\ process'[r].of = process[r].of /\ process'[r].state = process[r].state
          /\ process'[r].waiter \in {"none", process[r].waiter}
      BY <2>1, TypeOK DEF TypeOK
    <2> QED
      BY <1>0, <2>1, <2>2 DEF WaiterFits
  <1>15. ASSUME NEW s \in Sessions, ShutEnded(s) PROVE WaiterFits(r)'
    <2>1. pty' = pty
      BY <1>15 DEF ShutEnded
    <2>2. /\ process'[r].of = process[r].of /\ process'[r].waiter = process[r].waiter
          /\ process'[r].state = "unborn" => process[r].state = "unborn"
      <3>1. process' = Killed({handle[s], pty[s]})
        BY <1>15 DEF ShutEnded, Shut
      <3> QED
        BY <3>1, TypeOK, KilledLess DEF TypeOK, ProcessTypes
    <2> QED
      BY <1>0, <2>1, <2>2 DEF WaiterFits
  <1>16. ASSUME CloseProject PROVE WaiterFits(r)'
    <2>1. pty' = pty
      BY <1>16 DEF CloseProject
    <2>2. /\ process'[r].of = process[r].of /\ process'[r].waiter = process[r].waiter
          /\ process'[r].state = "unborn" => process[r].state = "unborn"
      BY <1>16, TypeOK, KilledLess DEF CloseProject, TypeOK, ProcessTypes
    <2> QED
      BY <1>0, <2>1, <2>2 DEF WaiterFits
  <1>17. ASSUME Restart PROVE WaiterFits(r)'
    <2>1. \/ process[r].state = "unborn" /\ process'[r] = process[r]
          \/ process'[r].state = "dead" /\ process'[r].waiter = "none"
      BY <1>17, TypeOK DEF Restart, TypeOK
    <2> QED
      BY <1>0, <2>1 DEF WaiterFits
  <1>18. CASE UNCHANGED <<process, pty>>
    BY <1>18, <1>0 DEF WaiterFits
  <1>19. ASSUME NEW c \in Commands, Requests(c) \/ Proceeds(c)
        PROVE  WaiterFits(r)'
    BY <1>19, <1>1, <1>2, <1>3, <1>4, <1>5, <1>6, <1>7, <1>8, <1>9, <1>10, <1>11, <1>12,
       <1>13, <1>14, <1>15, <1>16, <1>17, <1>18 DEF Requests, Proceeds, StartSession, Begin,
       ResumeSession, ReturnToBacklog, CancelFindsDead, SwitchTimesOut, Done, Idle, Session,
       PersistMode, Go, MarkStarting, At, SpawnFails, Spawning, ProviderFails, MarkRunning,
       ClearMark, Unmark, RestoreMode
  <1> QED
    BY <1>1, <1>2, <1>3, <1>4, <1>5, <1>6, <1>7, <1>8, <1>9, <1>10, <1>11, <1>12, <1>13,
       <1>14, <1>15, <1>16, <1>17, <1>18, <1>19 DEF Next, Lists, ResumeShort, ListRunning,
       LookInTerminals, Skip, LookInRegistry, StopLost, ListRegistered, PickEnded, Listed

LEMMA RegisteredStep ==
    ASSUME TypeOK, Registered, Next
    PROVE  Registered'
  BY TablesStep, CommandsHaveTheirs, WaitersStep DEF Registered, WaiterFits


\* The command whose process is in no table yet, or no longer.
OwnedBy(c, p) ==
    cmd[c].process = p /\ cmd[c].at \in {"spawned", "running", "failed", "unmarked"}

Owned ==
    \A p \in Processes :
        process[p].state = "alive" =>
            \/ p = handle[process[p].of] \/ p = pty[process[p].of]
            \/ \E c \in Commands : OwnedBy(c, p)

Held(p) ==
    process[p].state = "alive" =>
        \/ p = handle[process[p].of] \/ p = pty[process[p].of]
        \/ \E c \in Commands : OwnedBy(c, p)

\* A process that lives after a kill was not meant by it.
LEMMA Spared ==
    ASSUME TypeOK, NEW ps, process' = Killed(ps), NEW p \in Processes, process'[p].state = "alive"
    PROVE  p \notin ps
  BY KilledLess DEF TypeOK, ProcessTypes

\* Every live process is held.
LEMMA OwnedStep ==
    ASSUME TypeOK, Kinds, Registered, Owned, Next
    PROVE  Owned'
  <1> SUFFICES ASSUME NEW r \in Processes, process'[r].state = "alive"
               PROVE  Held(r)'
    BY DEF Owned, Held
  <1>born. CASE \E c \in Commands : Spawn(c, r)
    <2>1. PICK c \in Commands : Spawn(c, r)
      BY <1>born
    <2>2. cmd'[c].process = r /\ cmd'[c].at = "spawned"
      BY <2>1, TypeOK DEF Spawn, TypeOK
    <2> QED
      BY <2>2 DEF Held, OwnedBy
  <1> SUFFICES ASSUME ~\E c \in Commands : Spawn(c, r)
               PROVE  Held(r)'
    BY <1>born
  <1>live. /\ process'[r].of = process[r].of /\ process[r].state = "alive"
           /\ process[r].of \in Sessions /\ r # 0
    <2>1. /\ process'[r].of = process[r].of
          /\ process'[r].state = "alive" => process[r].state = "alive"
      BY ProcessStays
    <2> QED
      BY <2>1, LifecycleAssumption, TypeOK DEF TypeOK, Processes
  <1>held. \/ r = handle[process[r].of] \/ r = pty[process[r].of]
           \/ \E c \in Commands : OwnedBy(c, r)
    BY <1>live DEF Owned
  <1> USE DEF Held, OwnedBy
  <1>1. ASSUME NEW c \in Commands, NEW s \in Sessions, NEW mode \in Modes, StartSession(c, s, mode)
        PROVE  Held(r)'
    BY <1>1, TypeOK, <1>live, <1>held, BeginSteps DEF StartSession
  <1>2. ASSUME NEW c \in Commands, NEW s \in Sessions, ResumeSession(c, s) PROVE Held(r)'
    BY <1>2, TypeOK, <1>live, <1>held, BeginSteps DEF ResumeSession
  <1>3. ASSUME NEW c \in Commands, NEW s \in Sessions, SwitchMode(c, s) PROVE Held(r)'
    <2>1. process' = Killed({handle[s], pty[s]})
      BY <1>3 DEF SwitchMode
    <2>2. r \notin {handle[s], pty[s]}
      BY <2>1, TypeOK, Spared
    <2>3. pty' = pty /\ handle' = [handle EXCEPT ![s] = 0]
      BY <1>3 DEF SwitchMode
    <2>4. CASE r = handle[process[r].of]
      BY <2>2, <2>3, <2>4, <1>live, TypeOK DEF TypeOK
    <2>5. CASE r = pty[process[r].of]
      BY <2>2, <2>3, <2>5, <1>live, TypeOK DEF TypeOK
    <2>6. ASSUME NEW e \in Commands, OwnedBy(e, r)
          PROVE  Held(r)'
      BY <2>6, <1>3, <1>live, TypeOK, BeginSteps DEF SwitchMode
    <2> QED
      BY <2>4, <2>5, <2>6, <1>held
  <1>4. ASSUME NEW c \in Commands, NEW s \in Sessions, ReturnToBacklog(c, s) PROVE Held(r)'
    BY <1>4, TypeOK, <1>live, <1>held, BeginSteps DEF ReturnToBacklog
  <1>5. ASSUME NEW c \in Commands, NEW s \in Sessions, CancelFindsDead(c, s) PROVE Held(r)'
    BY <1>5, TypeOK, <1>live, <1>held, BeginSteps DEF CancelFindsDead
  <1>6. ASSUME NEW c \in Commands, SwitchTimesOut(c) PROVE Held(r)'
    BY <1>6, TypeOK, <1>live, <1>held, DoneSteps DEF SwitchTimesOut, Session
  <1>7. ASSUME NEW c \in Commands, PersistMode(c) PROVE Held(r)'
    <2>1. CASE row[Session(c)].deleted
      BY <2>1, <1>7, TypeOK, <1>live, <1>held, DoneSteps DEF PersistMode, Session, Steps
    <2>2. CASE ~row[Session(c)].deleted
      BY <2>2, <1>7, TypeOK, <1>live, <1>held, GoSteps DEF PersistMode, Session, Steps
    <2> QED
      BY <2>1, <2>2
  <1>8. ASSUME NEW c \in Commands, MarkStarting(c) PROVE Held(r)'
    BY <1>8, TypeOK, <1>live, <1>held, GoSteps DEF MarkStarting, At, Session, Steps
  <1>9. ASSUME NEW c \in Commands, NEW p \in Processes, Spawn(c, p) PROVE Held(r)'
    <2>1. p # r /\ process[p].state = "unborn"
      BY <1>9 DEF Spawn
    <2>2. cmd[c].process # r \/ cmd[c].at \notin {"spawned", "running", "failed", "unmarked"}
      BY <1>9 DEF Spawn, Spawning, At
    <2> QED
      BY <2>1, <2>2, <1>9, <1>live, <1>held, TypeOK DEF Spawn, TypeOK
  <1>10. ASSUME NEW c \in Commands, SpawnFails(c) PROVE Held(r)'
    BY <1>10, TypeOK, <1>live, <1>held, GoSteps DEF SpawnFails, At, Spawning, Steps
  <1>11. ASSUME NEW c \in Commands, ProviderFails(c) PROVE Held(r)'
    BY <1>11, TypeOK, <1>live, <1>held, GoSteps DEF ProviderFails, At, Steps
  <1>12. ASSUME NEW c \in Commands, ReadFails(c) PROVE Held(r)'
    <2>1. process' = Killed({cmd[c].process})
      BY <1>12 DEF ReadFails
    <2>2. r \notin {cmd[c].process}
      BY <2>1, TypeOK, Spared
    <2>3. pty' = pty /\ handle' = handle
      BY <1>12 DEF ReadFails
    <2>4. CASE r = handle[process[r].of]
      BY <2>2, <2>3, <2>4, <1>live, TypeOK DEF TypeOK
    <2>5. CASE r = pty[process[r].of]
      BY <2>2, <2>3, <2>5, <1>live, TypeOK DEF TypeOK
    <2>6. ASSUME NEW e \in Commands, OwnedBy(e, r)
          PROVE  Held(r)'
      <3>1. CASE cmd[c].kind # "switch"
        BY <3>1, <2>2, <2>6, <1>12, <1>live, TypeOK, DoneSteps DEF ReadFails, At, Steps
      <3>2. CASE cmd[c].kind = "switch"
        BY <3>2, <2>2, <2>6, <1>12, <1>live, TypeOK, GoSteps DEF ReadFails, At, Steps
      <3> QED
        BY <3>1, <3>2
    <2> QED
      BY <2>4, <2>5, <2>6, <1>held
  <1>13. ASSUME NEW c \in Commands, MarkRunning(c) PROVE Held(r)'
    <2>1. CASE row[Session(c)].deleted
      BY <2>1, <1>13, TypeOK, <1>live, <1>held, GoSteps DEF MarkRunning, At, Session, Steps
    <2>2. CASE ~row[Session(c)].deleted
      BY <2>2, <1>13, TypeOK, <1>live, <1>held, GoSteps DEF MarkRunning, At, Session, Steps
    <2> QED
      BY <2>1, <2>2
  <1>14. ASSUME NEW c \in Commands, RegisterHandle(c) PROVE Held(r)'
    <2>1. process' = Killed({handle[cmd[c].session]})
      BY <1>14 DEF RegisterHandle, Session
    <2>2. r \notin {handle[cmd[c].session]}
      BY <2>1, TypeOK, Spared
    <2>3. pty' = pty /\ handle' = [handle EXCEPT ![cmd[c].session] = cmd[c].process]
      BY <1>14 DEF RegisterHandle, Session
    <2>4. CASE r = handle[process[r].of]
      BY <2>2, <2>3, <2>4, <1>live, TypeOK DEF TypeOK
    <2>5. CASE r = pty[process[r].of]
      BY <2>2, <2>3, <2>5, <1>live, TypeOK DEF TypeOK
    <2>6. ASSUME NEW e \in Commands, OwnedBy(e, r)
          PROVE  Held(r)'
      <3>1. CASE e = c
        BY <3>1, <2>2, <2>3, <2>6, <1>14, <1>live, TypeOK, GoSteps DEF RegisterHandle, At,
           Registering, Session, Steps, TypeOK, Registered
      <3>2. CASE e # c
        BY <3>2, <2>6, <1>14, <1>live, TypeOK, GoSteps DEF RegisterHandle, Steps
      <3> QED
        BY <3>1, <3>2
    <2> QED
      BY <2>4, <2>5, <2>6, <1>held
  <1>15. ASSUME NEW c \in Commands, RegisterTerminal(c) PROVE Held(r)'
    <2>1. /\ pty' = [pty EXCEPT ![cmd[c].session] = cmd[c].process]
          /\ pty[cmd[c].session] = 0 /\ handle' = handle
      BY <1>15 DEF RegisterTerminal, Session
    <2>4. CASE r = handle[process[r].of]
      BY <2>1, <2>4, <1>live
    <2>5. CASE r = pty[process[r].of]
      BY <2>1, <2>5, <1>live, TypeOK DEF TypeOK
    <2>6. ASSUME NEW e \in Commands, OwnedBy(e, r)
          PROVE  Held(r)'
      <3>1. CASE e = c
        BY <3>1, <2>1, <2>6, <1>live, TypeOK DEF Registered, TypeOK
      <3>2. CASE e # c
        BY <3>2, <2>6, <1>15, <1>live, TypeOK, GoSteps DEF RegisterTerminal, Steps
      <3> QED
        BY <3>1, <3>2
    <2> QED
      BY <2>4, <2>5, <2>6, <1>held
  <1>16. ASSUME NEW c \in Commands, TerminalRefused(c) PROVE Held(r)'
    <2>1. process' = Killed({cmd[c].process})
      BY <1>16 DEF TerminalRefused, Session
    <2>2. r \notin {cmd[c].process}
      BY <2>1, TypeOK, Spared
    <2>3. pty' = pty /\ handle' = handle
      BY <1>16 DEF TerminalRefused, Session
    <2>4. CASE r = handle[process[r].of]
      BY <2>2, <2>3, <2>4, <1>live, TypeOK DEF TypeOK
    <2>5. CASE r = pty[process[r].of]
      BY <2>2, <2>3, <2>5, <1>live, TypeOK DEF TypeOK
    <2>6. ASSUME NEW e \in Commands, OwnedBy(e, r)
          PROVE  Held(r)'
      <3>1. CASE e = c
        BY <3>1, <2>2, <2>3, <2>6, <1>16, <1>live, TypeOK DEF TerminalRefused, At, Registering,
           Session, TypeOK
      <3>2. CASE e # c
        BY <3>2, <2>6, <1>16, <1>live, TypeOK DEF TerminalRefused, TypeOK
      <3> QED
        BY <3>1, <3>2
    <2> QED
      BY <2>4, <2>5, <2>6, <1>held
  <1>17. ASSUME NEW c \in Commands, ClearMark(c) PROVE Held(r)'
    BY <1>17, TypeOK, <1>live, <1>held, DoneSteps DEF ClearMark, At, Session
  <1>18. ASSUME NEW c \in Commands, InputFails(c) PROVE Held(r)'
    <2>1. process' = Killed({pty[cmd[c].session]})
      BY <1>18 DEF InputFails, Session
    <2>2. r \notin {pty[cmd[c].session]}
      BY <2>1, TypeOK, Spared
    <2>3. pty' = pty /\ handle' = handle
      BY <1>18 DEF InputFails, Session
    <2>4. CASE r = handle[process[r].of]
      BY <2>2, <2>3, <2>4, <1>live, TypeOK DEF TypeOK
    <2>5. CASE r = pty[process[r].of]
      BY <2>2, <2>3, <2>5, <1>live, TypeOK DEF TypeOK
    <2>6. ASSUME NEW e \in Commands, OwnedBy(e, r)
          PROVE  Held(r)'
      <3>1. CASE e = c
        BY <3>1, <2>2, <2>3, <2>6, <1>18, <1>live, TypeOK, GoSteps DEF InputFails, At, Session,
           Steps, TypeOK
      <3>2. CASE e # c
        BY <3>2, <2>6, <1>18, <1>live, TypeOK, GoSteps DEF InputFails, Steps
      <3> QED
        BY <3>1, <3>2
    <2> QED
      BY <2>4, <2>5, <2>6, <1>held
  <1>19. ASSUME NEW c \in Commands, Unmark(c) PROVE Held(r)'
    BY <1>19, TypeOK, <1>live, <1>held, GoSteps DEF Unmark, At, Session, Steps
  <1>20. ASSUME NEW c \in Commands, RollBack(c) PROVE Held(r)'
    <2>1. process' = Killed({cmd[c].process})
      BY <1>20 DEF RollBack, Session
    <2>2. r \notin {cmd[c].process}
      BY <2>1, TypeOK, Spared
    <2>3. pty' = pty /\ handle' = handle
      BY <1>20 DEF RollBack, Session
    <2>4. CASE r = handle[process[r].of]
      BY <2>2, <2>3, <2>4, <1>live, TypeOK DEF TypeOK
    <2>5. CASE r = pty[process[r].of]
      BY <2>2, <2>3, <2>5, <1>live, TypeOK DEF TypeOK
    <2>6. ASSUME NEW e \in Commands, OwnedBy(e, r)
          PROVE  Held(r)'
      <3>1. CASE e = c
        BY <3>1, <2>2, <2>3, <2>6, <1>20, <1>live, TypeOK, DoneSteps DEF RollBack, At, Session,
           TypeOK
      <3>2. CASE e # c
        BY <3>2, <2>6, <1>20, <1>live, TypeOK, DoneSteps DEF RollBack
      <3> QED
        BY <3>1, <3>2
    <2> QED
      BY <2>4, <2>5, <2>6, <1>held
  <1>21. ASSUME NEW c \in Commands, GiveUp(c) PROVE Held(r)'
    <2>1. process' = Killed({cmd[c].process})
      BY <1>21 DEF GiveUp
    <2>2. r \notin {cmd[c].process}
      BY <2>1, TypeOK, Spared
    <2>3. pty' = pty /\ handle' = handle
      BY <1>21 DEF GiveUp
    <2>4. CASE r = handle[process[r].of]
      BY <2>2, <2>3, <2>4, <1>live, TypeOK DEF TypeOK
    <2>5. CASE r = pty[process[r].of]
      BY <2>2, <2>3, <2>5, <1>live, TypeOK DEF TypeOK
    <2>6. ASSUME NEW e \in Commands, OwnedBy(e, r)
          PROVE  Held(r)'
      <3>1. CASE cmd[c].kind # "switch"
        BY <3>1, <2>2, <2>6, <1>21, <1>live, TypeOK, DoneSteps DEF GiveUp, At, Steps
      <3>2. CASE cmd[c].kind = "switch"
        BY <3>2, <2>2, <2>6, <1>21, <1>live, TypeOK, GoSteps DEF GiveUp, At, Steps
      <3> QED
        BY <3>1, <3>2
    <2> QED
      BY <2>4, <2>5, <2>6, <1>held
  <1>22. ASSUME NEW c \in Commands, RestoreMode(c) PROVE Held(r)'
    BY <1>22, TypeOK, <1>live, <1>held, DoneSteps DEF RestoreMode, Session
  <1>23. ASSUME NEW c \in Commands, ShutDiscarded(c) PROVE Held(r)'
    <2>1. process' = Killed({handle[cmd[c].session], pty[cmd[c].session]})
      BY <1>23 DEF ShutDiscarded, Session, Shut
    <2>2. r \notin {handle[cmd[c].session], pty[cmd[c].session]}
      BY <2>1, TypeOK, Spared
    <2>3. pty' = pty /\ handle' = [handle EXCEPT ![cmd[c].session] = 0]
      BY <1>23 DEF ShutDiscarded, Session, Shut
    <2>4. CASE r = handle[process[r].of]
      BY <2>2, <2>3, <2>4, <1>live, TypeOK DEF TypeOK
    <2>5. CASE r = pty[process[r].of]
      BY <2>2, <2>3, <2>5, <1>live, TypeOK DEF TypeOK
    <2>6. ASSUME NEW e \in Commands, OwnedBy(e, r)
          PROVE  Held(r)'
      <3>1. CASE e = c
        BY <3>1, <2>2, <2>3, <2>6, <1>23, <1>live, TypeOK, DoneSteps DEF ShutDiscarded,
           Session, Shut, TypeOK
      <3>2. CASE e # c
        BY <3>2, <2>6, <1>23, <1>live, TypeOK, DoneSteps DEF ShutDiscarded
      <3> QED
        BY <3>1, <3>2
    <2> QED
      BY <2>4, <2>5, <2>6, <1>held
  <1>24. ASSUME NEW c \in Commands, CancelUnregisters(c) PROVE Held(r)'
    <2>1. process' = Killed({handle[cmd[c].session]})
      BY <1>24 DEF CancelUnregisters, Session
    <2>2. r \notin {handle[cmd[c].session]}
      BY <2>1, TypeOK, Spared
    <2>3. pty' = pty /\ handle' = [handle EXCEPT ![cmd[c].session] = 0]
      BY <1>24 DEF CancelUnregisters, Session
    <2>4. CASE r = handle[process[r].of]
      BY <2>2, <2>3, <2>4, <1>live, TypeOK DEF TypeOK
    <2>5. CASE r = pty[process[r].of]
      BY <2>2, <2>3, <2>5, <1>live, TypeOK DEF TypeOK
    <2>6. ASSUME NEW e \in Commands, OwnedBy(e, r)
          PROVE  Held(r)'
      <3>1. CASE e = c
        BY <3>1, <2>2, <2>3, <2>6, <1>24, <1>live, TypeOK, DoneSteps DEF CancelUnregisters,
           Session, TypeOK
      <3>2. CASE e # c
        BY <3>2, <2>6, <1>24, <1>live, TypeOK, DoneSteps DEF CancelUnregisters
      <3> QED
        BY <3>1, <3>2
    <2> QED
      BY <2>4, <2>5, <2>6, <1>held
  <1>25. ASSUME NEW p \in Processes, Exits(p) PROVE Held(r)'
    <2>1. process' = Killed({p})
      BY <1>25 DEF Exits
    <2>2. r \notin {p}
      BY <2>1, TypeOK, Spared
    <2>3. pty' = pty /\ handle' = handle
      BY <1>25 DEF Exits
    <2>4. CASE r = handle[process[r].of]
      BY <2>2, <2>3, <2>4, <1>live, TypeOK DEF TypeOK
    <2>5. CASE r = pty[process[r].of]
      BY <2>2, <2>3, <2>5, <1>live, TypeOK DEF TypeOK
    <2>6. ASSUME NEW e \in Commands, OwnedBy(e, r)
          PROVE  Held(r)'
      BY <2>6, <1>25, <1>live DEF Exits
    <2> QED
      BY <2>4, <2>5, <2>6, <1>held
  <1>26. ASSUME NEW p \in Processes, Reap(p) PROVE Held(r)'
    <2>1. /\ pty' = [pty EXCEPT ![process[p].of] = 0] /\ process[p].state = "dead"
          /\ process[p].waiter = "waits" /\ UNCHANGED <<handle, cmd>>
      BY <1>26 DEF Reap
    <2>2. pty[process[p].of] = p /\ p # r
      BY <2>1, <1>live DEF Registered
    <2> QED
      BY <2>1, <2>2, <1>live, <1>held, TypeOK DEF TypeOK
  <1>27. ASSUME NEW p \in Processes, RecordExit(p) PROVE Held(r)'
    BY <1>27, TypeOK, <1>live, <1>held DEF RecordExit, TypeOK
  <1>28. ASSUME NEW s \in Sessions, ShutEnded(s) PROVE Held(r)'
    <2>1. process' = Killed({handle[s], pty[s]})
      BY <1>28 DEF ShutEnded, Shut
    <2>2. r \notin {handle[s], pty[s]}
      BY <2>1, TypeOK, Spared
    <2>3. pty' = pty /\ handle' = [handle EXCEPT ![s] = 0]
      BY <1>28 DEF ShutEnded, Shut
    <2>4. CASE r = handle[process[r].of]
      BY <2>2, <2>3, <2>4, <1>live, TypeOK DEF TypeOK
    <2>5. CASE r = pty[process[r].of]
      BY <2>2, <2>3, <2>5, <1>live, TypeOK DEF TypeOK
    <2>6. ASSUME NEW e \in Commands, OwnedBy(e, r)
          PROVE  Held(r)'
      BY <2>6, <1>28, <1>live DEF ShutEnded
    <2> QED
      BY <2>4, <2>5, <2>6, <1>held
  <1>29. ASSUME CloseProject PROVE Held(r)'
    <2>1. process' = Killed({handle[s] : s \in Sessions} \cup {pty[s] : s \in Sessions})
      BY <1>29 DEF CloseProject
    <2>2. r \notin ({handle[s] : s \in Sessions} \cup {pty[s] : s \in Sessions})
      BY <2>1, TypeOK, Spared
    <2>3. pty' = pty /\ handle' = [s \in Sessions |-> 0]
      BY <1>29 DEF CloseProject
    <2>4. CASE r = handle[process[r].of]
      BY <2>2, <2>3, <2>4, <1>live, TypeOK DEF TypeOK
    <2>5. CASE r = pty[process[r].of]
      BY <2>2, <2>3, <2>5, <1>live, TypeOK DEF TypeOK
    <2>6. ASSUME NEW e \in Commands, OwnedBy(e, r)
          PROVE  Held(r)'
      BY <2>6, <1>29, <1>live DEF CloseProject
    <2> QED
      BY <2>4, <2>5, <2>6, <1>held
  <1>30. ASSUME Restart PROVE Held(r)'
    BY <1>30, <1>live, TypeOK DEF Restart, TypeOK
  <1>31. CASE UNCHANGED <<cmd, process, handle, pty>>
    BY <1>31, <1>live, <1>held
  <1> QED
    BY <1>1, <1>2, <1>3, <1>4, <1>5, <1>6, <1>7, <1>8, <1>9, <1>10, <1>11, <1>12, <1>13,
       <1>14, <1>15, <1>16, <1>17, <1>18, <1>19, <1>20, <1>21, <1>22, <1>23, <1>24, <1>25,
       <1>26, <1>27, <1>28, <1>29, <1>30, <1>31 DEF Next, Requests, Proceeds, Lists,
       ResumeShort, ListRunning, LookInTerminals, Skip, LookInRegistry, StopLost,
       ListRegistered, PickEnded, Listed

\* A command that is about to start a process meets none of its session; once
\* it has started one, no other lives.
QuietFor(c, p) ==
    process[p].state = "alive" /\ process[p].of = cmd[c].session =>
        /\ cmd[c].at \notin {"committed", "decided", "marked", "released"}
        /\ cmd[c].at \in {"spawned", "running", "inserted", "failed", "unmarked"} => p = cmd[c].process

Quiet == Solo => \A c \in Commands, p \in Processes : QuietFor(c, p)

LEMMA QuietStep ==
    ASSUME TypeOK, Kinds, Alone, RowsFit, Registered, Owned, Quiet, Next
    PROVE  Quiet'
  <1> SUFFICES ASSUME Solo', NEW d \in Commands, NEW r \in Processes,
                      process'[r].state = "alive", process'[r].of = cmd'[d].session
               PROVE  /\ cmd'[d].at \notin {"committed", "decided", "marked", "released"}
                      /\ cmd'[d].at \in {"spawned", "running", "inserted", "failed", "unmarked"} =>
                           r = cmd'[d].process
    BY DEF Quiet, QuietFor
  <1> DEFINE Fits == /\ cmd'[d].at \notin {"committed", "decided", "marked", "released"}
                     /\ cmd'[d].at \in {"spawned", "running", "inserted", "failed", "unmarked"} =>
                          r = cmd'[d].process
  <1>solo. Solo
    BY OddGrows DEF Solo
  <1>born. ASSUME NEW c \in Commands, NEW p \in Processes, Spawn(c, p)
           PROVE  Fits
    <2>1. /\ cmd'[c].at = "spawned" /\ cmd'[c].process = p /\ cmd'[c].session = cmd[c].session
          /\ \A e \in Commands \ {c} : cmd'[e] = cmd[e]
          /\ process'[p].of = cmd[c].session
          /\ \A q \in Processes \ {p} : process'[q] = process[q]
      BY <1>born, TypeOK DEF Spawn, Session, TypeOK
    <2>2. cmd[c].at \in {"committed", "marked"}
      BY <1>born DEF Spawn, Spawning, At
    <2>3. CASE d = c
      BY <2>1, <2>2, <2>3, <1>solo DEF Quiet, QuietFor
    <2>4. CASE d # c /\ r = p
      BY <2>1, <2>2, <2>4, <1>solo DEF Alone
    <2>5. CASE d # c /\ r # p
      BY <2>1, <2>5, <1>solo DEF Quiet, QuietFor
    <2> QED
      BY <2>3, <2>4, <2>5
  <1> SUFFICES ASSUME ~\E c \in Commands, p \in Processes : Spawn(c, p)
               PROVE  Fits
    BY <1>born
  <1>live. process[r].state = "alive" /\ process'[r].of = process[r].of
    <2>1. ~\E c \in Commands : Spawn(c, r)
      OBVIOUS
    <2> QED
      BY <2>1, ProcessStays
  <1>stay. ASSUME cmd'[d] = cmd[d]
           PROVE  Fits
    BY <1>live, <1>stay, <1>solo DEF Quiet, QuietFor
  <1>begin. ASSUME NEW s \in Sessions, cmd'[d].session = s, Busy(s) = {}
            PROVE  r = handle[s] \/ r = pty[s]
    <2>1. process[r].state = "alive" /\ process[r].of = s
      BY <1>live, <1>begin
    <2>2. ~\E c \in Commands : OwnedBy(c, r)
      <3> SUFFICES ASSUME NEW c \in Commands, OwnedBy(c, r)
                   PROVE  FALSE
        OBVIOUS
      <3>1. cmd[c].process = r /\ cmd[c].at # "idle" /\ r # 0
        BY LifecycleAssumption DEF OwnedBy, Processes
      <3>2. cmd[c].session = s
        BY <2>1, <3>1 DEF Registered
      <3> QED
        BY <3>1, <3>2, <1>begin DEF Busy
    <2> QED
      BY <2>1, <2>2 DEF Owned
  <1>1. ASSUME NEW s \in Sessions, NEW mode \in Modes, StartSession(d, s, mode) PROVE Fits
    BY <1>1, <1>live, TypeOK, BeginSteps DEF StartSession, RowsFit
  <1>2. ASSUME NEW s \in Sessions, ResumeSession(d, s) PROVE Fits
    BY <1>2, <1>begin, <1>solo, TypeOK, BeginSteps, LifecycleAssumption DEF
       ResumeSession, Contains, Processes, Solo
  <1>3. ASSUME NEW s \in Sessions, SwitchMode(d, s) PROVE Fits
    <2>1. r \notin {handle[s], pty[s]}
      BY <1>3, TypeOK, Spared DEF SwitchMode
    <2>2. cmd'[d].session = s /\ Busy(s) = {}
      BY <1>3, TypeOK, BeginSteps DEF SwitchMode, Solo
    <2> QED
      BY <2>1, <2>2, <1>begin
  <1>4. ASSUME NEW s \in Sessions, ReturnToBacklog(d, s) PROVE Fits
    BY <1>4, TypeOK, BeginSteps DEF ReturnToBacklog
  <1>5. ASSUME NEW s \in Sessions, CancelFindsDead(d, s) PROVE Fits
    BY <1>5, TypeOK, BeginSteps DEF CancelFindsDead
  <1>6. ASSUME SwitchTimesOut(d) PROVE Fits
    BY <1>6, <1>live, <1>solo, TypeOK, DoneSteps DEF SwitchTimesOut, Session, Quiet,
       QuietFor
  <1>7. ASSUME PersistMode(d) PROVE Fits
    <2>1. CASE row[Session(d)].deleted
      BY <2>1, <1>7, <1>live, <1>solo, TypeOK, DoneSteps DEF PersistMode, Session,
         Steps, Quiet, QuietFor, Steps
    <2>2. CASE ~row[Session(d)].deleted
      BY <2>2, <1>7, <1>live, <1>solo, TypeOK, GoSteps DEF PersistMode, Session,
         Steps, Quiet, QuietFor, Steps
    <2> QED
      BY <2>1, <2>2
  <1>8. ASSUME MarkStarting(d) PROVE Fits
    BY <1>8, <1>live, <1>solo, TypeOK, GoSteps DEF MarkStarting, At, Session, Steps,
       Quiet, QuietFor
  <1>9. ASSUME NEW p \in Processes, Spawn(d, p) PROVE Fits
    BY <1>9
  <1>10. ASSUME SpawnFails(d) PROVE Fits
    BY <1>10, <1>live, <1>solo, TypeOK, GoSteps DEF SpawnFails, Spawning, At, Steps,
       Quiet, QuietFor
  <1>11. ASSUME ProviderFails(d) PROVE Fits
    BY <1>11, <1>live, <1>solo, TypeOK, GoSteps DEF ProviderFails, At, Steps, Quiet,
       QuietFor
  <1>12. ASSUME ReadFails(d) PROVE Fits
    <2>1. CASE cmd[d].kind # "switch"
      BY <2>1, <1>12, <1>live, <1>solo, TypeOK, DoneSteps DEF ReadFails, At, Steps,
         Quiet, QuietFor, Steps
    <2>2. CASE cmd[d].kind = "switch"
      BY <2>2, <1>12, <1>live, <1>solo, TypeOK, GoSteps DEF ReadFails, At, Steps,
         Quiet, QuietFor, Steps
    <2> QED
      BY <2>1, <2>2
  <1>13. ASSUME MarkRunning(d) PROVE Fits
    <2>1. CASE row[Session(d)].deleted
      BY <2>1, <1>13, <1>live, <1>solo, TypeOK, GoSteps DEF MarkRunning, At, Session,
         Steps, Quiet, QuietFor, Steps
    <2>2. CASE ~row[Session(d)].deleted
      BY <2>2, <1>13, <1>live, <1>solo, TypeOK, GoSteps DEF MarkRunning, At, Session,
         Steps, Quiet, QuietFor, Steps
    <2> QED
      BY <2>1, <2>2
  <1>14. ASSUME RegisterHandle(d) PROVE Fits
    BY <1>14, <1>live, <1>solo, TypeOK, GoSteps DEF RegisterHandle, At, Registering,
       Session, Steps, Quiet, QuietFor
  <1>15. ASSUME RegisterTerminal(d) PROVE Fits
    BY <1>15, <1>live, <1>solo, TypeOK, GoSteps DEF RegisterTerminal, At, Registering,
       Session, Steps, Quiet, QuietFor
  <1>16. ASSUME TerminalRefused(d) PROVE Fits
    BY <1>16, <1>live, <1>solo, TypeOK DEF TerminalRefused, At, Registering, Session,
       TypeOK, Quiet, QuietFor
  <1>17. ASSUME ClearMark(d) PROVE Fits
    BY <1>17, <1>live, <1>solo, TypeOK, DoneSteps DEF ClearMark, At, Session, Quiet,
       QuietFor
  <1>18. ASSUME InputFails(d) PROVE Fits
    BY <1>18, <1>live, <1>solo, TypeOK, GoSteps DEF InputFails, At, Session, Steps,
       Quiet, QuietFor
  <1>19. ASSUME Unmark(d) PROVE Fits
    BY <1>19, <1>live, <1>solo, TypeOK, GoSteps DEF Unmark, At, Session, Steps, Quiet,
       QuietFor
  <1>20. ASSUME RollBack(d) PROVE Fits
    BY <1>20, <1>live, <1>solo, TypeOK, DoneSteps DEF RollBack, At, Session, Quiet,
       QuietFor
  <1>21. ASSUME GiveUp(d) PROVE Fits
    <2>1. CASE cmd[d].kind # "switch"
      BY <2>1, <1>21, <1>live, <1>solo, TypeOK, DoneSteps DEF GiveUp, At, Steps, Quiet,
         QuietFor, Steps
    <2>2. CASE cmd[d].kind = "switch"
      BY <2>2, <1>21, <1>live, <1>solo, TypeOK, GoSteps DEF GiveUp, At, Steps, Quiet,
         QuietFor, Steps
    <2> QED
      BY <2>1, <2>2
  <1>22. ASSUME RestoreMode(d) PROVE Fits
    BY <1>22, <1>live, <1>solo, TypeOK, DoneSteps DEF RestoreMode, Session, Quiet,
       QuietFor
  <1>23. ASSUME ShutDiscarded(d) PROVE Fits
    BY <1>23, <1>live, <1>solo, TypeOK, DoneSteps DEF ShutDiscarded, Session, Shut,
       Quiet, QuietFor
  <1>24. ASSUME CancelUnregisters(d) PROVE Fits
    BY <1>24, <1>live, <1>solo, TypeOK, DoneSteps DEF CancelUnregisters, Session,
       Quiet, QuietFor
  <1>acts. CASE Acts(d)
    BY <1>acts, <1>1, <1>2, <1>3, <1>4, <1>5, <1>6, <1>7, <1>8, <1>9, <1>10, <1>11, <1>12,
       <1>13, <1>14, <1>15, <1>16, <1>17, <1>18, <1>19, <1>20, <1>21, <1>22, <1>23, <1>24
       DEF Acts, Requests, Proceeds
  <1>restart. CASE Restart
    BY <1>restart, TypeOK DEF Restart, TypeOK
  <1>unmoved. CASE ~Acts(d) /\ ~Restart
    BY <1>unmoved, Unmoved, <1>stay
  <1> QED
    BY <1>acts, <1>restart, <1>unmoved

\* No second process is started beside a live one.
LEMMA OneWriterStep ==
    ASSUME TypeOK, Quiet, OneWriter, Next
    PROVE  OneWriter'
  <1> SUFFICES ASSUME Solo', NEW p \in Processes, NEW q \in Processes,
                      process'[p].state = "alive", process'[q].state = "alive",
                      process'[p].of = process'[q].of
               PROVE  p = q
    BY DEF OneWriter, Solo, Alive
  <1>1. Solo
    BY OddGrows DEF Solo
  <1>2. ASSUME NEW c \in Commands, NEW r \in Processes, Spawn(c, r)
        PROVE  p = q
    <2>1. /\ process'[r].of = cmd[c].session /\ cmd[c].at \in {"committed", "marked"}
          /\ \A t \in Processes \ {r} : process'[t] = process[t]
      BY <1>2, TypeOK DEF Spawn, Spawning, At, Session, TypeOK
    <2>2. \A t \in Processes \ {r} : ~(process[t].state = "alive" /\ process[t].of = cmd[c].session)
      BY <1>1, <2>1 DEF Quiet, QuietFor
    <2>3. \A t \in Processes : process[t].of \in Sessions
      BY TypeOK DEF TypeOK
    <2>4. CASE p = r \/ q = r
      BY <2>1, <2>2, <2>4
    <2>5. CASE p # r /\ q # r
      BY <1>1, <2>1, <2>3, <2>5, LifecycleAssumption DEF OneWriter, Solo, Alive, Processes
    <2> QED
      BY <2>4, <2>5
  <1>3. ASSUME ~\E c \in Commands, r \in Processes : Spawn(c, r)
        PROVE  p = q
    <2>1. /\ process[p].state = "alive" /\ process'[p].of = process[p].of
          /\ process[q].state = "alive" /\ process'[q].of = process[q].of
      <3>1. ~\E c \in Commands : Spawn(c, p)
        BY <1>3
      <3>2. ~\E c \in Commands : Spawn(c, q)
        BY <1>3
      <3> QED
        BY <3>1, <3>2, ProcessStays
    <2>2. process[p].of \in Sessions /\ p # 0 /\ q # 0
      BY TypeOK, LifecycleAssumption DEF TypeOK, Processes
    <2> QED
      BY <1>1, <2>1, <2>2 DEF OneWriter, Solo, Alive
  <1> QED
    BY <1>2, <1>3


(***************************************************************************)
(* What is behind a live process: no other handle, the latest of its       *)
(* session, a mark while it is started, and a row that runs.               *)
(***************************************************************************)

\* What lets a row run no longer.
Ends(t) ==
    \/ \E c \in Commands :
         \/ RollBack(c) /\ cmd[c].session = t
         \/ ReturnToBacklog(c, t)
         \/ TerminalRefused(c) /\ cmd[c].session = t
         \/ InputFails(c) /\ cmd[c].session = t
    \/ \E p \in Processes : RecordExit(p) /\ process[p].of = t
    \/ StopLost /\ poll.session = t

LEMMA RunsEnds ==
    ASSUME TypeOK, Next, NEW t \in Sessions, Runs(t)
    PROVE  Runs(t)' \/ Ends(t)
  <1> DEFINE G == Runs(t)' \/ Ends(t)
  <1>1. ASSUME NEW c \in Commands, NEW s \in Sessions, NEW mode \in Modes, StartSession(c, s, mode)
        PROVE  G
    BY <1>1, TypeOK DEF StartSession, TypeOK, Runs, Exists
  <1>2. ASSUME NEW c \in Commands, NEW s \in Sessions, ReturnToBacklog(c, s) PROVE G
    <2>1. CASE s = t
      BY <2>1, <1>2 DEF Ends
    <2>2. CASE s # t
      <3>1. row'[t] = row[t]
        BY <2>2, <1>2, TypeOK DEF ReturnToBacklog, TypeOK, Terminated
      <3> QED
        BY <3>1 DEF Runs, Exists
    <2> QED
      BY <2>1, <2>2
  <1>3. ASSUME NEW c \in Commands, PersistMode(c) PROVE G
    BY <1>3, TypeOK DEF PersistMode, Session, TypeOK, Runs, Exists
  <1>4. ASSUME NEW c \in Commands, MarkRunning(c) PROVE G
    BY <1>4, TypeOK DEF MarkRunning, Session, At, TypeOK, Modes, Runs, Exists
  <1>5. ASSUME NEW c \in Commands, TerminalRefused(c) PROVE G
    <2>1. CASE cmd[c].session = t
      BY <2>1, <1>5 DEF Ends
    <2>2. CASE cmd[c].session # t
      <3>1. row'[t] = row[t]
        BY <2>2, <1>5, TypeOK DEF TerminalRefused, Session, At, Registering, TypeOK, Modes,
           Terminated
      <3> QED
        BY <3>1 DEF Runs, Exists
    <2> QED
      BY <2>1, <2>2
  <1>6. ASSUME NEW c \in Commands, InputFails(c) PROVE G
    <2>1. CASE cmd[c].session = t
      BY <2>1, <1>6 DEF Ends
    <2>2. CASE cmd[c].session # t
      <3>1. row'[t] = row[t]
        BY <2>2, <1>6, TypeOK DEF InputFails, Session, At, TypeOK, Modes, Terminated
      <3> QED
        BY <3>1 DEF Runs, Exists
    <2> QED
      BY <2>1, <2>2
  <1>7. ASSUME NEW c \in Commands, RollBack(c) PROVE G
    <2>1. CASE cmd[c].session = t
      BY <2>1, <1>7 DEF Ends
    <2>2. CASE cmd[c].session # t
      <3>1. row'[t] = row[t]
        BY <2>2, <1>7, TypeOK DEF RollBack, Session, At, TypeOK, Modes
      <3> QED
        BY <3>1 DEF Runs, Exists
    <2> QED
      BY <2>1, <2>2
  <1>8. ASSUME NEW c \in Commands, RestoreMode(c) PROVE G
    BY <1>8, TypeOK DEF RestoreMode, Session, TypeOK, Runs, Exists
  <1>9. ASSUME NEW s \in Sessions, ResumeShort(s) PROVE G
    BY <1>9, TypeOK DEF ResumeShort, TypeOK, Runs, Exists
  <1>10. ASSUME NEW p \in Processes, RecordExit(p) PROVE G
    <2>1. CASE process[p].of = t
      BY <2>1, <1>10 DEF Ends
    <2>2. CASE process[p].of # t
      <3>1. row'[t] = row[t]
        BY <2>2, <1>10, TypeOK DEF RecordExit, TypeOK, Terminated
      <3> QED
        BY <3>1 DEF Runs, Exists
    <2> QED
      BY <2>1, <2>2
  <1>11. ASSUME StopLost PROVE G
    <2>1. CASE poll.session = t
      BY <2>1, <1>11 DEF Ends
    <2>2. CASE poll.session # t
      <3>1. row'[t] = row[t]
        BY <2>2, <1>11, TypeOK DEF StopLost, TypeOK, Terminated
      <3> QED
        BY <3>1 DEF Runs, Exists
    <2> QED
      BY <2>1, <2>2
  <1>12. CASE UNCHANGED <<row>>
    BY <1>12 DEF Runs, Exists
  <1>13. ASSUME NEW c \in Commands, Requests(c) \/ Proceeds(c)
        PROVE  G
    BY <1>13, <1>1, <1>2, <1>3, <1>4, <1>5, <1>6, <1>7, <1>8, <1>9, <1>10, <1>11, <1>12 DEF
       Requests, Proceeds, ResumeSession, Begin, SwitchMode, CancelFindsDead,
       SwitchTimesOut, Done, Idle, Session, MarkStarting, Go, At, Spawn, Spawning,
       SpawnFails, ProviderFails, ReadFails, RegisterHandle, Registering, RegisterTerminal,
       ClearMark, Unmark, GiveUp, ShutDiscarded, Shut, CancelUnregisters
  <1> QED
    BY <1>1, <1>2, <1>3, <1>4, <1>5, <1>6, <1>7, <1>8, <1>9, <1>10, <1>11, <1>12, <1>13 DEF
       Next, Lists, Exits, Reap, ListRunning, LookInTerminals, Skip, LookInRegistry,
       ListRegistered, PickEnded, ShutEnded, Shut, Listed, CloseProject, Restart, Idle

\* A table names another process only by a registration.
LEMMA HandleOrigin ==
    ASSUME TypeOK, Next, NEW t \in Sessions
    PROVE  \/ handle'[t] = 0 \/ handle'[t] = handle[t]
           \/ \E c \in Commands : RegisterHandle(c) /\ cmd[c].session = t
  <1> DEFINE G == \/ handle'[t] = 0 \/ handle'[t] = handle[t]
                  \/ \E c \in Commands : RegisterHandle(c) /\ cmd[c].session = t
  <1>1. ASSUME NEW c \in Commands, NEW s \in Sessions, SwitchMode(c, s) PROVE G
    BY <1>1, TypeOK DEF SwitchMode, Begin, TypeOK
  <1>2. ASSUME NEW c \in Commands, RegisterHandle(c) PROVE G
    <2>1. CASE cmd[c].session = t
      BY <2>1, <1>2
    <2>2. CASE cmd[c].session # t
      BY <2>2, <1>2, TypeOK DEF RegisterHandle, Session, TypeOK
    <2> QED
      BY <2>1, <2>2
  <1>3. ASSUME NEW c \in Commands, ShutDiscarded(c) PROVE G
    BY <1>3, TypeOK DEF ShutDiscarded, Done, Idle, Session, Shut, TypeOK
  <1>4. ASSUME NEW c \in Commands, CancelUnregisters(c) PROVE G
    BY <1>4, TypeOK DEF CancelUnregisters, Done, Idle, Session, TypeOK
  <1>5. ASSUME NEW s \in Sessions, ShutEnded(s) PROVE G
    BY <1>5, TypeOK DEF ShutEnded, Shut, TypeOK
  <1>6. ASSUME CloseProject PROVE G
    BY <1>6, TypeOK DEF CloseProject, TypeOK
  <1>7. ASSUME Restart PROVE G
    BY <1>7, TypeOK DEF Restart, Idle, TypeOK
  <1>8. CASE UNCHANGED <<handle>>
    BY <1>8, TypeOK DEF TypeOK
  <1>9. ASSUME NEW c \in Commands, Requests(c) \/ Proceeds(c)
        PROVE  G
    BY <1>9, <1>1, <1>2, <1>3, <1>4, <1>5, <1>6, <1>7, <1>8 DEF Requests, Proceeds,
       StartSession, Begin, ResumeSession, ReturnToBacklog, CancelFindsDead, SwitchTimesOut,
       Done, Idle, Session, PersistMode, Go, MarkStarting, At, Spawn, Spawning, SpawnFails,
       ProviderFails, ReadFails, MarkRunning, RegisterTerminal, Registering,
       TerminalRefused, ClearMark, InputFails, Unmark, RollBack, GiveUp, RestoreMode
  <1> QED
    BY <1>1, <1>2, <1>3, <1>4, <1>5, <1>6, <1>7, <1>8, <1>9 DEF Next, Lists, ResumeShort,
       Exits, Reap, RecordExit, ListRunning, LookInTerminals, Skip, LookInRegistry,
       StopLost, ListRegistered, PickEnded, Listed

LEMMA TerminalOrigin ==
    ASSUME TypeOK, Next, NEW t \in Sessions
    PROVE  \/ pty'[t] = 0 \/ pty'[t] = pty[t]
           \/ \E c \in Commands : RegisterTerminal(c) /\ cmd[c].session = t
  <1> DEFINE G == \/ pty'[t] = 0 \/ pty'[t] = pty[t]
                  \/ \E c \in Commands : RegisterTerminal(c) /\ cmd[c].session = t
  <1>1. ASSUME NEW c \in Commands, RegisterTerminal(c) PROVE G
    <2>1. CASE cmd[c].session = t
      BY <2>1, <1>1
    <2>2. CASE cmd[c].session # t
      BY <2>2, <1>1, TypeOK DEF RegisterTerminal, Session, TypeOK
    <2> QED
      BY <2>1, <2>2
  <1>2. ASSUME NEW p \in Processes, Reap(p) PROVE G
    BY <1>2, TypeOK DEF Reap, TypeOK
  <1>3. ASSUME Restart PROVE G
    BY <1>3, TypeOK DEF Restart, Idle, TypeOK
  <1>4. CASE UNCHANGED <<pty>>
    BY <1>4, TypeOK DEF TypeOK
  <1>5. ASSUME NEW c \in Commands, Requests(c) \/ Proceeds(c)
        PROVE  G
    BY <1>5, <1>1, <1>2, <1>3, <1>4 DEF Requests, Proceeds, StartSession, Begin,
       ResumeSession, SwitchMode, ReturnToBacklog, CancelFindsDead, SwitchTimesOut, Done,
       Idle, Session, PersistMode, Go, MarkStarting, At, Spawn, Spawning, SpawnFails,
       ProviderFails, ReadFails, MarkRunning, RegisterHandle, Registering, TerminalRefused,
       ClearMark, InputFails, Unmark, RollBack, GiveUp, RestoreMode, ShutDiscarded, Shut,
       CancelUnregisters
  <1> QED
    BY <1>1, <1>2, <1>3, <1>4, <1>5 DEF Next, Lists, ResumeShort, Exits, RecordExit,
       ListRunning, LookInTerminals, Skip, LookInRegistry, StopLost, ListRegistered,
       PickEnded, ShutEnded, Shut, Listed, CloseProject

\* A session under start or restart has no handle, nor has one whose terminal
\* gets its first prompt.
UnhandledFor(c) ==
    \/ cmd[c].at \in {"committed", "decided", "released", "marked", "spawned", "running",
                      "failed", "unmarked"}
    \/ cmd[c].at = "inserted" /\ cmd[c].mode = "tui"
    => handle[cmd[c].session] = 0

Unhandled == Solo => \A c \in Commands : UnhandledFor(c)

LEMMA UnhandledStep ==
    ASSUME TypeOK, Kinds, Alone, RowsFit, Registered, Unhandled, Next
    PROVE  Unhandled'
  <1> SUFFICES ASSUME Solo', NEW d \in Commands
               PROVE  UnhandledFor(d)'
    BY DEF Unhandled
  <1>solo. Solo
    BY OddGrows DEF Solo
  <1>types. /\ \A c \in Commands : cmd[c].session \in Sessions
            /\ cmd'[d].session \in Sessions
    <2>1. TypeOK'
      BY TypesStep
    <2> QED
      BY <2>1, TypeOK DEF TypeOK
  <1>registers. ASSUME NEW c \in Commands, RegisterHandle(c)
                PROVE  UnhandledFor(d)'
    <2>1. /\ cmd'[c].at = "inserted" /\ cmd'[c].mode = "json" /\ cmd[c].at # "idle"
          /\ \A e \in Commands \ {c} : cmd'[e] = cmd[e]
          /\ handle' = [handle EXCEPT ![cmd[c].session] = cmd[c].process]
      BY <1>registers, TypeOK, GoSteps DEF RegisterHandle, Registering, At, Session, Steps
    <2>2. CASE d = c
      BY <2>1, <2>2 DEF UnhandledFor
    <2>3. CASE d # c /\ cmd[d].at = "idle"
      BY <2>1, <2>3 DEF UnhandledFor
    <2>4. CASE d # c /\ cmd[d].at # "idle"
      <3>1. cmd[d].session # cmd[c].session
        BY <2>1, <2>4, <1>solo DEF Alone
      <3>2. handle'[cmd[d].session] = handle[cmd[d].session] /\ cmd'[d] = cmd[d]
        BY <2>1, <2>4, <3>1, <1>types, TypeOK DEF TypeOK
      <3> QED
        BY <3>2, <1>solo DEF Unhandled, UnhandledFor
    <2> QED
      BY <2>2, <2>3, <2>4
  <1> SUFFICES ASSUME ~\E c \in Commands : RegisterHandle(c)
               PROVE  UnhandledFor(d)'
    BY <1>registers
  <1>kept. \A t \in Sessions : handle'[t] = 0 \/ handle'[t] = handle[t]
    BY HandleOrigin
  <1>stay. ASSUME cmd'[d] = cmd[d]
           PROVE  UnhandledFor(d)'
    BY <1>stay, <1>kept, <1>solo, <1>types DEF Unhandled, UnhandledFor
  <1>1. ASSUME NEW s \in Sessions, NEW mode \in Modes, StartSession(d, s, mode)
        PROVE  UnhandledFor(d)'
    <2>1. handle[s] = 0
      <3>1. row[s].status = "none"
        BY <1>1 DEF StartSession
      <3>2. handle[s] \in 0..MaxProcesses
        BY TypeOK DEF TypeOK
      <3>3. CASE handle[s] # 0
        <4>1. handle[s] \in Processes
          BY <3>2, <3>3, NamesProcess
        <4>2. process[handle[s]].of = s /\ process[handle[s]].state # "unborn"
          BY <3>3 DEF Registered
        <4> QED
          BY <3>1, <4>1, <4>2 DEF RowsFit
      <3> QED
        BY <3>3
    <2>2. cmd'[d].session = s
      BY <1>1, TypeOK, BeginSteps DEF StartSession
    <2> QED
      BY <2>1, <2>2, <1>kept DEF UnhandledFor
  <1>2. ASSUME NEW s \in Sessions, ResumeSession(d, s) PROVE UnhandledFor(d)'
    <2>1. handle[s] = 0
      BY <1>2 DEF ResumeSession, Contains
    <2>2. cmd'[d].session = s
      BY <1>2, TypeOK, BeginSteps DEF ResumeSession
    <2> QED
      BY <2>1, <2>2, <1>kept DEF UnhandledFor
  <1>3. ASSUME NEW s \in Sessions, SwitchMode(d, s) PROVE UnhandledFor(d)'
    <2>1. handle'[s] = 0
      BY <1>3, TypeOK DEF SwitchMode, TypeOK
    <2>2. cmd'[d].session = s
      BY <1>3, TypeOK, BeginSteps DEF SwitchMode
    <2> QED
      BY <2>1, <2>2 DEF UnhandledFor
  <1>4. ASSUME NEW s \in Sessions, ReturnToBacklog(d, s) PROVE UnhandledFor(d)'
    BY <1>4, TypeOK, BeginSteps DEF ReturnToBacklog, UnhandledFor
  <1>5. ASSUME NEW s \in Sessions, CancelFindsDead(d, s) PROVE UnhandledFor(d)'
    BY <1>5, TypeOK, BeginSteps DEF CancelFindsDead, UnhandledFor
  <1>6. ASSUME SwitchTimesOut(d) PROVE UnhandledFor(d)'
    BY <1>6, TypeOK, <1>kept, <1>solo, <1>types, DoneSteps DEF SwitchTimesOut,
       Session, Unhandled, UnhandledFor, Kinds, KindFits
  <1>7. ASSUME PersistMode(d) PROVE UnhandledFor(d)'
    <2>1. CASE row[Session(d)].deleted
      BY <2>1, <1>7, TypeOK, <1>kept, <1>solo, <1>types, DoneSteps DEF PersistMode,
         Session, Steps, Steps, Unhandled, UnhandledFor, Kinds, KindFits
    <2>2. CASE ~row[Session(d)].deleted
      BY <2>2, <1>7, TypeOK, <1>kept, <1>solo, <1>types, GoSteps DEF PersistMode,
         Session, Steps, Steps, Unhandled, UnhandledFor, Kinds, KindFits
    <2> QED
      BY <2>1, <2>2
  <1>8. ASSUME MarkStarting(d) PROVE UnhandledFor(d)'
    BY <1>8, TypeOK, <1>kept, <1>solo, <1>types, GoSteps DEF MarkStarting, At,
       Session, Steps, Unhandled, UnhandledFor, Kinds, KindFits
  <1>9. ASSUME NEW p \in Processes, Spawn(d, p) PROVE UnhandledFor(d)'
    BY <1>9, <1>kept, <1>solo, <1>types, TypeOK DEF Spawn, Spawning, At, TypeOK,
       Unhandled, UnhandledFor
  <1>10. ASSUME SpawnFails(d) PROVE UnhandledFor(d)'
    BY <1>10, TypeOK, <1>kept, <1>solo, <1>types, GoSteps DEF SpawnFails, Spawning, At,
       Steps, Unhandled, UnhandledFor, Kinds, KindFits
  <1>11. ASSUME ProviderFails(d) PROVE UnhandledFor(d)'
    BY <1>11, TypeOK, <1>kept, <1>solo, <1>types, GoSteps DEF ProviderFails, At, Steps,
       Unhandled, UnhandledFor, Kinds, KindFits
  <1>12. ASSUME ReadFails(d) PROVE UnhandledFor(d)'
    <2>1. CASE cmd[d].kind # "switch"
      BY <2>1, <1>12, TypeOK, <1>kept, <1>solo, <1>types, DoneSteps DEF ReadFails, At,
         Steps, Steps, Unhandled, UnhandledFor, Kinds, KindFits
    <2>2. CASE cmd[d].kind = "switch"
      BY <2>2, <1>12, TypeOK, <1>kept, <1>solo, <1>types, GoSteps DEF ReadFails, At,
         Steps, Steps, Unhandled, UnhandledFor, Kinds, KindFits
    <2> QED
      BY <2>1, <2>2
  <1>13. ASSUME MarkRunning(d) PROVE UnhandledFor(d)'
    <2>1. CASE row[Session(d)].deleted
      BY <2>1, <1>13, TypeOK, <1>kept, <1>solo, <1>types, GoSteps DEF MarkRunning, At,
         Session, Steps, Steps, Unhandled, UnhandledFor, Kinds, KindFits
    <2>2. CASE ~row[Session(d)].deleted
      BY <2>2, <1>13, TypeOK, <1>kept, <1>solo, <1>types, GoSteps DEF MarkRunning, At,
         Session, Steps, Steps, Unhandled, UnhandledFor, Kinds, KindFits
    <2> QED
      BY <2>1, <2>2
  <1>14. ASSUME RegisterHandle(d) PROVE UnhandledFor(d)'
    BY <1>14
  <1>15. ASSUME RegisterTerminal(d) PROVE UnhandledFor(d)'
    BY <1>15, TypeOK, <1>kept, <1>solo, <1>types, GoSteps DEF RegisterTerminal, At,
       Registering, Session, Steps, Unhandled, UnhandledFor, Kinds, KindFits
  <1>16. ASSUME TerminalRefused(d) PROVE UnhandledFor(d)'
    BY <1>16, <1>kept, <1>solo, <1>types, TypeOK DEF TerminalRefused, Registering, At,
       TypeOK, Unhandled, UnhandledFor
  <1>17. ASSUME ClearMark(d) PROVE UnhandledFor(d)'
    BY <1>17, TypeOK, <1>kept, <1>solo, <1>types, DoneSteps DEF ClearMark, At, Session,
       Unhandled, UnhandledFor, Kinds, KindFits
  <1>18. ASSUME InputFails(d) PROVE UnhandledFor(d)'
    BY <1>18, TypeOK, <1>kept, <1>solo, <1>types, GoSteps DEF InputFails, At, Session,
       Steps, Unhandled, UnhandledFor, Kinds, KindFits
  <1>19. ASSUME Unmark(d) PROVE UnhandledFor(d)'
    BY <1>19, TypeOK, <1>kept, <1>solo, <1>types, GoSteps DEF Unmark, At, Session,
       Steps, Unhandled, UnhandledFor, Kinds, KindFits
  <1>20. ASSUME RollBack(d) PROVE UnhandledFor(d)'
    BY <1>20, TypeOK, <1>kept, <1>solo, <1>types, DoneSteps DEF RollBack, At, Session,
       Unhandled, UnhandledFor, Kinds, KindFits
  <1>21. ASSUME GiveUp(d) PROVE UnhandledFor(d)'
    <2>1. CASE cmd[d].kind # "switch"
      BY <2>1, <1>21, TypeOK, <1>kept, <1>solo, <1>types, DoneSteps DEF GiveUp, At,
         Steps, Steps, Unhandled, UnhandledFor, Kinds, KindFits
    <2>2. CASE cmd[d].kind = "switch"
      BY <2>2, <1>21, TypeOK, <1>kept, <1>solo, <1>types, GoSteps DEF GiveUp, At,
         Steps, Steps, Unhandled, UnhandledFor, Kinds, KindFits
    <2> QED
      BY <2>1, <2>2
  <1>22. ASSUME RestoreMode(d) PROVE UnhandledFor(d)'
    BY <1>22, TypeOK, <1>kept, <1>solo, <1>types, DoneSteps DEF RestoreMode, Session,
       Unhandled, UnhandledFor, Kinds, KindFits
  <1>23. ASSUME ShutDiscarded(d) PROVE UnhandledFor(d)'
    BY <1>23, TypeOK, <1>kept, <1>solo, <1>types, DoneSteps DEF ShutDiscarded, Session,
       Shut, Unhandled, UnhandledFor, Kinds, KindFits
  <1>24. ASSUME CancelUnregisters(d) PROVE UnhandledFor(d)'
    BY <1>24, TypeOK, <1>kept, <1>solo, <1>types, DoneSteps DEF CancelUnregisters,
       Session, Unhandled, UnhandledFor, Kinds, KindFits
  <1>acts. CASE Acts(d)
    BY <1>acts, <1>1, <1>2, <1>3, <1>4, <1>5, <1>6, <1>7, <1>8, <1>9, <1>10, <1>11, <1>12,
       <1>13, <1>14, <1>15, <1>16, <1>17, <1>18, <1>19, <1>20, <1>21, <1>22, <1>23, <1>24
       DEF Acts, Requests, Proceeds
  <1>restart. CASE Restart
    BY <1>restart DEF Restart, Idle, UnhandledFor
  <1>unmoved. CASE ~Acts(d) /\ ~Restart
    BY <1>unmoved, Unmoved, <1>stay
  <1> QED
    BY <1>acts, <1>restart, <1>unmoved

(***************************************************************************)
(* Processes are started in the order of their numbers; a thread that      *)
(* still waits, or has yet to record an end, is of an earlier one than the *)
(* process that lives.                                                     *)
(***************************************************************************)

BornInOrder ==
    \A p, q \in Processes : p < q /\ process[p].state = "unborn" => process[q].state = "unborn"

ReapedIsDead == \A p \in Processes : process[p].waiter = "reaped" => process[p].state # "alive"

Latest ==
    Solo => \A p, q \in Processes :
              /\ p # q /\ process[p].of = process[q].of
              /\ process[q].state = "alive" /\ process[p].waiter # "none"
              => p < q

LEMMA SpawnSteps ==
    ASSUME TypeOK, NEW c \in Commands, NEW p \in Processes, Spawn(c, p)
    PROVE  /\ process'[p].state = "alive" /\ process'[p].waiter = "none"
           /\ process'[p].of = cmd[c].session
  BY DEF Spawn, Session, TypeOK

LEMMA BornInOrderStep ==
    ASSUME TypeOK, BornInOrder, Next
    PROVE  BornInOrder'
  <1> SUFFICES ASSUME NEW p \in Processes, NEW q \in Processes, p < q,
                      process'[p].state = "unborn", process'[q].state # "unborn"
               PROVE  FALSE
    BY DEF BornInOrder
  <1>1. ~\E c \in Commands : Spawn(c, p)
    BY SpawnSteps
  <1>2. process[p].state = "unborn"
    BY <1>1, ProcessStays
  <1>3. process[q].state = "unborn"
    BY <1>2 DEF BornInOrder
  <1>4. PICK c \in Commands : Spawn(c, q)
    BY <1>3, ProcessStays
  <1>5. p \in 1..(q - 1)
    BY LifecycleAssumption DEF Processes
  <1> QED
    BY <1>2, <1>4, <1>5 DEF Spawn

\* What a step does to the thread of a process: it is set by a registration,
\* taken back by a restart or when the end is recorded.
WaiterKept(p) ==
    \/ process'[p].waiter = "none"
    \/ process'[p].waiter = process[p].waiter
    \/ process[p].state = "dead" /\ process[p].waiter # "none"
    \/ \E c \in Commands : RegisterTerminal(c) /\ cmd[c].process = p

LEMMA WaiterSource ==
    ASSUME TypeOK, Next, NEW r \in Processes
    PROVE  WaiterKept(r)
  <1>1. ASSUME NEW c \in Commands, NEW s \in Sessions, SwitchMode(c, s) PROVE WaiterKept(r)
    BY <1>1, TypeOK, KilledLess DEF SwitchMode, TypeOK, ProcessTypes, WaiterKept
  <1>2. ASSUME NEW c \in Commands, NEW p \in Processes, Spawn(c, p) PROVE WaiterKept(r)
    BY <1>2, TypeOK DEF Spawn, TypeOK, WaiterKept
  <1>3. ASSUME NEW c \in Commands, ReadFails(c) PROVE WaiterKept(r)
    BY <1>3, TypeOK, KilledLess DEF ReadFails, TypeOK, ProcessTypes, WaiterKept
  <1>4. ASSUME NEW c \in Commands, RegisterHandle(c) PROVE WaiterKept(r)
    BY <1>4, TypeOK, KilledLess DEF RegisterHandle, TypeOK, ProcessTypes, WaiterKept
  <1>5. ASSUME NEW c \in Commands, RegisterTerminal(c) PROVE WaiterKept(r)
    <2>1. process' = [process EXCEPT ![cmd[c].process].waiter = "waits"]
      BY <1>5 DEF RegisterTerminal
    <2>2. CASE cmd[c].process = r
      BY <2>2, <1>5 DEF WaiterKept
    <2>3. CASE cmd[c].process # r
      BY <2>1, <2>3, TypeOK DEF TypeOK, WaiterKept
    <2> QED
      BY <2>2, <2>3
  <1>6. ASSUME NEW c \in Commands, TerminalRefused(c) PROVE WaiterKept(r)
    BY <1>6, TypeOK, KilledLess DEF TerminalRefused, TypeOK, ProcessTypes, WaiterKept
  <1>7. ASSUME NEW c \in Commands, InputFails(c) PROVE WaiterKept(r)
    BY <1>7, TypeOK, KilledLess DEF InputFails, TypeOK, ProcessTypes, WaiterKept
  <1>8. ASSUME NEW c \in Commands, RollBack(c) PROVE WaiterKept(r)
    BY <1>8, TypeOK, KilledLess DEF RollBack, TypeOK, ProcessTypes, WaiterKept
  <1>9. ASSUME NEW c \in Commands, GiveUp(c) PROVE WaiterKept(r)
    BY <1>9, TypeOK, KilledLess DEF GiveUp, TypeOK, ProcessTypes, WaiterKept
  <1>10. ASSUME NEW c \in Commands, ShutDiscarded(c) PROVE WaiterKept(r)
    BY <1>10, TypeOK, KilledLess DEF ShutDiscarded, Shut, TypeOK, ProcessTypes, WaiterKept
  <1>11. ASSUME NEW c \in Commands, CancelUnregisters(c) PROVE WaiterKept(r)
    BY <1>11, TypeOK, KilledLess DEF CancelUnregisters, TypeOK, ProcessTypes, WaiterKept
  <1>12. ASSUME NEW p \in Processes, Exits(p) PROVE WaiterKept(r)
    BY <1>12, TypeOK, KilledLess DEF Exits, TypeOK, ProcessTypes, WaiterKept
  <1>13. ASSUME NEW p \in Processes, Reap(p) PROVE WaiterKept(r)
    <2>1. /\ process' = [process EXCEPT ![p].waiter = "reaped"]
          /\ process[p].state = "dead" /\ process[p].waiter = "waits"
      BY <1>13 DEF Reap
    <2> QED
      BY <2>1, TypeOK DEF TypeOK, WaiterKept
  <1>14. ASSUME NEW p \in Processes, RecordExit(p) PROVE WaiterKept(r)
    <2>1. process' = [process EXCEPT ![p].waiter = "none"]
      BY <1>14 DEF RecordExit
    <2> QED
      BY <2>1, TypeOK DEF TypeOK, WaiterKept
  <1>15. ASSUME NEW s \in Sessions, ShutEnded(s) PROVE WaiterKept(r)
    <2>1. process' = Killed({handle[s], pty[s]})
      BY <1>15 DEF ShutEnded, Shut
    <2> QED
      BY <2>1, TypeOK, KilledLess DEF TypeOK, ProcessTypes, WaiterKept
  <1>16. ASSUME CloseProject PROVE WaiterKept(r)
    BY <1>16, TypeOK, KilledLess DEF CloseProject, TypeOK, ProcessTypes, WaiterKept
  <1>17. ASSUME Restart PROVE WaiterKept(r)
    BY <1>17, TypeOK DEF Restart, TypeOK, WaiterKept
  <1>18. CASE UNCHANGED <<process>>
    BY <1>18 DEF WaiterKept
  <1>19. ASSUME NEW c \in Commands, Requests(c) \/ Proceeds(c)
        PROVE  WaiterKept(r)
    BY <1>19, <1>1, <1>2, <1>3, <1>4, <1>5, <1>6, <1>7, <1>8, <1>9, <1>10, <1>11, <1>12,
       <1>13, <1>14, <1>15, <1>16, <1>17, <1>18 DEF Requests, Proceeds, StartSession, Begin,
       ResumeSession, ReturnToBacklog, CancelFindsDead, SwitchTimesOut, Done, Idle, Session,
       PersistMode, Go, MarkStarting, At, SpawnFails, Spawning, ProviderFails, MarkRunning,
       ClearMark, Unmark, RestoreMode
  <1> QED
    BY <1>1, <1>2, <1>3, <1>4, <1>5, <1>6, <1>7, <1>8, <1>9, <1>10, <1>11, <1>12, <1>13,
       <1>14, <1>15, <1>16, <1>17, <1>18, <1>19 DEF Next, Lists, ResumeShort, ListRunning,
       LookInTerminals, Skip, LookInRegistry, StopLost, ListRegistered, PickEnded, Listed

LEMMA ReapedIsDeadStep ==
    ASSUME TypeOK, ReapedIsDead, Next
    PROVE  ReapedIsDead'
  <1> SUFFICES ASSUME NEW r \in Processes, process'[r].waiter = "reaped", process'[r].state = "alive"
               PROVE  FALSE
    BY DEF ReapedIsDead
  <1>1. ~\E c \in Commands : Spawn(c, r)
    BY SpawnSteps
  <1>2. process[r].state = "alive"
    BY <1>1, ProcessStays
  <1>3. ~\E c \in Commands : RegisterTerminal(c) /\ cmd[c].process = r
    <2> SUFFICES ASSUME NEW c \in Commands, RegisterTerminal(c), cmd[c].process = r
                 PROVE  FALSE
      OBVIOUS
    <2>1. process' = [process EXCEPT ![r].waiter = "waits"]
      BY DEF RegisterTerminal
    <2> QED
      BY <2>1, TypeOK DEF TypeOK
  <1> QED
    BY <1>2, <1>3, WaiterSource DEF WaiterKept, ReapedIsDead

LEMMA LatestStep ==
    ASSUME TypeOK, Kinds, Registered, Quiet, BornInOrder, Latest, Next
    PROVE  Latest'
  <1> SUFFICES ASSUME Solo', NEW p \in Processes, NEW q \in Processes, p # q,
                      process'[p].of = process'[q].of,
                      process'[q].state = "alive", process'[p].waiter # "none"
               PROVE  p < q
    BY DEF Latest
  <1>solo. Solo
    BY OddGrows DEF Solo
  <1>1. ~\E c \in Commands : Spawn(c, p)
    BY SpawnSteps
  <1>2. process'[p].of = process[p].of
    BY <1>1, ProcessStays
  <1>3. CASE \E c \in Commands : Spawn(c, q)
    <2>1. PICK c \in Commands : Spawn(c, q)
      BY <1>3
    <2>2. process[p].waiter # "none"
      BY <2>1, TypeOK DEF Spawn, TypeOK
    <2>3. process[p].state # "unborn" /\ process[q].state = "unborn"
      BY <2>1, <2>2 DEF Registered, Spawn
    <2> QED
      BY <2>3, LifecycleAssumption DEF BornInOrder, Processes
  <1>4. CASE ~\E c \in Commands : Spawn(c, q)
    <2>1. process[q].state = "alive" /\ process'[q].of = process[q].of
      BY <1>4, ProcessStays
    <2>2. ASSUME NEW c \in Commands, RegisterTerminal(c), cmd[c].process = p
          PROVE  FALSE
      <3>1. process[p].of = cmd[c].session
        BY <2>2, LifecycleAssumption DEF Registered, Processes
      <3>2. cmd[c].at \in {"spawned", "running"}
        BY <2>2 DEF RegisterTerminal, Registering, At
      <3> QED
        BY <1>2, <2>1, <2>2, <3>1, <3>2, <1>solo DEF Quiet, QuietFor
    <2>3. process[p].waiter # "none"
      BY <2>2, WaiterSource DEF WaiterKept
    <2> QED
      BY <1>2, <2>1, <2>3, <1>solo DEF Latest
  <1> QED
    BY <1>3, <1>4

\* A start is committed, marked and spawned in this order.
StartBefore(c) ==
    cmd[c].kind = "start" /\ cmd'[c].kind = "start"
    /\ cmd'[c].at \in {"committed", "marked", "spawned"} =>
        /\ cmd[c].at \in {"committed", "marked", "spawned"}
        /\ cmd'[c].at = "committed" => cmd[c].at = "committed"
        /\ cmd'[c].at = "marked" => cmd[c].at \in {"committed", "marked"}

LEMMA StartsBefore ==
    ASSUME TypeOK, Kinds, Next, NEW d \in Commands
    PROVE  StartBefore(d)
  <1>1. ASSUME NEW s \in Sessions, NEW mode \in Modes, StartSession(d, s, mode)
        PROVE  StartBefore(d)
    BY <1>1, TypeOK, BeginSteps DEF StartSession, Kinds, KindFits, StartBefore
  <1>2. ASSUME NEW s \in Sessions, ResumeSession(d, s) PROVE StartBefore(d)
    BY <1>2, TypeOK, BeginSteps DEF ResumeSession, Kinds, KindFits, StartBefore
  <1>3. ASSUME NEW s \in Sessions, SwitchMode(d, s) PROVE StartBefore(d)
    BY <1>3, TypeOK, BeginSteps DEF SwitchMode, Kinds, KindFits, StartBefore
  <1>4. ASSUME NEW s \in Sessions, ReturnToBacklog(d, s) PROVE StartBefore(d)
    BY <1>4, TypeOK, BeginSteps DEF ReturnToBacklog, Kinds, KindFits, StartBefore
  <1>5. ASSUME NEW s \in Sessions, CancelFindsDead(d, s) PROVE StartBefore(d)
    BY <1>5, TypeOK, BeginSteps DEF CancelFindsDead, Kinds, KindFits, StartBefore
  <1>6. ASSUME SwitchTimesOut(d) PROVE StartBefore(d)
    BY <1>6, TypeOK, DoneSteps DEF SwitchTimesOut, Session, Kinds, KindFits,
       StartBefore
  <1>7. ASSUME PersistMode(d) PROVE StartBefore(d)
    <2>1. CASE row[Session(d)].deleted
      BY <2>1, <1>7, TypeOK, DoneSteps DEF PersistMode, Session, Steps, Steps, Kinds,
         KindFits, StartBefore
    <2>2. CASE ~row[Session(d)].deleted
      BY <2>2, <1>7, TypeOK, GoSteps DEF PersistMode, Session, Steps, Steps, Kinds,
         KindFits, StartBefore
    <2> QED
      BY <2>1, <2>2
  <1>8. ASSUME MarkStarting(d) PROVE StartBefore(d)
    BY <1>8, TypeOK, GoSteps DEF MarkStarting, At, Session, Steps, Kinds, KindFits,
       StartBefore
  <1>9. ASSUME NEW p \in Processes, Spawn(d, p) PROVE StartBefore(d)
    BY <1>9, TypeOK DEF Spawn, At, Session, Spawning, TypeOK, StartBefore
  <1>10. ASSUME SpawnFails(d) PROVE StartBefore(d)
    BY <1>10, TypeOK, GoSteps DEF SpawnFails, Spawning, At, Steps, Kinds, KindFits,
       StartBefore
  <1>11. ASSUME ProviderFails(d) PROVE StartBefore(d)
    BY <1>11, TypeOK, GoSteps DEF ProviderFails, At, Steps, Kinds, KindFits,
       StartBefore
  <1>12. ASSUME ReadFails(d) PROVE StartBefore(d)
    <2>1. CASE cmd[d].kind # "switch"
      BY <2>1, <1>12, TypeOK, DoneSteps DEF ReadFails, At, Steps, Steps, Kinds,
         KindFits, StartBefore
    <2>2. CASE cmd[d].kind = "switch"
      BY <2>2, <1>12, TypeOK, GoSteps DEF ReadFails, At, Steps, Steps, Kinds, KindFits,
         StartBefore
    <2> QED
      BY <2>1, <2>2
  <1>13. ASSUME MarkRunning(d) PROVE StartBefore(d)
    <2>1. CASE row[Session(d)].deleted
      BY <2>1, <1>13, TypeOK, GoSteps DEF MarkRunning, At, Session, Steps, Steps,
         Kinds, KindFits, StartBefore
    <2>2. CASE ~row[Session(d)].deleted
      BY <2>2, <1>13, TypeOK, GoSteps DEF MarkRunning, At, Session, Steps, Steps,
         Kinds, KindFits, StartBefore
    <2> QED
      BY <2>1, <2>2
  <1>14. ASSUME RegisterHandle(d) PROVE StartBefore(d)
    BY <1>14, TypeOK, GoSteps DEF RegisterHandle, At, Registering, Session, Steps,
       Kinds, KindFits, StartBefore
  <1>15. ASSUME RegisterTerminal(d) PROVE StartBefore(d)
    BY <1>15, TypeOK, GoSteps DEF RegisterTerminal, At, Registering, Session, Steps,
       Kinds, KindFits, StartBefore
  <1>16. ASSUME TerminalRefused(d) PROVE StartBefore(d)
    BY <1>16, TypeOK DEF TerminalRefused, At, Registering, Session, TypeOK, StartBefore
  <1>17. ASSUME ClearMark(d) PROVE StartBefore(d)
    BY <1>17, TypeOK, DoneSteps DEF ClearMark, At, Session, Kinds, KindFits,
       StartBefore
  <1>18. ASSUME InputFails(d) PROVE StartBefore(d)
    BY <1>18, TypeOK, GoSteps DEF InputFails, At, Session, Steps, Kinds, KindFits,
       StartBefore
  <1>19. ASSUME Unmark(d) PROVE StartBefore(d)
    BY <1>19, TypeOK, GoSteps DEF Unmark, At, Session, Steps, Kinds, KindFits,
       StartBefore
  <1>20. ASSUME RollBack(d) PROVE StartBefore(d)
    BY <1>20, TypeOK, DoneSteps DEF RollBack, At, Session, Kinds, KindFits, StartBefore
  <1>21. ASSUME GiveUp(d) PROVE StartBefore(d)
    <2>1. CASE cmd[d].kind # "switch"
      BY <2>1, <1>21, TypeOK, DoneSteps DEF GiveUp, At, Steps, Steps, Kinds, KindFits,
         StartBefore
    <2>2. CASE cmd[d].kind = "switch"
      BY <2>2, <1>21, TypeOK, GoSteps DEF GiveUp, At, Steps, Steps, Kinds, KindFits,
         StartBefore
    <2> QED
      BY <2>1, <2>2
  <1>22. ASSUME RestoreMode(d) PROVE StartBefore(d)
    BY <1>22, TypeOK, DoneSteps DEF RestoreMode, Session, Kinds, KindFits, StartBefore
  <1>23. ASSUME ShutDiscarded(d) PROVE StartBefore(d)
    BY <1>23, TypeOK, DoneSteps DEF ShutDiscarded, Session, Shut, Kinds, KindFits,
       StartBefore
  <1>24. ASSUME CancelUnregisters(d) PROVE StartBefore(d)
    BY <1>24, TypeOK, DoneSteps DEF CancelUnregisters, Session, Kinds, KindFits,
       StartBefore
  <1>acts. CASE Acts(d)
    BY <1>acts, <1>1, <1>2, <1>3, <1>4, <1>5, <1>6, <1>7, <1>8, <1>9, <1>10, <1>11, <1>12,
       <1>13, <1>14, <1>15, <1>16, <1>17, <1>18, <1>19, <1>20, <1>21, <1>22, <1>23, <1>24
       DEF Acts, Requests, Proceeds
  <1>restart. CASE Restart
    BY <1>restart DEF Restart, Idle, StartBefore
  <1>unmoved. CASE ~Acts(d) /\ ~Restart
    BY <1>unmoved, Unmoved DEF StartBefore, Kinds, KindFits
  <1> QED
    BY <1>acts, <1>restart, <1>unmoved

\* The row of a start is new: no thread has an end to record in it.
FreshFor(c) ==
    cmd[c].kind = "start" /\ cmd[c].at \in {"committed", "marked", "spawned"} =>
        \A p \in Processes : process[p].of = cmd[c].session => process[p].waiter = "none"

Fresh == Solo => \A c \in Commands : FreshFor(c)

LEMMA FreshStep ==
    ASSUME TypeOK, Kinds, Alone, RowsFit, Registered, Fresh, Next
    PROVE  Fresh'
  <1> SUFFICES ASSUME Solo', NEW c \in Commands, cmd'[c].kind = "start",
                      cmd'[c].at \in {"committed", "marked", "spawned"},
                      NEW p \in Processes, process'[p].of = cmd'[c].session
               PROVE  process'[p].waiter = "none"
    BY DEF Fresh, FreshFor
  <1>solo. Solo
    BY OddGrows DEF Solo
  <1>1. CASE \E d \in Commands : Spawn(d, p)
    BY <1>1, SpawnSteps
  <1>2. CASE ~\E d \in Commands : Spawn(d, p)
    <2>1. process'[p].of = process[p].of
      BY <1>2, ProcessStays
    <2>2. CASE \E s \in Sessions, mode \in Modes : StartSession(c, s, mode)
      <3>1. PICK s \in Sessions, mode \in Modes : StartSession(c, s, mode)
        BY <2>2
      <3>2. cmd'[c].session = s /\ row[s].status = "none" /\ process' = process
        BY <3>1, TypeOK, BeginSteps DEF StartSession
      <3> QED
        BY <2>1, <3>2 DEF RowsFit, Registered
    <2>3. CASE ~\E s \in Sessions, mode \in Modes : StartSession(c, s, mode)
      <3>1. cmd[c].kind = "start" /\ cmd'[c].session = cmd[c].session
        BY <2>3, StartsGoOn
      <3>2. cmd[c].at \in {"committed", "marked", "spawned"}
        BY <3>1, StartsBefore DEF StartBefore
      <3>3. process[p].waiter = "none"
        BY <2>1, <3>1, <3>2, <1>solo DEF Fresh, FreshFor
      <3>4. ASSUME NEW d \in Commands, RegisterTerminal(d), cmd[d].process = p
            PROVE  FALSE
        <4>1. process[p].of = cmd[d].session
          BY <3>4, LifecycleAssumption DEF Registered, Processes
        <4>2. cmd[d].at # "idle" /\ cmd'[d].at = "inserted"
          BY <3>4, TypeOK, GoSteps DEF RegisterTerminal, Registering, At, Steps
        <4> QED
          BY <2>1, <3>1, <3>2, <4>1, <4>2, <1>solo DEF Alone
      <3> QED
        BY <3>3, <3>4, WaiterSource DEF WaiterKept
    <2> QED
      BY <2>2, <2>3
  <1> QED
    BY <1>1, <1>2


(***************************************************************************)
(* In an orderly project the marks are there when the listing looks.       *)
(***************************************************************************)

\* A command that starts a structured process, or restarts any, has its mark.
MarkedFor(c) ==
    /\ cmd[c].at \in {"marked", "spawned", "running", "inserted", "failed"}
    /\ ~(cmd[c].kind = "start" /\ cmd[c].mode = "tui")
    => cmd[c].session \in starting

Marked == Orderly => \A c \in Commands : MarkedFor(c)

LEMMA OrderlyBefore ==
    ASSUME Next, Orderly'
    PROVE  Orderly /\ Solo /\ Solo' /\ "race" \notin odd'
  BY OddGrows DEF Orderly, Solo

\* Who clears a mark.
LEMMA MarkCleared ==
    ASSUME TypeOK, Next, NEW t \in Sessions, t \in starting, t \notin starting'
    PROVE  \/ \E c \in Commands : Acts(c) /\ cmd[c].at # "idle" /\ cmd[c].session = t
           \/ \E c \in Commands : SwitchMode(c, t)
           \/ ShutEnded(t) \/ Restart
  <1> DEFINE G == \/ \E c \in Commands : Acts(c) /\ cmd[c].at # "idle" /\ cmd[c].session = t
                  \/ \E c \in Commands : SwitchMode(c, t)
                  \/ ShutEnded(t) \/ Restart
  <1>1. ASSUME NEW c \in Commands, NEW s \in Sessions, SwitchMode(c, s) PROVE G
    <2>1. s = t
      BY <1>1 DEF SwitchMode
    <2> QED
      BY <2>1, <1>1
  <1>2. ASSUME NEW c \in Commands, MarkStarting(c) PROVE G
    BY <1>2 DEF MarkStarting
  <1>3. ASSUME NEW c \in Commands, TerminalRefused(c) PROVE G
    <2>1. cmd[c].session = t /\ cmd[c].at # "idle"
      BY <1>3 DEF TerminalRefused, At, Registering, Session
    <2>2. Acts(c)
      BY <1>3 DEF Acts, Proceeds
    <2> QED
      BY <2>1, <2>2
  <1>4. ASSUME NEW c \in Commands, ClearMark(c) PROVE G
    <2>1. cmd[c].session = t /\ cmd[c].at # "idle"
      BY <1>4 DEF ClearMark, At, Session
    <2>2. Acts(c)
      BY <1>4 DEF Acts, Proceeds
    <2> QED
      BY <2>1, <2>2
  <1>5. ASSUME NEW c \in Commands, Unmark(c) PROVE G
    <2>1. cmd[c].session = t /\ cmd[c].at # "idle"
      BY <1>5 DEF Unmark, At, Session
    <2>2. Acts(c)
      BY <1>5 DEF Acts, Proceeds
    <2> QED
      BY <2>1, <2>2
  <1>6. ASSUME NEW c \in Commands, ShutDiscarded(c) PROVE G
    <2>1. cmd[c].session = t /\ cmd[c].at # "idle"
      BY <1>6 DEF ShutDiscarded, Session, Shut
    <2>2. Acts(c)
      BY <1>6 DEF Acts, Proceeds
    <2> QED
      BY <2>1, <2>2
  <1>7. ASSUME NEW c \in Commands, CancelUnregisters(c) PROVE G
    <2>1. cmd[c].session = t /\ cmd[c].at # "idle"
      BY <1>7 DEF CancelUnregisters, Session
    <2>2. Acts(c)
      BY <1>7 DEF Acts, Proceeds
    <2> QED
      BY <2>1, <2>2
  <1>8. ASSUME NEW s \in Sessions, ShutEnded(s) PROVE G
    <2>1. s = t
      BY <1>8 DEF ShutEnded, Shut
    <2> QED
      BY <2>1, <1>8
  <1>9. ASSUME Restart PROVE G
    BY <1>9
  <1>10. CASE UNCHANGED <<starting>>
    BY <1>10
  <1>11. ASSUME NEW c \in Commands, Requests(c) \/ Proceeds(c)
        PROVE  G
    BY <1>11, <1>1, <1>2, <1>3, <1>4, <1>5, <1>6, <1>7, <1>8, <1>9, <1>10 DEF Requests,
       Proceeds, StartSession, Begin, ResumeSession, ReturnToBacklog, CancelFindsDead,
       SwitchTimesOut, Done, Idle, Session, PersistMode, Go, Spawn, At, Spawning,
       SpawnFails, ProviderFails, ReadFails, MarkRunning, RegisterHandle, Registering,
       RegisterTerminal, InputFails, RollBack, GiveUp, RestoreMode
  <1> QED
    BY <1>1, <1>2, <1>3, <1>4, <1>5, <1>6, <1>7, <1>8, <1>9, <1>10, <1>11 DEF Next, Lists,
       ResumeShort, Exits, Reap, RecordExit, ListRunning, LookInTerminals, Skip,
       LookInRegistry, StopLost, ListRegistered, PickEnded, Listed, CloseProject

LEMMA MarkedStep ==
    ASSUME TypeOK, Kinds, Alone, Marked, Next
    PROVE  Marked'
  <1> SUFFICES ASSUME Orderly', NEW d \in Commands
               PROVE  MarkedFor(d)'
    BY DEF Marked
  <1>solo. Orderly /\ Solo /\ Solo' /\ "race" \notin odd'
    BY OrderlyBefore
  <1>types. /\ \A c \in Commands : cmd[c].session \in Sessions
            /\ starting \subseteq Sessions
    BY TypeOK DEF TypeOK
  <1>before. MarkedFor(d)
    BY <1>solo DEF Marked
  <1>1. ASSUME NEW s \in Sessions, NEW mode \in Modes, StartSession(d, s, mode)
        PROVE  MarkedFor(d)'
    BY <1>1, TypeOK, <1>before, BeginSteps DEF StartSession, MarkedFor, Kinds,
       KindFits
  <1>2. ASSUME NEW s \in Sessions, ResumeSession(d, s) PROVE MarkedFor(d)'
    BY <1>2, TypeOK, <1>before, BeginSteps DEF ResumeSession, MarkedFor, Kinds,
       KindFits
  <1>3. ASSUME NEW s \in Sessions, SwitchMode(d, s) PROVE MarkedFor(d)'
    BY <1>3, TypeOK, BeginSteps DEF SwitchMode, MarkedFor
  <1>4. ASSUME NEW s \in Sessions, ReturnToBacklog(d, s) PROVE MarkedFor(d)'
    BY <1>4, TypeOK, <1>before, BeginSteps DEF ReturnToBacklog, MarkedFor, Kinds,
       KindFits
  <1>5. ASSUME NEW s \in Sessions, CancelFindsDead(d, s) PROVE MarkedFor(d)'
    BY <1>5, TypeOK, <1>before, BeginSteps DEF CancelFindsDead, MarkedFor, Kinds,
       KindFits
  <1>6. ASSUME SwitchTimesOut(d) PROVE MarkedFor(d)'
    BY <1>6, TypeOK, <1>before, DoneSteps DEF SwitchTimesOut, Session, MarkedFor,
       Kinds, KindFits
  <1>7. ASSUME PersistMode(d) PROVE MarkedFor(d)'
    <2>1. CASE row[Session(d)].deleted
      BY <2>1, <1>7, TypeOK, <1>before, DoneSteps DEF PersistMode, Session, Steps,
         Steps, MarkedFor, Kinds, KindFits
    <2>2. CASE ~row[Session(d)].deleted
      BY <2>2, <1>7, TypeOK, <1>before, GoSteps DEF PersistMode, Session, Steps,
         Steps, MarkedFor, Kinds, KindFits
    <2> QED
      BY <2>1, <2>2
  <1>8. ASSUME MarkStarting(d) PROVE MarkedFor(d)'
    BY <1>8, TypeOK, <1>before, GoSteps DEF MarkStarting, At, Session, Steps,
       MarkedFor, Kinds, KindFits
  <1>9. ASSUME NEW p \in Processes, Spawn(d, p) PROVE MarkedFor(d)'
    BY <1>9, <1>before, TypeOK DEF Spawn, At, Session, Spawning, TypeOK, MarkedFor
  <1>10. ASSUME SpawnFails(d) PROVE MarkedFor(d)'
    BY <1>10, TypeOK, <1>before, GoSteps DEF SpawnFails, Spawning, At, Steps,
       MarkedFor, Kinds, KindFits
  <1>11. ASSUME ProviderFails(d) PROVE MarkedFor(d)'
    BY <1>11, TypeOK, <1>before, GoSteps DEF ProviderFails, At, Steps, MarkedFor,
       Kinds, KindFits
  <1>12. ASSUME ReadFails(d) PROVE MarkedFor(d)'
    <2>1. CASE cmd[d].kind # "switch"
      BY <2>1, <1>12, TypeOK, <1>before, DoneSteps DEF ReadFails, At, Steps, Steps,
         MarkedFor, Kinds, KindFits
    <2>2. CASE cmd[d].kind = "switch"
      BY <2>2, <1>12, TypeOK, <1>before, GoSteps DEF ReadFails, At, Steps, Steps,
         MarkedFor, Kinds, KindFits
    <2> QED
      BY <2>1, <2>2
  <1>13. ASSUME MarkRunning(d) PROVE MarkedFor(d)'
    <2>1. CASE row[Session(d)].deleted
      BY <2>1, <1>13, TypeOK, <1>before, GoSteps DEF MarkRunning, At, Session, Steps,
         Steps, MarkedFor, Kinds, KindFits
    <2>2. CASE ~row[Session(d)].deleted
      BY <2>2, <1>13, TypeOK, <1>before, GoSteps DEF MarkRunning, At, Session, Steps,
         Steps, MarkedFor, Kinds, KindFits
    <2> QED
      BY <2>1, <2>2
  <1>14. ASSUME RegisterHandle(d) PROVE MarkedFor(d)'
    BY <1>14, TypeOK, <1>before, GoSteps DEF RegisterHandle, At, Registering, Session,
       Steps, MarkedFor, Kinds, KindFits
  <1>15. ASSUME RegisterTerminal(d) PROVE MarkedFor(d)'
    BY <1>15, TypeOK, <1>before, GoSteps DEF RegisterTerminal, At, Registering,
       Session, Steps, MarkedFor, Kinds, KindFits
  <1>16. ASSUME TerminalRefused(d) PROVE MarkedFor(d)'
    BY <1>16, <1>before, TypeOK DEF TerminalRefused, At, Registering, Session, TypeOK,
       MarkedFor
  <1>17. ASSUME ClearMark(d) PROVE MarkedFor(d)'
    BY <1>17, TypeOK, <1>before, DoneSteps DEF ClearMark, At, Session, MarkedFor,
       Kinds, KindFits
  <1>18. ASSUME InputFails(d) PROVE MarkedFor(d)'
    BY <1>18, TypeOK, <1>before, GoSteps DEF InputFails, At, Session, Steps, MarkedFor,
       Kinds, KindFits
  <1>19. ASSUME Unmark(d) PROVE MarkedFor(d)'
    BY <1>19, TypeOK, <1>before, GoSteps DEF Unmark, At, Session, Steps, MarkedFor,
       Kinds, KindFits
  <1>20. ASSUME RollBack(d) PROVE MarkedFor(d)'
    BY <1>20, TypeOK, <1>before, DoneSteps DEF RollBack, At, Session, MarkedFor, Kinds,
       KindFits
  <1>21. ASSUME GiveUp(d) PROVE MarkedFor(d)'
    <2>1. CASE cmd[d].kind # "switch"
      BY <2>1, <1>21, TypeOK, <1>before, DoneSteps DEF GiveUp, At, Steps, Steps,
         MarkedFor, Kinds, KindFits
    <2>2. CASE cmd[d].kind = "switch"
      BY <2>2, <1>21, TypeOK, <1>before, GoSteps DEF GiveUp, At, Steps, Steps,
         MarkedFor, Kinds, KindFits
    <2> QED
      BY <2>1, <2>2
  <1>22. ASSUME RestoreMode(d) PROVE MarkedFor(d)'
    BY <1>22, TypeOK, <1>before, DoneSteps DEF RestoreMode, Session, MarkedFor, Kinds,
       KindFits
  <1>23. ASSUME ShutDiscarded(d) PROVE MarkedFor(d)'
    BY <1>23, TypeOK, <1>before, DoneSteps DEF ShutDiscarded, Session, Shut, MarkedFor,
       Kinds, KindFits
  <1>24. ASSUME CancelUnregisters(d) PROVE MarkedFor(d)'
    BY <1>24, TypeOK, <1>before, DoneSteps DEF CancelUnregisters, Session, MarkedFor,
       Kinds, KindFits
  <1>acts. CASE Acts(d)
    BY <1>acts, <1>1, <1>2, <1>3, <1>4, <1>5, <1>6, <1>7, <1>8, <1>9, <1>10, <1>11, <1>12,
       <1>13, <1>14, <1>15, <1>16, <1>17, <1>18, <1>19, <1>20, <1>21, <1>22, <1>23, <1>24
       DEF Acts, Requests, Proceeds
  <1>restart. CASE Restart
    BY <1>restart DEF Restart, Idle, MarkedFor
  <1>unmoved. CASE ~Acts(d) /\ ~Restart
    <2>1. cmd'[d] = cmd[d]
      BY <1>unmoved, Unmoved
    <2>2. CASE cmd[d].at = "idle"
      BY <2>1, <2>2 DEF MarkedFor
    <2>3. CASE cmd[d].at # "idle"
      <3>1. ASSUME NEW c \in Commands, Acts(c), cmd[c].at # "idle",
                   cmd[c].session = cmd[d].session
            PROVE  FALSE
        BY <2>3, <3>1, <1>unmoved, <1>solo DEF Alone
      <3>2. ASSUME NEW c \in Commands, NEW s \in Sessions, SwitchMode(c, s), s = cmd[d].session
            PROVE  FALSE
        <4>1. Busy(s) = {}
          BY <3>2, <1>solo, TypeOK, BeginSteps DEF SwitchMode, Solo
        <4> QED
          BY <2>3, <3>2, <4>1 DEF Busy
      <3>3. ASSUME ShutEnded(cmd[d].session)
            PROVE  FALSE
        BY <2>3, <3>3, <1>solo DEF ShutEnded, Busy
      <3>4. cmd[d].session \in starting => cmd[d].session \in starting'
        BY <3>1, <3>2, <3>3, <1>unmoved, <1>types, MarkCleared
      <3> QED
        BY <2>1, <3>4, <1>before DEF MarkedFor
    <2> QED
      BY <2>2, <2>3
  <1> QED
    BY <1>acts, <1>restart, <1>unmoved

\* The sessions the listing goes through have rows.
ListedFit ==
    /\ poll.at \in {"scan", "checked", "doomed"} => \A s \in poll.todo : row[s].status # "none"
    /\ poll.at \in {"checked", "doomed"} => row[poll.session].status # "none"

\* How the listing moves.
PollKept ==
    \/ poll' = poll
    \/ poll'.at \in {"idle", "ids", "purge"}
    \/ ListRunning
    \/ poll.at \in {"scan", "checked", "doomed"} /\ poll'.at = "scan" /\ poll'.todo \subseteq poll.todo
    \/ /\ poll.at = "scan" /\ poll'.at = "checked" /\ poll'.todo = poll.todo
       /\ poll'.session \in poll.todo /\ pty[poll'.session] = 0 /\ pty' = pty
    \/ /\ LookInRegistry /\ poll'.at = "doomed" /\ poll'.todo = poll.todo
       /\ poll'.session = poll.session

LEMMA PollMoves ==
    ASSUME TypeOK, Next
    PROVE  PollKept
  <1>1. ASSUME ListRunning PROVE PollKept
    BY <1>1 DEF PollKept
  <1>2. ASSUME NEW s \in Sessions, LookInTerminals(s) PROVE PollKept
    <2>1. CASE pty[s] # 0
      BY <2>1, <1>2, TypeOK DEF LookInTerminals, Skip, TypeOK, PollKept
    <2>2. CASE pty[s] = 0
      BY <2>2, <1>2, TypeOK DEF LookInTerminals, TypeOK, PollKept
    <2> QED
      BY <2>1, <2>2
  <1>3. ASSUME LookInRegistry PROVE PollKept
    <2>1. CASE Contains(poll.session)
      <3>1. poll' = Skip(poll.session) /\ poll.at = "checked"
        BY <2>1, <1>3 DEF LookInRegistry
      <3>2. poll'.at = "scan" /\ poll'.todo \subseteq poll.todo
        BY <3>1, TypeOK DEF Skip, TypeOK
      <3> QED
        BY <3>1, <3>2 DEF PollKept
    <2>2. CASE ~Contains(poll.session)
      BY <2>2, <1>3, TypeOK DEF LookInRegistry, TypeOK, PollKept
    <2> QED
      BY <2>1, <2>2
  <1>4. ASSUME StopLost PROVE PollKept
    BY <1>4, TypeOK DEF StopLost, Skip, TypeOK, PollKept
  <1>5. ASSUME ListRegistered PROVE PollKept
    BY <1>5, TypeOK DEF ListRegistered, TypeOK, PollKept
  <1>6. ASSUME PickEnded PROVE PollKept
    BY <1>6, TypeOK DEF PickEnded, TypeOK, PollKept
  <1>7. ASSUME NEW s \in Sessions, ShutEnded(s) PROVE PollKept
    BY <1>7, TypeOK DEF ShutEnded, TypeOK, PollKept
  <1>8. ASSUME Listed PROVE PollKept
    BY <1>8 DEF Listed, NotListing, PollKept
  <1>9. ASSUME Restart PROVE PollKept
    BY <1>9 DEF Restart, NotListing, PollKept
  <1>10. CASE UNCHANGED <<poll>>
    BY <1>10 DEF PollKept
  <1>11. ASSUME NEW c \in Commands, Requests(c) \/ Proceeds(c)
        PROVE  PollKept
    BY <1>11, <1>1, <1>2, <1>3, <1>4, <1>5, <1>6, <1>7, <1>8, <1>9, <1>10 DEF Requests,
       Proceeds, StartSession, Begin, ResumeSession, SwitchMode, ReturnToBacklog,
       CancelFindsDead, SwitchTimesOut, Done, Idle, Session, PersistMode, Go, MarkStarting,
       At, Spawn, Spawning, SpawnFails, ProviderFails, ReadFails, MarkRunning,
       RegisterHandle, Registering, RegisterTerminal, TerminalRefused, ClearMark,
       InputFails, Unmark, RollBack, GiveUp, RestoreMode, ShutDiscarded, Shut,
       CancelUnregisters
  <1> QED
    BY <1>1, <1>2, <1>3, <1>4, <1>5, <1>6, <1>7, <1>8, <1>9, <1>10, <1>11 DEF Next, Lists,
       ResumeShort, Exits, Reap, RecordExit, CloseProject

LEMMA ListedFitStep ==
    ASSUME TypeOK, ListedFit, Next
    PROVE  ListedFit'
  <1>1. /\ poll.todo \subseteq Sessions /\ poll.session \in Sessions
        /\ \A t \in Sessions : row[t].status # "none" => row'[t].status # "none"
    BY StatusStays, TypeOK DEF TypeOK
  <1>2. CASE ListRunning
    <2>1. /\ poll'.at = "scan" /\ row' = row
          /\ poll'.todo = {s \in Sessions : Exists(s) /\ row[s].status = "running"}
      BY <1>2, TypeOK DEF ListRunning, TypeOK
    <2> QED
      BY <2>1 DEF ListedFit
  <1>3. CASE ~ListRunning
    <2>1. /\ \A t \in poll.todo : row[t].status # "none" => row'[t].status # "none"
          /\ row[poll.session].status # "none" => row'[poll.session].status # "none"
      BY <1>1
    <2>2. CASE poll' = poll
      BY <2>1, <2>2 DEF ListedFit
    <2>3. CASE poll'.at \in {"idle", "ids", "purge"}
      BY <2>3 DEF ListedFit
    <2>4. CASE poll.at \in {"scan", "checked", "doomed"} /\ poll'.at = "scan"
               /\ poll'.todo \subseteq poll.todo
      BY <2>1, <2>4 DEF ListedFit
    <2>5. CASE poll.at = "scan" /\ poll'.todo = poll.todo /\ poll'.session \in poll.todo
      BY <2>1, <2>5 DEF ListedFit
    <2>6. CASE LookInRegistry /\ poll'.todo = poll.todo /\ poll'.session = poll.session
      BY <2>1, <2>6 DEF ListedFit, LookInRegistry
    <2> QED
      BY <1>3, <2>2, <2>3, <2>4, <2>5, <2>6, PollMoves DEF PollKept
  <1> QED
    BY <1>2, <1>3

\* A command whose process the listing could miss.
Banned(c) ==
    \/ cmd[c].at \in {"marked", "spawned", "running", "inserted", "failed"}
    \/ cmd[c].kind = "start" /\ (cmd[c].at = "committed" \/ cmd[c].mode = "tui")

BannedBefore(c) ==
    Banned(c)' => \/ Banned(c) /\ cmd'[c].session = cmd[c].session
                  \/ MarkStarting(c) /\ cmd'[c].session = cmd[c].session
                  \/ \E s \in Sessions, mode \in Modes :
                       StartSession(c, s, mode) /\ cmd'[c].session = s

LEMMA BannedStays ==
    ASSUME TypeOK, Kinds, Next, NEW d \in Commands
    PROVE  BannedBefore(d)
  <1>1. ASSUME NEW s \in Sessions, NEW mode \in Modes, StartSession(d, s, mode)
        PROVE  BannedBefore(d)
    <2>1. cmd'[d].session = s
      BY <1>1, TypeOK, BeginSteps DEF StartSession
    <2> QED
      BY <2>1, <1>1 DEF BannedBefore
  <1>2. ASSUME NEW s \in Sessions, ResumeSession(d, s) PROVE BannedBefore(d)
    BY <1>2, TypeOK, BeginSteps DEF ResumeSession, Kinds, KindFits, BannedBefore,
       Banned
  <1>3. ASSUME NEW s \in Sessions, SwitchMode(d, s) PROVE BannedBefore(d)
    BY <1>3, TypeOK, BeginSteps DEF SwitchMode, Kinds, KindFits, BannedBefore, Banned
  <1>4. ASSUME NEW s \in Sessions, ReturnToBacklog(d, s) PROVE BannedBefore(d)
    BY <1>4, TypeOK, BeginSteps DEF ReturnToBacklog, Kinds, KindFits, BannedBefore,
       Banned
  <1>5. ASSUME NEW s \in Sessions, CancelFindsDead(d, s) PROVE BannedBefore(d)
    BY <1>5, TypeOK, BeginSteps DEF CancelFindsDead, Kinds, KindFits, BannedBefore,
       Banned
  <1>6. ASSUME SwitchTimesOut(d) PROVE BannedBefore(d)
    BY <1>6, TypeOK, DoneSteps DEF SwitchTimesOut, Session, Kinds, KindFits,
       BannedBefore, Banned
  <1>7. ASSUME PersistMode(d) PROVE BannedBefore(d)
    <2>1. CASE row[Session(d)].deleted
      BY <2>1, <1>7, TypeOK, DoneSteps DEF PersistMode, Session, Steps, Steps, Kinds,
         KindFits, BannedBefore, Banned
    <2>2. CASE ~row[Session(d)].deleted
      BY <2>2, <1>7, TypeOK, GoSteps DEF PersistMode, Session, Steps, Steps, Kinds,
         KindFits, BannedBefore, Banned
    <2> QED
      BY <2>1, <2>2
  <1>8. ASSUME MarkStarting(d) PROVE BannedBefore(d)
    <2>1. cmd'[d].session = cmd[d].session
      BY <1>8, TypeOK, GoSteps DEF MarkStarting, Steps
    <2> QED
      BY <2>1, <1>8 DEF BannedBefore
  <1>9. ASSUME NEW p \in Processes, Spawn(d, p) PROVE BannedBefore(d)
    BY <1>9, TypeOK DEF Spawn, At, Session, Spawning, TypeOK, BannedBefore, Banned
  <1>10. ASSUME SpawnFails(d) PROVE BannedBefore(d)
    BY <1>10, TypeOK, GoSteps DEF SpawnFails, Spawning, At, Steps, Kinds, KindFits,
       BannedBefore, Banned
  <1>11. ASSUME ProviderFails(d) PROVE BannedBefore(d)
    BY <1>11, TypeOK, GoSteps DEF ProviderFails, At, Steps, Kinds, KindFits,
       BannedBefore, Banned
  <1>12. ASSUME ReadFails(d) PROVE BannedBefore(d)
    <2>1. CASE cmd[d].kind # "switch"
      BY <2>1, <1>12, TypeOK, DoneSteps DEF ReadFails, At, Steps, Steps, Kinds,
         KindFits, BannedBefore, Banned
    <2>2. CASE cmd[d].kind = "switch"
      BY <2>2, <1>12, TypeOK, GoSteps DEF ReadFails, At, Steps, Steps, Kinds, KindFits,
         BannedBefore, Banned
    <2> QED
      BY <2>1, <2>2
  <1>13. ASSUME MarkRunning(d) PROVE BannedBefore(d)
    <2>1. CASE row[Session(d)].deleted
      BY <2>1, <1>13, TypeOK, GoSteps DEF MarkRunning, At, Session, Steps, Steps,
         Kinds, KindFits, BannedBefore, Banned
    <2>2. CASE ~row[Session(d)].deleted
      BY <2>2, <1>13, TypeOK, GoSteps DEF MarkRunning, At, Session, Steps, Steps,
         Kinds, KindFits, BannedBefore, Banned
    <2> QED
      BY <2>1, <2>2
  <1>14. ASSUME RegisterHandle(d) PROVE BannedBefore(d)
    BY <1>14, TypeOK, GoSteps DEF RegisterHandle, At, Registering, Session, Steps,
       Kinds, KindFits, BannedBefore, Banned
  <1>15. ASSUME RegisterTerminal(d) PROVE BannedBefore(d)
    BY <1>15, TypeOK, GoSteps DEF RegisterTerminal, At, Registering, Session, Steps,
       Kinds, KindFits, BannedBefore, Banned
  <1>16. ASSUME TerminalRefused(d) PROVE BannedBefore(d)
    BY <1>16, TypeOK DEF TerminalRefused, At, Registering, Session, TypeOK,
       BannedBefore, Banned
  <1>17. ASSUME ClearMark(d) PROVE BannedBefore(d)
    BY <1>17, TypeOK, DoneSteps DEF ClearMark, At, Session, Kinds, KindFits,
       BannedBefore, Banned
  <1>18. ASSUME InputFails(d) PROVE BannedBefore(d)
    BY <1>18, TypeOK, GoSteps DEF InputFails, At, Session, Steps, Kinds, KindFits,
       BannedBefore, Banned
  <1>19. ASSUME Unmark(d) PROVE BannedBefore(d)
    BY <1>19, TypeOK, GoSteps DEF Unmark, At, Session, Steps, Kinds, KindFits,
       BannedBefore, Banned
  <1>20. ASSUME RollBack(d) PROVE BannedBefore(d)
    BY <1>20, TypeOK, DoneSteps DEF RollBack, At, Session, Kinds, KindFits,
       BannedBefore, Banned
  <1>21. ASSUME GiveUp(d) PROVE BannedBefore(d)
    <2>1. CASE cmd[d].kind # "switch"
      BY <2>1, <1>21, TypeOK, DoneSteps DEF GiveUp, At, Steps, Steps, Kinds, KindFits,
         BannedBefore, Banned
    <2>2. CASE cmd[d].kind = "switch"
      BY <2>2, <1>21, TypeOK, GoSteps DEF GiveUp, At, Steps, Steps, Kinds, KindFits,
         BannedBefore, Banned
    <2> QED
      BY <2>1, <2>2
  <1>22. ASSUME RestoreMode(d) PROVE BannedBefore(d)
    BY <1>22, TypeOK, DoneSteps DEF RestoreMode, Session, Kinds, KindFits,
       BannedBefore, Banned
  <1>23. ASSUME ShutDiscarded(d) PROVE BannedBefore(d)
    BY <1>23, TypeOK, DoneSteps DEF ShutDiscarded, Session, Shut, Kinds, KindFits,
       BannedBefore, Banned
  <1>24. ASSUME CancelUnregisters(d) PROVE BannedBefore(d)
    BY <1>24, TypeOK, DoneSteps DEF CancelUnregisters, Session, Kinds, KindFits,
       BannedBefore, Banned
  <1>acts. CASE Acts(d)
    BY <1>acts, <1>1, <1>2, <1>3, <1>4, <1>5, <1>6, <1>7, <1>8, <1>9, <1>10, <1>11, <1>12,
       <1>13, <1>14, <1>15, <1>16, <1>17, <1>18, <1>19, <1>20, <1>21, <1>22, <1>23, <1>24
       DEF Acts, Requests, Proceeds
  <1>restart. CASE Restart
    BY <1>restart DEF Restart, Idle, BannedBefore, Banned
  <1>unmoved. CASE ~Acts(d) /\ ~Restart
    BY <1>unmoved, Unmoved DEF BannedBefore, Banned
  <1> QED
    BY <1>acts, <1>restart, <1>unmoved

\* What the listing has found of the session it looks at still holds.
Looked ==
    Orderly =>
        /\ poll.at \in {"checked", "doomed"} => pty[poll.session] = 0
        /\ poll.at = "doomed" =>
             /\ handle[poll.session] = 0
             /\ \A c \in Commands : cmd[c].session = poll.session => ~Banned(c)

LEMMA LookedStep ==
    ASSUME TypeOK, Kinds, Marked, ListedFit, Looked, Next
    PROVE  Looked'
  <1> SUFFICES ASSUME Orderly'
               PROVE  /\ poll'.at \in {"checked", "doomed"} => pty'[poll'.session] = 0
                      /\ poll'.at = "doomed" =>
                           /\ handle'[poll'.session] = 0
                           /\ \A c \in Commands : cmd'[c].session = poll'.session => ~Banned(c)'
    BY DEF Looked
  <1> DEFINE G == /\ poll'.at \in {"checked", "doomed"} => pty'[poll'.session] = 0
                  /\ poll'.at = "doomed" =>
                       /\ handle'[poll'.session] = 0
                       /\ \A c \in Commands : cmd'[c].session = poll'.session => ~Banned(c)'
  <1>solo. Orderly /\ Solo /\ Solo' /\ "race" \notin odd'
    BY OrderlyBefore
  <1>types. poll.session \in Sessions
    BY TypeOK DEF TypeOK
  <1>1. CASE LookInRegistry /\ poll'.at = "doomed" /\ poll'.session = poll.session
    <2>1. /\ ~Contains(poll.session) /\ poll.at = "checked"
          /\ ~UnmarkedStart(poll.session)
          /\ UNCHANGED <<handle, pty, cmd>>
      <3>1. CASE Contains(poll.session)
        <4>1. poll' = Skip(poll.session)
          BY <1>1, <3>1 DEF LookInRegistry
        <4> QED
          BY <1>1, <4>1, TypeOK DEF Skip, TypeOK
      <3>2. CASE ~Contains(poll.session)
        BY <1>1, <3>2, <1>solo DEF LookInRegistry
      <3> QED
        BY <3>1, <3>2
    <2>2. ASSUME NEW c \in Commands, cmd[c].session = poll.session, Banned(c)
          PROVE  FALSE
      <3>1. cmd[c].at # "idle"
        BY <2>2 DEF Banned, Kinds, KindFits
      <3>2. CASE cmd[c].kind = "start" /\ (cmd[c].at = "committed" \/ cmd[c].mode = "tui")
        BY <2>1, <2>2, <3>1, <3>2 DEF UnmarkedStart, Busy
      <3>3. CASE ~(cmd[c].kind = "start" /\ (cmd[c].at = "committed" \/ cmd[c].mode = "tui"))
        BY <2>1, <2>2, <3>3, <1>solo DEF Marked, MarkedFor, Banned, Contains
      <3> QED
        BY <3>2, <3>3
    <2>3. pty[poll.session] = 0 /\ handle[poll.session] = 0
      BY <2>1, <1>solo DEF Looked, Contains
    <2> QED
      BY <1>1, <2>1, <2>2, <2>3 DEF Banned
  <1>2. CASE poll' = poll
    <2>1. ASSUME poll.at \in {"checked", "doomed"}
          PROVE  pty'[poll.session] = 0
      <3>1. ASSUME NEW c \in Commands, RegisterTerminal(c), cmd[c].session = poll.session
            PROVE  FALSE
        BY <2>1, <3>1, <1>solo DEF RegisterTerminal, RacesListing, Session
      <3>2. pty[poll.session] = 0
        BY <2>1, <1>solo DEF Looked
      <3> QED
        BY <3>1, <3>2, <1>types, TerminalOrigin
    <2>2. ASSUME poll.at = "doomed"
          PROVE  handle'[poll.session] = 0
      <3>1. ASSUME NEW c \in Commands, RegisterHandle(c), cmd[c].session = poll.session
            PROVE  FALSE
        BY <2>2, <3>1, <1>solo DEF RegisterHandle, Registering, At, Looked, Banned
      <3>2. handle[poll.session] = 0
        BY <2>2, <1>solo DEF Looked
      <3> QED
        BY <3>1, <3>2, <1>types, HandleOrigin
    <2>3. ASSUME poll.at = "doomed", NEW c \in Commands, cmd'[c].session = poll.session, Banned(c)'
          PROVE  FALSE
      <3>1. ~(Banned(c) /\ cmd[c].session = poll.session)
        BY <2>3, <1>solo DEF Looked
      <3>2. ~(MarkStarting(c) /\ cmd[c].session = poll.session)
        BY <2>3, <1>solo DEF MarkStarting, RacesListing, Session
      <3>3. ASSUME NEW s \in Sessions, NEW mode \in Modes, StartSession(c, s, mode), cmd'[c].session = s
            PROVE  FALSE
        BY <2>3, <3>3 DEF StartSession, ListedFit
      <3> QED
        BY <2>3, <3>1, <3>2, <3>3, BannedStays DEF BannedBefore
    <2> QED
      BY <1>2, <2>1, <2>2, <2>3
  <1>3. CASE poll.at = "scan" /\ poll'.at = "checked" /\ pty[poll'.session] = 0 /\ pty' = pty
    BY <1>3
  <1>4. CASE poll'.at \notin {"checked", "doomed"}
    BY <1>4
  <1>5. CASE ListRunning
    <2>1. poll'.at = "scan"
      BY <1>5, TypeOK DEF ListRunning, TypeOK
    <2> QED
      BY <2>1
  <1> QED
    BY <1>1, <1>2, <1>3, <1>4, <1>5, PollMoves DEF PollKept


(***************************************************************************)
(* Attended: the row of a live process runs.                               *)
(***************************************************************************)

\* From its commit on the row of a start runs; from mark_running on that of any
\* process that lives.
StartRuns(c) ==
    cmd[c].kind = "start" /\ cmd[c].at \in {"committed", "marked"} => Runs(cmd[c].session)

Started(c) == (cmd[c].kind = "start" /\ cmd[c].at = "spawned") \/ cmd[c].at = "running"

StartedRuns(c) == Started(c) /\ Alive(cmd[c].process) => Runs(cmd[c].session)

Discards(c, s) == cmd[c].at = "discarded" /\ cmd[c].session = s

ServedRuns(s) ==
    Alive(handle[s]) \/ Alive(pty[s]) => Runs(s) \/ \E c \in Commands : Discards(c, s)

Attended ==
    Orderly =>
        /\ \A c \in Commands : StartRuns(c) /\ StartedRuns(c)
        /\ \A s \in Sessions : ServedRuns(s)

\* Who ends the row of a session that has a command under way.
LEMMA EndsByItself ==
    ASSUME TypeOK, Alone, Next, Orderly', NEW t \in Sessions, Ends(t),
           NEW d \in Commands, cmd[d].at # "idle", cmd[d].session = t
    PROVE  \/ RollBack(d) \/ TerminalRefused(d) \/ InputFails(d)
           \/ \E p \in Processes : RecordExit(p) /\ process[p].of = t
           \/ StopLost /\ poll.session = t
  <1>solo. Orderly /\ Solo /\ Solo' /\ "race" \notin odd'
    BY OrderlyBefore
  <1>1. ASSUME NEW c \in Commands, ReturnToBacklog(c, t)
        PROVE  FALSE
    <2>1. Busy(t) = {}
      BY <1>1, <1>solo, TypeOK, BeginSteps DEF ReturnToBacklog, Solo
    <2> QED
      BY <2>1 DEF Busy
  <1>2. ASSUME NEW c \in Commands, RollBack(c) \/ TerminalRefused(c) \/ InputFails(c),
               cmd[c].session = t
        PROVE  c = d
    <2>1. cmd[c].at # "idle"
      BY <1>2 DEF RollBack, TerminalRefused, Registering, InputFails, At
    <2> QED
      BY <2>1, <1>2, <1>solo DEF Alone
  <1>3. ASSUME NEW c \in Commands, cmd[c].session = t, RollBack(c)
        PROVE  RollBack(d)
    BY <1>2, <1>3
  <1>4. ASSUME NEW c \in Commands, cmd[c].session = t, TerminalRefused(c)
        PROVE  TerminalRefused(d)
    BY <1>2, <1>4
  <1>5. ASSUME NEW c \in Commands, cmd[c].session = t, InputFails(c)
        PROVE  InputFails(d)
    BY <1>2, <1>5
  <1> QED
    BY <1>1, <1>3, <1>4, <1>5 DEF Ends

\* An end that is recorded while a later process lives is a race.
LEMMA LateExitRaces ==
    ASSUME TypeOK, ReapedIsDead, Latest, Next, Orderly', NEW t \in Sessions, Runs(t), ~Runs(t)',
           NEW p \in Processes, RecordExit(p), process[p].of = t,
           NEW q \in Processes, process[q].state = "alive", process[q].of = t,
           \/ q \in {handle[t], pty[t]}
           \/ \E c \in Commands : cmd[c].process = q /\ cmd[c].at \in {"running", "inserted"}
    PROVE  FALSE
  <1>solo. Orderly /\ Solo /\ Solo' /\ "race" \notin odd'
    BY OrderlyBefore
  <1>1. process[p].waiter = "reaped"
    BY DEF RecordExit
  <1>2. p # q
    BY <1>1 DEF ReapedIsDead
  <1>3. p < q
    BY <1>1, <1>2, <1>solo DEF Latest
  <1>4. Restarted(p)
    BY <1>3, LifecycleAssumption DEF Restarted, Processes
  <1>5. row' # row
    BY DEF Runs, Exists
  <1> QED
    BY <1>4, <1>5, <1>solo DEF RecordExit

LEMMA StartRunsStep ==
    ASSUME TypeOK, Kinds, Alone, Fresh, Looked, Attended, Next, Orderly', NEW d \in Commands
    PROVE  StartRuns(d)'
  <1> SUFFICES ASSUME cmd'[d].kind = "start", cmd'[d].at \in {"committed", "marked"}
               PROVE  \A t \in Sessions : t = cmd'[d].session => Runs(t)'
    <2>1. TypeOK'
      BY TypesStep
    <2>2. cmd'[d].session \in Sessions
      BY <2>1 DEF TypeOK
    <2> QED
      BY <2>2 DEF StartRuns, Runs, Exists
  <1>solo. Orderly /\ Solo /\ Solo' /\ "race" \notin odd'
    BY OrderlyBefore
  <1>1. ASSUME NEW s \in Sessions, NEW mode \in Modes, StartSession(d, s, mode)
        PROVE  cmd'[d].session = s /\ Runs(s)'
    BY <1>1, TypeOK, BeginSteps DEF StartSession, Runs, Exists, TypeOK
  <1>2. CASE ~\E s \in Sessions, mode \in Modes : StartSession(d, s, mode)
    <2>1. cmd[d].kind = "start" /\ cmd'[d].session = cmd[d].session
      BY <1>2, StartsGoOn
    <2>2. cmd[d].at \in {"committed", "marked"}
      BY <2>1, StartsBefore DEF StartBefore
    <2>3. PICK t \in Sessions : t = cmd[d].session
      BY TypeOK DEF TypeOK
    <2>4. Runs(t)
      BY <2>1, <2>2, <2>3, <1>solo DEF Attended, StartRuns
    <2>5. ~RollBack(d) /\ ~TerminalRefused(d) /\ ~InputFails(d)
      BY <2>2 DEF RollBack, TerminalRefused, Registering, InputFails, At
    <2>6. ASSUME NEW p \in Processes, RecordExit(p), process[p].of = t
          PROVE  FALSE
      BY <2>1, <2>2, <2>3, <2>6, <1>solo DEF Fresh, FreshFor, RecordExit
    <2>7. ~(StopLost /\ poll.session = t)
      BY <2>1, <2>2, <2>3, <1>solo DEF StopLost, Looked, Banned
    <2>8. ~Ends(t)
      BY <2>2, <2>3, <2>5, <2>6, <2>7, EndsByItself
    <2> QED
      BY <2>1, <2>3, <2>4, <2>8, RunsEnds
  <1> QED
    BY <1>1, <1>2

\* A process under way is spawned, then its row is marked running.
StartedBefore(c) ==
    Started(c)' => \/ Started(c) /\ cmd'[c].session = cmd[c].session
                      /\ cmd'[c].process = cmd[c].process
                      /\ cmd'[c].at = cmd[c].at /\ cmd'[c].kind = cmd[c].kind
                   \/ MarkRunning(c)
                   \/ \E p \in Processes : Spawn(c, p)

LEMMA StartedStays ==
    ASSUME TypeOK, Kinds, Next, NEW d \in Commands
    PROVE  StartedBefore(d)
  <1>1. ASSUME NEW s \in Sessions, NEW mode \in Modes, StartSession(d, s, mode)
        PROVE  StartedBefore(d)
    BY <1>1, TypeOK, BeginSteps DEF StartSession, Kinds, KindFits, StartedBefore,
       Started
  <1>2. ASSUME NEW s \in Sessions, ResumeSession(d, s) PROVE StartedBefore(d)
    BY <1>2, TypeOK, BeginSteps DEF ResumeSession, Kinds, KindFits, StartedBefore,
       Started
  <1>3. ASSUME NEW s \in Sessions, SwitchMode(d, s) PROVE StartedBefore(d)
    BY <1>3, TypeOK, BeginSteps DEF SwitchMode, Kinds, KindFits, StartedBefore,
       Started
  <1>4. ASSUME NEW s \in Sessions, ReturnToBacklog(d, s) PROVE StartedBefore(d)
    BY <1>4, TypeOK, BeginSteps DEF ReturnToBacklog, Kinds, KindFits, StartedBefore,
       Started
  <1>5. ASSUME NEW s \in Sessions, CancelFindsDead(d, s) PROVE StartedBefore(d)
    BY <1>5, TypeOK, BeginSteps DEF CancelFindsDead, Kinds, KindFits, StartedBefore,
       Started
  <1>6. ASSUME SwitchTimesOut(d) PROVE StartedBefore(d)
    BY <1>6, TypeOK, DoneSteps DEF SwitchTimesOut, Session, Kinds, KindFits,
       StartedBefore, Started
  <1>7. ASSUME PersistMode(d) PROVE StartedBefore(d)
    <2>1. CASE row[Session(d)].deleted
      BY <2>1, <1>7, TypeOK, DoneSteps DEF PersistMode, Session, Steps, Steps, Kinds,
         KindFits, StartedBefore, Started
    <2>2. CASE ~row[Session(d)].deleted
      BY <2>2, <1>7, TypeOK, GoSteps DEF PersistMode, Session, Steps, Steps, Kinds,
         KindFits, StartedBefore, Started
    <2> QED
      BY <2>1, <2>2
  <1>8. ASSUME MarkStarting(d) PROVE StartedBefore(d)
    BY <1>8, TypeOK, GoSteps DEF MarkStarting, At, Session, Steps, Kinds, KindFits,
       StartedBefore, Started
  <1>9. ASSUME NEW p \in Processes, Spawn(d, p) PROVE StartedBefore(d)
    BY <1>9 DEF StartedBefore
  <1>10. ASSUME SpawnFails(d) PROVE StartedBefore(d)
    BY <1>10, TypeOK, GoSteps DEF SpawnFails, Spawning, At, Steps, Kinds, KindFits,
       StartedBefore, Started
  <1>11. ASSUME ProviderFails(d) PROVE StartedBefore(d)
    BY <1>11, TypeOK, GoSteps DEF ProviderFails, At, Steps, Kinds, KindFits,
       StartedBefore, Started
  <1>12. ASSUME ReadFails(d) PROVE StartedBefore(d)
    <2>1. CASE cmd[d].kind # "switch"
      BY <2>1, <1>12, TypeOK, DoneSteps DEF ReadFails, At, Steps, Steps, Kinds,
         KindFits, StartedBefore, Started
    <2>2. CASE cmd[d].kind = "switch"
      BY <2>2, <1>12, TypeOK, GoSteps DEF ReadFails, At, Steps, Steps, Kinds, KindFits,
         StartedBefore, Started
    <2> QED
      BY <2>1, <2>2
  <1>13. ASSUME MarkRunning(d) PROVE StartedBefore(d)
    BY <1>13 DEF StartedBefore
  <1>14. ASSUME RegisterHandle(d) PROVE StartedBefore(d)
    BY <1>14, TypeOK, GoSteps DEF RegisterHandle, At, Registering, Session, Steps,
       Kinds, KindFits, StartedBefore, Started
  <1>15. ASSUME RegisterTerminal(d) PROVE StartedBefore(d)
    BY <1>15, TypeOK, GoSteps DEF RegisterTerminal, At, Registering, Session, Steps,
       Kinds, KindFits, StartedBefore, Started
  <1>16. ASSUME TerminalRefused(d) PROVE StartedBefore(d)
    BY <1>16, TypeOK DEF TerminalRefused, At, Registering, Session, TypeOK,
       StartedBefore, Started, Kinds, KindFits
  <1>17. ASSUME ClearMark(d) PROVE StartedBefore(d)
    BY <1>17, TypeOK, DoneSteps DEF ClearMark, At, Session, Kinds, KindFits,
       StartedBefore, Started
  <1>18. ASSUME InputFails(d) PROVE StartedBefore(d)
    BY <1>18, TypeOK, GoSteps DEF InputFails, At, Session, Steps, Kinds, KindFits,
       StartedBefore, Started
  <1>19. ASSUME Unmark(d) PROVE StartedBefore(d)
    BY <1>19, TypeOK, GoSteps DEF Unmark, At, Session, Steps, Kinds, KindFits,
       StartedBefore, Started
  <1>20. ASSUME RollBack(d) PROVE StartedBefore(d)
    BY <1>20, TypeOK, DoneSteps DEF RollBack, At, Session, Kinds, KindFits,
       StartedBefore, Started
  <1>21. ASSUME GiveUp(d) PROVE StartedBefore(d)
    <2>1. CASE cmd[d].kind # "switch"
      BY <2>1, <1>21, TypeOK, DoneSteps DEF GiveUp, At, Steps, Steps, Kinds, KindFits,
         StartedBefore, Started
    <2>2. CASE cmd[d].kind = "switch"
      BY <2>2, <1>21, TypeOK, GoSteps DEF GiveUp, At, Steps, Steps, Kinds, KindFits,
         StartedBefore, Started
    <2> QED
      BY <2>1, <2>2
  <1>22. ASSUME RestoreMode(d) PROVE StartedBefore(d)
    BY <1>22, TypeOK, DoneSteps DEF RestoreMode, Session, Kinds, KindFits,
       StartedBefore, Started
  <1>23. ASSUME ShutDiscarded(d) PROVE StartedBefore(d)
    BY <1>23, TypeOK, DoneSteps DEF ShutDiscarded, Session, Shut, Kinds, KindFits,
       StartedBefore, Started
  <1>24. ASSUME CancelUnregisters(d) PROVE StartedBefore(d)
    BY <1>24, TypeOK, DoneSteps DEF CancelUnregisters, Session, Kinds, KindFits,
       StartedBefore, Started
  <1>acts. CASE Acts(d)
    BY <1>acts, <1>1, <1>2, <1>3, <1>4, <1>5, <1>6, <1>7, <1>8, <1>9, <1>10, <1>11, <1>12,
       <1>13, <1>14, <1>15, <1>16, <1>17, <1>18, <1>19, <1>20, <1>21, <1>22, <1>23, <1>24
       DEF Acts, Requests, Proceeds
  <1>restart. CASE Restart
    BY <1>restart DEF Restart, Idle, StartedBefore, Started
  <1>unmoved. CASE ~Acts(d) /\ ~Restart
    BY <1>unmoved, Unmoved DEF StartedBefore, Started
  <1> QED
    BY <1>acts, <1>restart, <1>unmoved

LEMMA StartedRunsStep ==
    ASSUME TypeOK, Kinds, Alone, Registered, ReapedIsDead, Latest, Fresh, Looked, Attended,
           Next, Orderly', NEW d \in Commands
    PROVE  StartedRuns(d)'
  <1> SUFFICES ASSUME Started(d)', Alive(cmd[d].process)'
               PROVE  \A t \in Sessions : t = cmd'[d].session => Runs(t)'
    <2>1. TypeOK'
      BY TypesStep
    <2>2. cmd'[d].session \in Sessions
      BY <2>1 DEF TypeOK
    <2> QED
      BY <2>2 DEF StartedRuns, Runs, Exists
  <1>solo. Orderly /\ Solo /\ Solo' /\ "race" \notin odd'
    BY OrderlyBefore
  <1>0. PICK t \in Sessions : t = cmd[d].session
    BY TypeOK DEF TypeOK
  <1>1. ASSUME NEW p \in Processes, Spawn(d, p)
        PROVE  cmd'[d].session = t /\ Runs(t)'
    <2>1. /\ cmd'[d].at = "spawned" /\ cmd'[d].kind = cmd[d].kind
          /\ cmd'[d].session = cmd[d].session
      BY <1>1, TypeOK DEF Spawn, TypeOK
    <2>2. cmd[d].kind = "start" /\ cmd[d].at \in {"committed", "marked"}
      BY <1>1, <2>1 DEF Started, Spawn, Spawning, At
    <2>3. Runs(t)
      BY <1>0, <2>2, <1>solo DEF Attended, StartRuns
    <2> QED
      BY <1>0, <1>1, <2>1, <2>3 DEF Spawn, Runs, Exists
  <1>2. ASSUME MarkRunning(d)
        PROVE  cmd'[d].session = t /\ Runs(t)'
    <2>1. CASE row[Session(d)].deleted
      <3>1. cmd'[d].at = "failed"
        BY <1>2, <2>1, TypeOK, GoSteps DEF MarkRunning, Steps
      <3> QED
        BY <3>1 DEF Started
    <2>2. CASE ~row[Session(d)].deleted
      <3>1. cmd'[d].session = t /\ row' = [row EXCEPT ![t].status = "running"]
        BY <1>0, <1>2, <2>2, TypeOK, GoSteps DEF MarkRunning, Session, Steps
      <3>2. row'[t].status = "running" /\ row'[t].deleted = row[t].deleted
        BY <3>1, TypeOK DEF TypeOK
      <3> QED
        BY <1>0, <2>2, <3>1, <3>2 DEF Session, Runs, Exists
    <2> QED
      BY <2>1, <2>2
  <1>3. ASSUME Started(d), cmd'[d].session = cmd[d].session, cmd'[d].process = cmd[d].process,
               cmd'[d].at = cmd[d].at, cmd'[d].kind = cmd[d].kind
        PROVE  cmd'[d].session = t /\ Runs(t)'
    <2>0. PICK p \in Processes : p = cmd[d].process
      BY <1>3, NamesProcess, TypeOK DEF Alive, TypeOK
    <2>1. process[p].of = t /\ process[p].state # "unborn" /\ p # 0
      BY <1>0, <2>0, LifecycleAssumption DEF Registered, Processes
    <2>2. process'[p].state = "alive"
      BY <1>3, <2>0 DEF Alive
    <2>3. ~\E c \in Commands : Spawn(c, p)
      BY <2>1 DEF Spawn
    <2>4. process[p].state = "alive"
      BY <2>2, <2>3, ProcessStays
    <2>5. Runs(t)
      BY <1>0, <1>3, <2>0, <2>1, <2>4, <1>solo DEF Attended, StartedRuns, Alive
    <2>6. cmd[d].at \in {"spawned", "running"} /\ cmd'[d].at \in {"spawned", "running"}
      BY <1>3 DEF Started
    <2>7. ~RollBack(d) /\ ~TerminalRefused(d) /\ ~InputFails(d)
      <3>1. ~RollBack(d) /\ ~InputFails(d)
        BY <2>6 DEF RollBack, InputFails, At
      <3>2. ASSUME TerminalRefused(d) PROVE FALSE
        BY <3>2, <2>6, TypeOK DEF TerminalRefused, TypeOK
      <3> QED
        BY <3>1, <3>2
    <2>8. ASSUME ~Runs(t)', NEW q \in Processes, RecordExit(q), process[q].of = t
          PROVE  FALSE
      <3>1. CASE cmd[d].at = "running"
        BY <2>0, <2>1, <2>4, <2>5, <2>8, <3>1, LateExitRaces
      <3>2. CASE cmd[d].at # "running"
        BY <1>0, <1>3, <2>8, <3>2, <1>solo DEF Started, Fresh, FreshFor, RecordExit
      <3> QED
        BY <3>1, <3>2
    <2>9. ~(StopLost /\ poll.session = t)
      BY <1>0, <2>6, <1>solo DEF StopLost, Looked, Banned
    <2> QED
      BY <1>0, <1>3, <2>5, <2>6, <2>7, <2>8, <2>9, RunsEnds, EndsByItself
  <1>4. cmd'[d].session = t /\ Runs(t)'
    BY <1>1, <1>2, <1>3, StartedStays DEF StartedBefore
  <1> QED
    BY <1>4


\* A discarded session is shut next.
DiscardsStill(c, t) ==
    Discards(c, t) => Discards(c, t)' \/ ShutDiscarded(c) \/ Restart

LEMMA DiscardsStays ==
    ASSUME TypeOK, Kinds, Next, NEW d \in Commands, NEW t \in Sessions
    PROVE  DiscardsStill(d, t)
  <1>1. ASSUME NEW s \in Sessions, NEW mode \in Modes, StartSession(d, s, mode)
        PROVE  DiscardsStill(d, t)
    BY <1>1, TypeOK, BeginSteps DEF StartSession, DiscardsStill, Discards
  <1>2. ASSUME NEW s \in Sessions, ResumeSession(d, s) PROVE DiscardsStill(d, t)
    BY <1>2, TypeOK, BeginSteps DEF ResumeSession, DiscardsStill, Discards
  <1>3. ASSUME NEW s \in Sessions, SwitchMode(d, s) PROVE DiscardsStill(d, t)
    BY <1>3, TypeOK, BeginSteps DEF SwitchMode, DiscardsStill, Discards
  <1>4. ASSUME NEW s \in Sessions, ReturnToBacklog(d, s) PROVE DiscardsStill(d, t)
    BY <1>4, TypeOK, BeginSteps DEF ReturnToBacklog, DiscardsStill, Discards
  <1>5. ASSUME NEW s \in Sessions, CancelFindsDead(d, s) PROVE DiscardsStill(d, t)
    BY <1>5, TypeOK, BeginSteps DEF CancelFindsDead, DiscardsStill, Discards
  <1>6. ASSUME SwitchTimesOut(d) PROVE DiscardsStill(d, t)
    BY <1>6, TypeOK, DoneSteps DEF SwitchTimesOut, Session, DiscardsStill, Discards
  <1>7. ASSUME PersistMode(d) PROVE DiscardsStill(d, t)
    <2>1. CASE row[Session(d)].deleted
      BY <2>1, <1>7, TypeOK, DoneSteps DEF PersistMode, Session, Steps, Steps,
         DiscardsStill, Discards
    <2>2. CASE ~row[Session(d)].deleted
      BY <2>2, <1>7, TypeOK, GoSteps DEF PersistMode, Session, Steps, Steps,
         DiscardsStill, Discards
    <2> QED
      BY <2>1, <2>2
  <1>8. ASSUME MarkStarting(d) PROVE DiscardsStill(d, t)
    BY <1>8, TypeOK, GoSteps DEF MarkStarting, At, Session, Steps, DiscardsStill,
       Discards
  <1>9. ASSUME NEW p \in Processes, Spawn(d, p) PROVE DiscardsStill(d, t)
    BY <1>9, TypeOK DEF Spawn, At, Session, Spawning, DiscardsStill, Discards
  <1>10. ASSUME SpawnFails(d) PROVE DiscardsStill(d, t)
    BY <1>10, TypeOK, GoSteps DEF SpawnFails, Spawning, At, Steps, DiscardsStill,
       Discards
  <1>11. ASSUME ProviderFails(d) PROVE DiscardsStill(d, t)
    BY <1>11, TypeOK, GoSteps DEF ProviderFails, At, Steps, DiscardsStill, Discards
  <1>12. ASSUME ReadFails(d) PROVE DiscardsStill(d, t)
    <2>1. CASE cmd[d].kind # "switch"
      BY <2>1, <1>12, TypeOK, DoneSteps DEF ReadFails, At, Steps, Steps, DiscardsStill,
         Discards
    <2>2. CASE cmd[d].kind = "switch"
      BY <2>2, <1>12, TypeOK, GoSteps DEF ReadFails, At, Steps, Steps, DiscardsStill,
         Discards
    <2> QED
      BY <2>1, <2>2
  <1>13. ASSUME MarkRunning(d) PROVE DiscardsStill(d, t)
    <2>1. CASE row[Session(d)].deleted
      BY <2>1, <1>13, TypeOK, GoSteps DEF MarkRunning, At, Session, Steps, Steps,
         DiscardsStill, Discards
    <2>2. CASE ~row[Session(d)].deleted
      BY <2>2, <1>13, TypeOK, GoSteps DEF MarkRunning, At, Session, Steps, Steps,
         DiscardsStill, Discards
    <2> QED
      BY <2>1, <2>2
  <1>14. ASSUME RegisterHandle(d) PROVE DiscardsStill(d, t)
    BY <1>14, TypeOK, GoSteps DEF RegisterHandle, At, Registering, Session, Steps,
       DiscardsStill, Discards
  <1>15. ASSUME RegisterTerminal(d) PROVE DiscardsStill(d, t)
    BY <1>15, TypeOK, GoSteps DEF RegisterTerminal, At, Registering, Session, Steps,
       DiscardsStill, Discards
  <1>16. ASSUME TerminalRefused(d) PROVE DiscardsStill(d, t)
    BY <1>16, TypeOK DEF TerminalRefused, At, Registering, Session, DiscardsStill,
       Discards
  <1>17. ASSUME ClearMark(d) PROVE DiscardsStill(d, t)
    BY <1>17, TypeOK, DoneSteps DEF ClearMark, At, Session, DiscardsStill, Discards
  <1>18. ASSUME InputFails(d) PROVE DiscardsStill(d, t)
    BY <1>18, TypeOK, GoSteps DEF InputFails, At, Session, Steps, DiscardsStill,
       Discards
  <1>19. ASSUME Unmark(d) PROVE DiscardsStill(d, t)
    BY <1>19, TypeOK, GoSteps DEF Unmark, At, Session, Steps, DiscardsStill, Discards
  <1>20. ASSUME RollBack(d) PROVE DiscardsStill(d, t)
    BY <1>20, TypeOK, DoneSteps DEF RollBack, At, Session, DiscardsStill, Discards
  <1>21. ASSUME GiveUp(d) PROVE DiscardsStill(d, t)
    <2>1. CASE cmd[d].kind # "switch"
      BY <2>1, <1>21, TypeOK, DoneSteps DEF GiveUp, At, Steps, Steps, DiscardsStill,
         Discards
    <2>2. CASE cmd[d].kind = "switch"
      BY <2>2, <1>21, TypeOK, GoSteps DEF GiveUp, At, Steps, Steps, DiscardsStill,
         Discards
    <2> QED
      BY <2>1, <2>2
  <1>22. ASSUME RestoreMode(d) PROVE DiscardsStill(d, t)
    BY <1>22, TypeOK, DoneSteps DEF RestoreMode, Session, DiscardsStill, Discards
  <1>23. ASSUME ShutDiscarded(d) PROVE DiscardsStill(d, t)
    BY <1>23 DEF DiscardsStill
  <1>24. ASSUME CancelUnregisters(d) PROVE DiscardsStill(d, t)
    BY <1>24, TypeOK, DoneSteps DEF CancelUnregisters, Session, DiscardsStill, Discards
  <1>acts. CASE Acts(d)
    BY <1>acts, <1>1, <1>2, <1>3, <1>4, <1>5, <1>6, <1>7, <1>8, <1>9, <1>10, <1>11, <1>12,
       <1>13, <1>14, <1>15, <1>16, <1>17, <1>18, <1>19, <1>20, <1>21, <1>22, <1>23, <1>24
       DEF Acts, Requests, Proceeds
  <1>restart. CASE Restart
    BY <1>restart DEF DiscardsStill
  <1>unmoved. CASE ~Acts(d) /\ ~Restart
    BY <1>unmoved, Unmoved DEF DiscardsStill, Discards
  <1> QED
    BY <1>acts, <1>restart, <1>unmoved

LEMMA ServedRunsStep ==
    ASSUME TypeOK, Kinds, Alone, Registered, Quiet, Unhandled, ReapedIsDead, Latest, Looked,
           Attended, Next, Orderly', NEW t \in Sessions
    PROVE  ServedRuns(t)'
  <1> DEFINE G == Runs(t)' \/ \E c \in Commands : Discards(c, t)'
  <1>solo. Orderly /\ Solo /\ Solo' /\ "race" \notin odd'
    BY OrderlyBefore
  <1>tables. /\ handle[t] \in 0..MaxProcesses /\ pty[t] \in 0..MaxProcesses
             /\ \A c \in Commands : cmd[c].process \in 0..MaxProcesses
    BY TypeOK DEF TypeOK
  <1>registers. ASSUME NEW c \in Commands, RegisterHandle(c) \/ RegisterTerminal(c),
                       cmd[c].session = t, cmd[c].process # 0,
                       process'[cmd[c].process].state = "alive"
                PROVE  Runs(t)'
    <2>0. PICK p \in Processes : p = cmd[c].process
      BY <1>registers, <1>tables, NamesProcess
    <2>1. process[p].state # "unborn" /\ p # 0
      BY <1>registers, <2>0 DEF Registered
    <2>2. ~\E e \in Commands : Spawn(e, p)
      BY <2>1 DEF Spawn
    <2>3. process[p].state = "alive"
      BY <1>registers, <2>0, <2>2, ProcessStays
    <2>4. Started(c)
      BY <1>registers DEF RegisterHandle, RegisterTerminal, Registering, At, Started
    <2>5. Runs(t)
      BY <1>registers, <2>0, <2>1, <2>3, <2>4, <1>solo DEF Attended, StartedRuns, Alive
    <2> QED
      BY <1>registers, <2>5 DEF RegisterHandle, RegisterTerminal, Runs, Exists
  <1>stays. ASSUME NEW r \in Processes, r \in {handle[t], pty[t]}, r # 0,
                   process'[r].state = "alive"
            PROVE  G
    <2>1. process[r].of = t /\ process[r].state # "unborn"
      BY <1>stays DEF Registered
    <2>2. ~\E c \in Commands : Spawn(c, r)
      BY <2>1 DEF Spawn
    <2>3. process[r].state = "alive"
      BY <1>stays, <2>2, ProcessStays
    <2>4. Runs(t) \/ \E c \in Commands : Discards(c, t)
      BY <1>stays, <2>3, <1>solo DEF Attended, ServedRuns, Alive
    <2>5. ASSUME NEW c \in Commands, Discards(c, t)
          PROVE  G
      <3>1. CASE Discards(c, t)'
        BY <3>1
      <3>2. CASE ShutDiscarded(c)
        <4>1. process' = Killed({handle[t], pty[t]})
          BY <2>5, <3>2 DEF ShutDiscarded, Shut, Discards, Session
        <4>2. r \notin {handle[t], pty[t]}
          BY <4>1, <1>stays, Spared
        <4> QED
          BY <4>2, <1>stays
      <3>3. CASE Restart
        BY <3>3, <1>stays, TypeOK DEF Restart, TypeOK
      <3> QED
        BY <2>5, <3>1, <3>2, <3>3, DiscardsStays DEF DiscardsStill
    <2>6. ASSUME Runs(t), ~Runs(t)'
          PROVE  G
      <3>1. ASSUME NEW c \in Commands, RollBack(c), cmd[c].session = t
            PROVE  FALSE
        <4>1. r = cmd[c].process
          BY <2>1, <2>3, <3>1, <1>solo DEF RollBack, At, Quiet, QuietFor
        <4>2. process' = Killed({cmd[c].process})
          BY <3>1 DEF RollBack
        <4> QED
          BY <4>1, <4>2, <1>stays, Spared
      <3>2. ASSUME NEW c \in Commands, ReturnToBacklog(c, t)
            PROVE  Discards(c, t)'
        BY <3>2, TypeOK, BeginSteps DEF ReturnToBacklog, Discards
      <3>3. ASSUME NEW c \in Commands, TerminalRefused(c), cmd[c].session = t
            PROVE  FALSE
        <4>1. r = cmd[c].process
          BY <2>1, <2>3, <3>3, <1>solo DEF TerminalRefused, Registering, At, Quiet, QuietFor
        <4>2. process' = Killed({cmd[c].process})
          BY <3>3 DEF TerminalRefused
        <4> QED
          BY <4>1, <4>2, <1>stays, Spared
      <3>4. ASSUME NEW c \in Commands, InputFails(c), cmd[c].session = t
            PROVE  FALSE
        <4>1. handle[t] = 0
          BY <3>4, <1>solo DEF InputFails, At, Unhandled, UnhandledFor
        <4>2. process' = Killed({pty[t]})
          BY <3>4 DEF InputFails, Session
        <4>3. r \notin {pty[t]}
          BY <4>2, <1>stays, Spared
        <4> QED
          BY <4>1, <4>3, <1>stays
      <3>5. ASSUME NEW p \in Processes, RecordExit(p), process[p].of = t
            PROVE  FALSE
        BY <2>1, <2>3, <2>6, <3>5, <1>stays, LateExitRaces
      <3>6. ~(StopLost /\ poll.session = t)
        BY <1>stays, <1>solo DEF StopLost, Looked
      <3>7. Ends(t)
        BY <2>6, RunsEnds
      <3> QED
        BY <3>1, <3>2, <3>3, <3>4, <3>5, <3>6, <3>7 DEF Ends
    <2> QED
      BY <2>4, <2>5, <2>6
  <1>1. ASSUME handle'[t] # 0, process'[handle'[t]].state = "alive"
        PROVE  G
    <2>1. CASE handle'[t] = handle[t]
      BY <1>1, <2>1, <1>stays, <1>tables, NamesProcess
    <2>2. CASE \E c \in Commands : RegisterHandle(c) /\ cmd[c].session = t
      <3>1. PICK c \in Commands : RegisterHandle(c) /\ cmd[c].session = t
        BY <2>2
      <3>2. handle'[t] = cmd[c].process
        BY <3>1, TypeOK DEF RegisterHandle, Session, TypeOK
      <3> QED
        BY <1>1, <3>1, <3>2, <1>registers
    <2> QED
      BY <1>1, <2>1, <2>2, HandleOrigin
  <1>2. ASSUME pty'[t] # 0, process'[pty'[t]].state = "alive"
        PROVE  G
    <2>1. CASE pty'[t] = pty[t]
      BY <1>2, <2>1, <1>stays, <1>tables, NamesProcess
    <2>2. CASE \E c \in Commands : RegisterTerminal(c) /\ cmd[c].session = t
      <3>1. PICK c \in Commands : RegisterTerminal(c) /\ cmd[c].session = t
        BY <2>2
      <3>2. pty'[t] = cmd[c].process
        BY <3>1, TypeOK DEF RegisterTerminal, Session, TypeOK
      <3> QED
        BY <1>2, <3>1, <3>2, <1>registers
    <2> QED
      BY <1>2, <2>1, <2>2, TerminalOrigin
  <1>3. ServedRuns(t)' <=>
          ((\/ handle'[t] # 0 /\ process'[handle'[t]].state = "alive"
            \/ pty'[t] # 0 /\ process'[pty'[t]].state = "alive") => G)
    BY DEF ServedRuns, Alive
  <1> QED
    BY <1>1, <1>2, <1>3

LEMMA AttendedStep ==
    ASSUME TypeOK, Kinds, Alone, Registered, Quiet, Unhandled, ReapedIsDead, Latest, Fresh,
           Looked, Attended, Next
    PROVE  Attended'
  BY StartRunsStep, StartedRunsStep, ServedRunsStep DEF Attended


(***************************************************************************)
(* The theorems.                                                           *)
(***************************************************************************)

\* What every reachable state satisfies: it holds of the first state and every
\* step keeps it.
Inductive ==
    /\ TypeOK /\ Kinds /\ Marks /\ Alone /\ RowsFit /\ OneSession
    /\ Registered /\ Owned /\ Quiet /\ OneWriter
    /\ Unhandled /\ BornInOrder /\ ReapedIsDead /\ Latest /\ Fresh
    /\ Marked /\ ListedFit /\ Looked /\ Attended

LEMMA InductiveHolds == Spec => []Inductive
  <1>1. Init => Inductive
    <2> SUFFICES ASSUME Init PROVE Inductive
      OBVIOUS
    <2>1. TypeOK
      BY LifecycleAssumption, SomeSessionTyped DEF Init, TypeOK, Idle, NotListing, Steps, Modes
    <2>2. Kinds /\ Marks /\ Alone
      BY DEF Init, Kinds, KindFits, Marks, Alone, Idle
    <2>3. RowsFit /\ OneSession
      BY DEF Init, RowsFit, OneSession, Exists, Idle
    <2>4. Registered
      BY DEF Init, Registered, Idle
    <2>5. Owned /\ Quiet /\ OneWriter
      BY DEF Init, Owned, Quiet, QuietFor, OneWriter, Alive
    <2>6. Unhandled /\ Fresh /\ Marked
      BY DEF Init, Unhandled, UnhandledFor, Fresh, FreshFor, Marked, MarkedFor, Idle
    <2>7. BornInOrder /\ ReapedIsDead /\ Latest
      BY DEF Init, BornInOrder, ReapedIsDead, Latest
    <2>8. ListedFit /\ Looked
      BY DEF Init, ListedFit, Looked, NotListing
    <2>9. Attended
      BY DEF Init, Attended, StartRuns, StartedRuns, Started, ServedRuns, Alive, Idle
    <2> QED
      BY <2>1, <2>2, <2>3, <2>4, <2>5, <2>6, <2>7, <2>8, <2>9 DEF Inductive
  <1>2. Inductive /\ [Next]_vars => Inductive'
    <2> SUFFICES ASSUME Inductive, [Next]_vars PROVE Inductive'
      OBVIOUS
    <2>1. CASE Next
      BY <2>1, TypesStep, KindsStep, MarksStep, AloneStep, RowsFitStep, OneSessionStep,
         RegisteredStep, OwnedStep, QuietStep, OneWriterStep, UnhandledStep, BornInOrderStep,
         ReapedIsDeadStep, LatestStep, FreshStep, MarkedStep, ListedFitStep, LookedStep,
         AttendedStep DEF Inductive
    <2>2. CASE UNCHANGED vars
      <3>1. TypeOK' /\ Kinds' /\ Marks' /\ Alone'
        BY <2>2 DEF vars, Inductive, TypeOK, Kinds, KindFits, Marks, MarkedBy, Alone, Solo
      <3>2. RowsFit' /\ OneSession' /\ Registered'
        BY <2>2 DEF vars, Inductive, RowsFit, OneSession, Exists, Registered, Solo
      <3>3. Owned' /\ Quiet' /\ OneWriter'
        BY <2>2 DEF vars, Inductive, Owned, OwnedBy, Quiet, QuietFor, OneWriter, Alive, Solo
      <3>4. Unhandled' /\ Fresh' /\ Marked'
        BY <2>2 DEF vars, Inductive, Unhandled, UnhandledFor, Fresh, FreshFor, Marked, MarkedFor,
           Solo, Orderly
      <3>5. BornInOrder' /\ ReapedIsDead' /\ Latest'
        BY <2>2 DEF vars, Inductive, BornInOrder, ReapedIsDead, Latest, Solo
      <3>6. ListedFit' /\ Looked'
        BY <2>2 DEF vars, Inductive, ListedFit, Looked, Banned, Orderly
      <3>7. Attended'
        BY <2>2 DEF vars, Inductive, Attended, StartRuns, StartedRuns, Started, ServedRuns,
           Discards, Alive, Runs, Exists, Orderly
      <3> QED
        BY <3>1, <3>2, <3>3, <3>4, <3>5, <3>6, <3>7 DEF Inductive
    <2> QED
      BY <2>1, <2>2
  <1> QED
    BY <1>1, <1>2, PTL DEF Spec

\* A starting mark belongs to a command under way (session_registry.rs), but
\* for the errors that are named.
THEOREM MarksAreReleased == Spec => []MarksReleased
  <1>1. Inductive => MarksReleased
    BY DEF Inductive, Marks, MarkedBy, MarksReleased, Busy
  <1> QED
    BY <1>1, InductiveHolds, PTL

\* The issue is in the backlog exactly when it has no session.
THEOREM IssueFollows == Spec => []IssueFollowsSession
  <1>1. Inductive => IssueFollowsSession
    BY DEF Inductive, OneSession, Solo, IssueFollowsSession
  <1> QED
    BY <1>1, InductiveHolds, PTL

\* No session has two live processes, unless commands of it overlap.
THEOREM WriterIsOne == Spec => []OneWriter
  <1>1. Inductive => OneWriter
    BY DEF Inductive
  <1> QED
    BY <1>1, InductiveHolds, PTL

\* In an orderly project a process that serves a session serves a row that
\* runs: the listing calls no session lost that works.
THEOREM LiveIsNotLost == Spec => []OrderlyLiveNotLost
  <1>1. Inductive => OrderlyLiveNotLost
    BY DEF Inductive, Attended, ServedRuns, Discards, OrderlyLiveNotLost, LiveNotLost, Busy
  <1> QED
    BY <1>1, InductiveHolds, PTL

==============================================================================
