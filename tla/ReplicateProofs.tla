---------------------------- MODULE ReplicateProofs ----------------------------
(***************************************************************************)
(* What holds of the replicate pipeline for every WAL, every capacity,     *)
(* every fan-out, with or without a PostgreSQL target, and any number of   *)
(* failures: first the target, then the sinks, then what one process       *)
(* applies.                                                                *)
(***************************************************************************)
EXTENDS Replicate, TLAPS

-----------------------------------------------------------------------------
(* Types *)

\* Every component of a position of the WAL has its type.
LEMMA WalTypes ==
    /\ Len(Wal) \in Nat
    /\ Positions = 1 .. Len(Wal)
    /\ \A p \in 1 .. Len(Wal) : Final(p) \in Nat /\ Lsn(p) \in Nat
  <1>1. Wal \in Seq(WalMessage)
    BY WalAssumption
  <1>2. \A p \in 1 .. Len(Wal) : Wal[p] \in WalMessage
    BY <1>1
  <1> QED
    BY <1>1, <1>2 DEF WalMessage, Positions, Final, Lsn

\* The initial state is well typed.
LEMMA InitTypeOK == Init => TypeOK
  BY WalTypes, ConstantsAssumption DEF Init, TypeOK

\* A position lies within the WAL.
LEMMA PositionRange == \A p \in Positions : p \in 0 .. Len(Wal)
  BY WalTypes

\* Max of two naturals is a natural and an upper bound.
LEMMA MaxNat ==
    \A a, b \in Nat : Max(a, b) \in Nat /\ Max(a, b) >= a /\ Max(a, b) >= b
  BY DEF Max

\* The end of a session keeps types.
LEMMA ExitSessionType ==
    ASSUME TypeOK, ExitSession, UNCHANGED <<base, sunk>>, 
           buffer' \in Seq(Positions), targetUp' \in BOOLEAN,
           target' \in Seq(Seq(Positions)), faults' \in 0 .. MaxFaults
    PROVE  TypeOK'
  BY ConstantsAssumption DEF NextResume, TypeOK, ExitSession, Detached, Stages

\* The end of the process keeps types.
LEMMA ExitProcessType ==
    ASSUME TypeOK, ExitProcess, resume' \in Nat,
           outcome' \in {"none", "Reconnect", "ReconnectAfterHealthy", "Shutdown"},
           faults' \in 0 .. MaxFaults
    PROVE  TypeOK'
  BY ConstantsAssumption DEF TypeOK, ExitProcess, Dropped, Detached

\* A fault counted within its bound.
LEMMA FaultType == ASSUME TypeOK, Fault PROVE faults' \in 0 .. MaxFaults
  BY ConstantsAssumption DEF TypeOK, Fault

\* The head and the tail of a typed channel.
LEMMA HeadTail ==
    ASSUME TypeOK, chan # <<>>
    PROVE  /\ Head(chan) \in Event
           /\ Head(chan) = chan[1]
           /\ Tail(chan) \in Seq(Event)
           /\ Len(chan) \in Nat \ {0}
           /\ Len(Tail(chan)) = Len(chan) - 1
           /\ \A j \in 1 .. Len(chan) - 1 : Tail(chan)[j] = chan[j + 1]
  BY DEF TypeOK

\* Every handler that stays in the loop keeps types.
LEMMA ContinueType ==
    ASSUME TypeOK, chan # <<>>, Continue, UNCHANGED base,
           progress' \in Nat, seen' \in 0 .. Len(Wal), buffer' \in Seq(Positions),
           targetUp' \in BOOLEAN, target' \in Seq(Seq(Positions)),
           sunk' \subseteq Positions \X Sinks, faults' \in 0 .. MaxFaults
    PROVE  TypeOK'
  BY HeadTail, ConstantsAssumption DEF TypeOK, Continue, serverVars

\* Emitting a boundary keeps types.
LEMMA EmitBoundaryType ==
    ASSUME TypeOK, NEW p \in Positions, EmitBoundary(p)
    PROVE  progress' \in Nat /\ sunk' \subseteq Positions \X Sinks /\ faults' \in 0 .. MaxFaults
  BY WalTypes, MaxNat, FaultType
     DEF TypeOK, EmitBoundary, SendOk, SendErr, update_applied

\* The slot's position is an LSN.
LEMMA SlotPositionType == TypeOK => SlotPosition \in Nat
  BY WalTypes, ConstantsAssumption DEF TypeOK, SlotPosition

\* Every step keeps types.
LEMMA NextTypeOK == TypeOK /\ [Next]_vars => TypeOK'
  <1> SUFFICES ASSUME TypeOK, [Next]_vars PROVE TypeOK'
    OBVIOUS
  <1>1. CASE SourceCommit
    BY <1>1, WalTypes DEF SourceCommit, TypeOK, workerVars, sessionVars, outputVars
  <1>2. CASE ReleaseSlot
    BY <1>2 DEF ReleaseSlot, TypeOK, workerVars, sessionVars, outputVars
  <1>3. CASE StartReplication
    BY <1>3, SlotPositionType, WalTypes DEF StartReplication, TypeOK, outputVars
  <1>4. CASE SlotInUse
    BY <1>4 DEF SlotInUse, TypeOK, serverVars, sessionVars, outputVars
  <1>5. CASE ConnectionLost
    BY <1>5, FaultType DEF ConnectionLost, TypeOK, sessionVars, outputVars
  <1>6. CASE ReceiveWal
    <2> DEFINE e == [type |-> "wal", at |-> next + 1, lsn |-> Lsn(next + 1)]
    <2>1. e \in Event
      BY <1>6, WalTypes DEF Room, ReceiveWal, Event, TypeOK
    <2>2. chan' \in Seq(Event) /\ Len(chan') <= BufferEvents
      BY <1>6, <2>1, ConstantsAssumption DEF Room, ReceiveWal, TypeOK
    <2> QED
      BY <1>6, <2>2, WalTypes DEF Room, ReceiveWal, TypeOK, sessionVars, outputVars
  <1>7. CASE ReceiveKeepAlive
    <2>1. PICK lsn \in KeepAliveLsns :
            chan' = Append(chan, [type |-> "keepalive", at |-> next, lsn |-> lsn])
      BY <1>7 DEF ReceiveKeepAlive
    <2> DEFINE e == [type |-> "keepalive", at |-> next, lsn |-> lsn]
    <2>2. e \in Event
      BY ConstantsAssumption DEF Event, TypeOK
    <2>3. chan' \in Seq(Event) /\ Len(chan') <= BufferEvents
      BY <1>7, <2>1, <2>2, ConstantsAssumption DEF Room, ReceiveKeepAlive, TypeOK
    <2>4. confirmed' \in Nat
      BY <1>7, MaxNat DEF ReceiveKeepAlive, Confirm, TypeOK
    <2> QED
      BY <1>7, <2>3, <2>4 DEF ReceiveKeepAlive, TypeOK, sessionVars, outputVars
  <1>8. CASE SendFeedback
    BY <1>8, MaxNat DEF SendFeedback, Confirm, TypeOK, workerVars, sessionVars, outputVars
  <1>9. ASSUME NEW d \in detached, DetachedStart(d) PROVE TypeOK'
    <2>1. [d EXCEPT !.stage = "streaming"] \in Detached
      BY DEF TypeOK, Detached, Stages
    <2> QED
      BY <1>9, <2>1, SlotPositionType DEF DetachedStart, TypeOK, sessionVars, outputVars
  <1>10. ASSUME NEW d \in detached, DetachedFeedback(d) PROVE TypeOK'
    BY <1>10, MaxNat DEF DetachedFeedback, Confirm, Detached, TypeOK, workerVars,
                         sessionVars, outputVars
  <1>11. ASSUME NEW d \in detached, DetachedStop(d) PROVE TypeOK'
    BY <1>11 DEF DetachedStop, TypeOK, sessionVars, outputVars
  <1>12. CASE HandleKeepAlive
    <2>1. progress' \in Nat /\ seen' \in 0 .. Len(Wal)
      BY <1>12, HeadTail, MaxNat DEF HandleKeepAlive, Recv, update_applied, TypeOK, Event
    <2> QED
      BY <1>12, <2>1, ContinueType DEF HandleKeepAlive, Recv, TypeOK, outputVars
  <1>13. CASE HandleBegin
    <2>1. PICK p \in Positions : /\ RecvWal(p, "begin") /\ handle_begin /\ EmitBoundary(p)
                                 /\ seen' = p /\ Continue
                                 /\ UNCHANGED <<targetUp, target, base>>
      BY <1>13 DEF HandleBegin
    <2>2. buffer' \in Seq(Positions)
      BY <2>1 DEF handle_begin, TypeOK
    <2> QED
      BY <2>1, <2>2, ContinueType, PositionRange, EmitBoundaryType DEF RecvWal, Recv, TypeOK
  <1>14. CASE HandleCommit
    <2>1. PICK p \in Positions : /\ RecvWal(p, "commit") /\ ApplyBuffer /\ EmitBoundary(p)
                                 /\ seen' = p /\ Continue
      BY <1>14 DEF HandleCommit
    <2>2. /\ buffer' \in Seq(Positions) /\ target' \in Seq(Seq(Positions))
          /\ targetUp' \in BOOLEAN /\ UNCHANGED base
      <3>1. Append(target, buffer) \in Seq(Seq(Positions))
        BY DEF TypeOK
      <3> QED
        <4>1. buffer' \in Seq(Positions)
          BY <2>1 DEF ApplyBuffer
        <4>2. target' \in Seq(Seq(Positions))
          BY <2>1, <3>1 DEF ApplyBuffer, TypeOK
        <4>3. targetUp' \in BOOLEAN /\ UNCHANGED base
          BY <2>1 DEF ApplyBuffer, TypeOK
        <4> QED
          BY <4>1, <4>2, <4>3
    <2> QED
      BY <2>1, <2>2, ContinueType, PositionRange, EmitBoundaryType DEF RecvWal, Recv
  <1>15. CASE CommitFails
    <2>1. /\ buffer' \in Seq(Positions) /\ target' \in Seq(Seq(Positions))
          /\ targetUp' \in BOOLEAN /\ faults' \in 0 .. MaxFaults
      <3>1. Append(target, buffer) \in Seq(Seq(Positions))
        BY DEF TypeOK
      <3>2. /\ buffer' = <<>>
            /\ target' = target \/ target' = Append(target, buffer)
            /\ targetUp' = targetUp \/ targetUp' = FALSE
            /\ UNCHANGED faults \/ Fault
        BY <1>15 DEF CommitFails
      <3> QED
        <4>1. buffer' \in Seq(Positions)
          BY <3>2
        <4>2. target' \in Seq(Seq(Positions))
          BY <3>1, <3>2 DEF TypeOK
        <4>3. targetUp' \in BOOLEAN
          BY <3>2 DEF TypeOK
        <4>4. faults' \in 0 .. MaxFaults
          BY <3>2, FaultType DEF TypeOK
        <4> QED
          BY <4>1, <4>2, <4>3, <4>4
    <2> QED
      BY <1>15, <2>1, ExitSessionType DEF CommitFails
  <1>16. CASE HandleForwarded
    <2>1. PICK p \in Positions :
            /\ RecvWal(p, "change") /\ handle_event(p)
            /\ \/ SendOk(p) /\ AdvanceUnlessApplier(p)
               \/ SendErr(p) /\ UNCHANGED progress
            /\ seen' = p /\ Continue /\ UNCHANGED <<targetUp, target, base>>
      BY <1>16 DEF HandleForwarded
    <2>2. buffer' \in Seq(Positions)
      BY <2>1 DEF handle_event, TypeOK
    <2>3. progress' \in Nat /\ sunk' \subseteq Positions \X Sinks /\ faults' \in 0 .. MaxFaults
      BY <2>1, WalTypes, MaxNat, FaultType
         DEF SendOk, SendErr, AdvanceUnlessApplier, update_applied, TypeOK
    <2> QED
      BY <2>1, <2>2, <2>3, ContinueType, PositionRange DEF RecvWal, Recv, TypeOK
  <1>17. CASE HandleNotForwarded
    <2>1. PICK p \in Positions :
            /\ RecvWal(p, "change")
            /\ AdvanceUnlessApplier(p) \/ update_applied(Lsn(p)) \/ UNCHANGED progress
            /\ seen' = p /\ Continue /\ UNCHANGED <<outputVars, faults>>
      BY <1>17 DEF HandleNotForwarded
    <2>2. progress' \in Nat
      BY <2>1, WalTypes, MaxNat DEF AdvanceUnlessApplier, update_applied, TypeOK
    <2> QED
      BY <2>1, <2>2, ContinueType, PositionRange DEF RecvWal, Recv, TypeOK, outputVars
  <1>18. CASE StartSession
    BY <1>18 DEF StartSession, TypeOK, serverVars, outputVars
  <1>19. CASE RecvError
    BY <1>19, ExitSessionType DEF RecvError, TypeOK, outputVars
  <1>20. CASE IdleTimeout
    BY <1>20, ExitSessionType, FaultType DEF IdleTimeout, TypeOK, outputVars
  <1>21. CASE Shutdown
    BY <1>21, ExitProcessType, FaultType DEF NextResume, Shutdown, TypeOK
  <1>22. CASE Crash
    BY <1>22, ExitProcessType, FaultType DEF Crash, TypeOK
  <1>23. CASE Restart
    BY <1>23, ConstantsAssumption DEF Restart, TypeOK, serverVars
  <1>24. CASE TargetLost
    BY <1>24, FaultType DEF TargetLost, TypeOK, serverVars, workerVars, sessionVars
  <1>25. CASE UNCHANGED vars
    BY <1>25 DEF vars, serverVars, workerVars, sessionVars, outputVars, TypeOK
  <1> QED
    BY <1>1, <1>2, <1>3, <1>4, <1>5, <1>6, <1>7, <1>8, <1>9, <1>10, <1>11, <1>12,
       <1>13, <1>14, <1>15, <1>16, <1>17, <1>18, <1>19, <1>20, <1>21, <1>22, <1>23,
       <1>24, <1>25 DEF Next, Server, Worker, Handle, Process

\* Type correctness of the pipeline.
THEOREM TypeCorrect == Spec => []TypeOK
  BY InitTypeOK, NextTypeOK, PTL DEF Spec

-----------------------------------------------------------------------------
(* The channel *)

\* A WAL event at the head of the channel is the next position.
LEMMA HeadIsNext ==
    ASSUME TypeOK, ChannelContiguous, NEW type, Recv(type)
    PROVE  /\ type = "wal" => Head(chan).at = seen + 1
           /\ type = "keepalive" =>
                /\ Head(chan).at = seen
                /\ \A p \in Positions : p > seen => Head(chan).lsn <= Final(p)
  <1>1. chan # <<>> /\ Head(chan) = chan[1] /\ 1 \in 1 .. Len(chan) /\ Head(chan).type = type
    BY HeadTail DEF Recv
  <1>2. IF chan[1].type = "wal"
        THEN chan[1].at = seen + 1
        ELSE /\ chan[1].at = seen
             /\ \A p \in Positions : p > seen => chan[1].lsn <= Final(p)
    BY <1>1 DEF ChannelContiguous
  <1> QED
    BY <1>1, <1>2

\* Taking the head keeps the channel contiguous.
LEMMA TakeHead ==
    ASSUME TypeOK, ChannelContiguous, phase = "running", chan # <<>>, Continue,
           seen' = Head(chan).at
    PROVE  ChannelContiguous'
  <1>1. /\ chan' = Tail(chan) /\ next' = next /\ worker' = worker /\ phase' = phase
    BY DEF Continue, serverVars
  <1>2. /\ Len(chan) \in Nat \ {0}
        /\ Len(chan') = Len(chan) - 1
        /\ \A j \in 1 .. Len(chan') : chan'[j] = chan[j + 1]
        /\ seen' = chan[1].at
    BY <1>1, HeadTail
  <1>3. ASSUME NEW j \in 1 .. Len(chan')
        PROVE  LET before == IF j = 1 THEN seen' ELSE chan'[j - 1].at IN
               IF chan'[j].type = "wal"
               THEN chan'[j].at = before + 1
               ELSE /\ chan'[j].at = before
                    /\ \A p \in Positions : p > before => chan'[j].lsn <= Final(p)
    <2>1. j + 1 \in 1 .. Len(chan) /\ chan'[j] = chan[j + 1]
      BY <1>2
    <2>2. (IF j = 1 THEN seen' ELSE chan'[j - 1].at) = chan[j].at
      BY <1>2
    <2>3. LET before == chan[j].at IN
          IF chan[j + 1].type = "wal"
          THEN chan[j + 1].at = before + 1
          ELSE /\ chan[j + 1].at = before
               /\ \A p \in Positions : p > before => chan[j + 1].lsn <= Final(p)
      BY <2>1 DEF ChannelContiguous
    <2> QED
      BY <2>1, <2>2, <2>3
  <1>4. next' = IF chan' = <<>> THEN seen' ELSE chan'[Len(chan')].at
    <2>1. next = chan[Len(chan)].at
      BY DEF ChannelContiguous
    <2>2. CASE Len(chan) = 1
      <3>1. chan' \in Seq(Event) /\ Len(chan') = 0
        BY <1>1, <1>2, <2>2, HeadTail
      <3>2. chan' = <<>> /\ chan[Len(chan)].at = seen'
        BY <1>2, <2>2, <3>1
      <3> QED
        BY <1>1, <2>1, <3>2
    <2>3. CASE Len(chan) # 1
      <3>1. Len(chan') \in 1 .. Len(chan') /\ chan' # <<>>
        BY <1>2, <2>3
      <3>2. chan'[Len(chan')] = chan[Len(chan)]
        BY <1>2, <3>1
      <3> QED
        BY <1>1, <2>1, <3>1, <3>2
    <2> QED
      BY <2>2, <2>3
  <1>5. /\ phase' # "running" => worker' = "none"
        /\ worker' \in {"none", "starting"} => chan' = <<>>
    BY <1>1 DEF ChannelContiguous
  <1> QED
    BY <1>3, <1>4, <1>5 DEF ChannelContiguous

\* Adding the event the server sends next keeps the channel contiguous.
LEMMA AddLast ==
    ASSUME TypeOK, ChannelContiguous, NEW e \in Event, chan' = Append(chan, e),
           UNCHANGED <<seen, phase, worker>>, worker = "streaming",
           next' = e.at,
           IF e.type = "wal" THEN e.at = next + 1
           ELSE /\ e.at = next
                /\ \A p \in Positions : p > next => e.lsn <= Final(p)
    PROVE  ChannelContiguous'
  <1>1. /\ chan \in Seq(Event)
        /\ Len(chan) \in Nat
        /\ Len(chan') = Len(chan) + 1
        /\ chan' # <<>>
        /\ \A j \in 1 .. Len(chan) : chan'[j] = chan[j]
        /\ chan'[Len(chan) + 1] = e
    <2>1. chan \in Seq(Event)
      BY DEF TypeOK
    <2>2. Len(chan') = Len(chan) + 1
      BY <2>1
    <2> QED
      BY <2>1, <2>2
  <1>2. ASSUME NEW j \in 1 .. Len(chan')
        PROVE  LET before == IF j = 1 THEN seen' ELSE chan'[j - 1].at IN
               IF chan'[j].type = "wal"
               THEN chan'[j].at = before + 1
               ELSE /\ chan'[j].at = before
                    /\ \A p \in Positions : p > before => chan'[j].lsn <= Final(p)
    <2>1. CASE j \in 1 .. Len(chan)
      <3>1. (IF j = 1 THEN seen' ELSE chan'[j - 1].at)
            = (IF j = 1 THEN seen ELSE chan[j - 1].at)
        BY <1>1, <2>1
      <3> QED
        BY <1>1, <2>1, <3>1 DEF ChannelContiguous
    <2>2. CASE j = Len(chan) + 1
      <3>1. (IF j = 1 THEN seen' ELSE chan'[j - 1].at) = next
        <4>1. CASE Len(chan) = 0
          BY <2>2, <4>1, <1>1 DEF ChannelContiguous
        <4>2. CASE Len(chan) # 0
          <5>1. chan # <<>> /\ j - 1 = Len(chan) /\ Len(chan) \in 1 .. Len(chan)
            BY <1>1, <2>2, <4>2
          <5> QED
            BY <1>1, <5>1 DEF ChannelContiguous
        <4> QED
          BY <4>1, <4>2
      <3> QED
        BY <1>1, <2>2, <3>1
    <2> QED
      BY <1>1, <2>1, <2>2
  <1> QED
    BY <1>1, <1>2 DEF ChannelContiguous

\* An empty channel is contiguous.
LEMMA EmptyChannel ==
    ASSUME chan' = <<>>, next' = seen', phase' # "running" => worker' = "none"
    PROVE  ChannelContiguous'
  BY DEF ChannelContiguous

\* Steps that leave the channel and both its ends alone.
LEMMA ChannelFrame ==
    ASSUME ChannelContiguous, UNCHANGED <<chan, next, seen>>,
           phase' # "running" => worker' = "none",
           worker' \in {"none", "starting"} => chan = <<>>
    PROVE  ChannelContiguous'
  BY DEF ChannelContiguous

\* Every step keeps the channel contiguous.
LEMMA NextChannel == TypeOK /\ ChannelContiguous /\ [Next]_vars => ChannelContiguous'
  <1> SUFFICES ASSUME TypeOK, ChannelContiguous, [Next]_vars PROVE ChannelContiguous'
    OBVIOUS
  <1>a. /\ phase # "running" => worker = "none"
        /\ worker \in {"none", "starting"} => chan = <<>>
    BY DEF ChannelContiguous
  <1>b. chan = <<>> => next = seen
    BY DEF ChannelContiguous
  <1>1. CASE Server
    BY <1>1, <1>a, ChannelFrame
       DEF Server, SourceCommit, ReleaseSlot, workerVars, sessionVars
  <1>2. CASE StartReplication
    BY <1>2, <1>a, EmptyChannel DEF StartReplication
  <1>3. CASE SlotInUse
    BY <1>3, <1>a, ChannelFrame DEF SlotInUse, serverVars, sessionVars
  <1>4. CASE ConnectionLost
    BY <1>4, <1>a, ChannelFrame DEF ConnectionLost, Stages, sessionVars
  <1>5. CASE ReceiveWal
    <2> DEFINE e == [type |-> "wal", at |-> next + 1, lsn |-> Lsn(next + 1)]
    <2>1. e \in Event
      BY <1>5, WalTypes DEF Room, ReceiveWal, Event, TypeOK
    <2> QED
      BY <1>5, <2>1, AddLast DEF Room, ReceiveWal, sessionVars
  <1>6. CASE ReceiveKeepAlive
    <2>1. PICK lsn \in KeepAliveLsns :
            /\ \A p \in next + 1 .. Len(Wal) : lsn <= Final(p)
            /\ chan' = Append(chan, [type |-> "keepalive", at |-> next, lsn |-> lsn])
      BY <1>6 DEF ReceiveKeepAlive
    <2> DEFINE e == [type |-> "keepalive", at |-> next, lsn |-> lsn]
    <2>2. e \in Event
      BY ConstantsAssumption DEF Event, TypeOK
    <2>3. \A p \in Positions : p > next => e.lsn <= Final(p)
      BY <2>1, WalTypes DEF TypeOK
    <2> QED
      BY <1>6, <2>1, <2>2, <2>3, AddLast DEF ReceiveKeepAlive, sessionVars
  <1>7. CASE SendFeedback
    BY <1>7, <1>a, ChannelFrame DEF SendFeedback, workerVars, sessionVars
  <1>8. ASSUME NEW d \in detached,
               DetachedStart(d) \/ DetachedFeedback(d) \/ DetachedStop(d)
        PROVE  ChannelContiguous'
    BY <1>8, <1>a, ChannelFrame
       DEF DetachedStart, DetachedFeedback, DetachedStop, workerVars, sessionVars
  <1>9. CASE HandleKeepAlive
    BY <1>9, TakeHead DEF HandleKeepAlive, Recv
  <1>10. CASE HandleBegin
    BY <1>10, TakeHead DEF HandleBegin, RecvWal, Recv
  <1>11. CASE HandleForwarded
    BY <1>11, TakeHead DEF HandleForwarded, RecvWal, Recv
  <1>12. CASE HandleNotForwarded
    BY <1>12, TakeHead DEF HandleNotForwarded, RecvWal, Recv
  <1>13. CASE HandleCommit
    BY <1>13, TakeHead DEF HandleCommit, RecvWal, Recv
  <1>14. CASE CommitFails \/ RecvError \/ IdleTimeout
    BY <1>14, EmptyChannel DEF CommitFails, RecvError, IdleTimeout, ExitSession
  <1>15. CASE Shutdown \/ Crash
    BY <1>15, EmptyChannel DEF Shutdown, Crash, ExitProcess
  <1>16. CASE StartSession
    BY <1>16, <1>a, ChannelFrame DEF StartSession, serverVars
  <1>17. CASE Restart \/ TargetLost
    BY <1>17, <1>a, ChannelFrame
       DEF Restart, TargetLost, serverVars, workerVars, sessionVars
  <1>18. CASE UNCHANGED vars
    BY <1>18, <1>a, ChannelFrame DEF vars, serverVars, workerVars, sessionVars
  <1> QED
    BY <1>1, <1>2, <1>3, <1>4, <1>5, <1>6, <1>7, <1>8, <1>9, <1>10, <1>11, <1>12,
       <1>13, <1>14, <1>15, <1>16, <1>17, <1>18 DEF Next, Worker, Handle, Process

-----------------------------------------------------------------------------
(* The applier's buffer *)

\* Commit records separate transactions.
LEMMA CommitSeparates ==
    ASSUME NEW p \in Positions, NEW q \in Positions, p < q, Type(p) = "commit"
    PROVE  Final(p) < Final(q)
  BY WalAssumption, WalTypes

\* A Begin starts a new transaction.
LEMMA BeginIsNew ==
    ASSUME NEW p \in Positions, NEW q \in Positions, q < p, Type(p) = "begin"
    PROVE  Final(q) < Final(p)
  <1>1. p - 1 \in Positions /\ q <= p - 1
    BY WalTypes
  <1>2. Type(p - 1) = "commit"
    <2>1. (p - 1) + 1 = p
      BY WalTypes
    <2> QED
      BY <1>1, <2>1, WalAssumption
  <1>3. Final(p - 1) < Final(p)
    BY <1>1, <1>2, CommitSeparates, WalTypes
  <1>4. Final(q) <= Final(p - 1)
    <2>1. CASE q = p - 1
      BY <1>1, <2>1, WalTypes
    <2>2. CASE q < p - 1
      BY <1>1, <2>2, WalAssumption
    <2> QED
      BY <1>1, <2>1, <2>2, WalTypes
  <1> QED
    BY <1>1, <1>3, <1>4, WalTypes

\* A change or a commit is received in the middle of its transaction.
LEMMA InsideTransaction ==
    ASSUME TypeOK, ChannelContiguous, NEW p \in Positions, NEW type \in {"change", "commit"},
           RecvWal(p, type)
    PROVE  /\ seen \in Positions /\ p = seen + 1
           /\ Type(seen) # "commit"
           /\ Type(p) = type
           /\ Final(p) = Final(seen)
  <1>1. p = seen + 1 /\ Type(p) = type /\ Type(p) # "begin"
    BY HeadIsNext DEF RecvWal
  <1>2. p # 1
    BY <1>1, WalAssumption
  <1>3. seen \in Positions
    BY <1>1, <1>2, WalTypes DEF TypeOK
  <1> QED
    BY <1>1, <1>3, WalAssumption

\* A Begin is received as the next position.
LEMMA AtBegin ==
    ASSUME TypeOK, ChannelContiguous, NEW p \in Positions, RecvWal(p, "begin")
    PROVE  p = seen + 1 /\ Type(p) = "begin"
  BY HeadIsNext DEF RecvWal

\* At the commit the buffer, if anything, is the whole transaction.
LEMMA BufferWhole ==
    ASSUME TypeOK, ChannelContiguous, BufferCurrent, NEW p \in Positions,
           RecvWal(p, "commit"), HasApplier
    PROVE  /\ InOrder(buffer)
           /\ {buffer[k] : k \in DOMAIN buffer} = RowsOf(Final(seen))
           /\ seen \in Positions
  <1>1. /\ seen \in Positions /\ p = seen + 1 /\ Type(seen) # "commit"
        /\ Type(p) = "commit" /\ Final(p) = Final(seen)
    BY InsideTransaction
  <1>2. seen # 0
    BY <1>1, WalTypes
  <1>3. \A q \in RowsOf(Final(seen)) : q <= seen
    <2> SUFFICES ASSUME NEW q \in Positions, HasStatement(q), Final(q) = Final(seen), q > seen
                 PROVE  FALSE
      BY WalTypes DEF RowsOf, TypeOK
    <2>1. q # p
      BY <1>1 DEF HasStatement
    <2>2. p < q
      BY <1>1, <2>1, WalTypes
    <2> QED
      BY <1>1, <2>2, CommitSeparates, WalTypes
  <1> QED
    BY <1>1, <1>2, <1>3 DEF BufferCurrent

\* Every step keeps the buffer in step with what the session has seen.
LEMMA NextBuffer ==
    TypeOK /\ ChannelContiguous /\ BufferCurrent /\ [Next]_vars => BufferCurrent'
  <1> SUFFICES ASSUME TypeOK, ChannelContiguous, BufferCurrent, [Next]_vars
               PROVE  BufferCurrent'
    OBVIOUS
  <1>a. ASSUME UNCHANGED <<seen, buffer>> PROVE BufferCurrent'
    BY <1>a DEF BufferCurrent
  <1>b. ASSUME seen' = 0, ~HasApplier => buffer' = <<>> PROVE BufferCurrent'
    BY <1>b DEF BufferCurrent
  <1>c. ~HasApplier => buffer = <<>>
    BY DEF BufferCurrent
  <1>1. CASE Server
    BY <1>1, <1>a DEF Server, SourceCommit, ReleaseSlot, sessionVars, outputVars
  <1>2. CASE StartReplication
    <2>1. PICK p \in 0 .. Len(Wal) : StreamsFrom(Max(start, SlotPosition), p) /\ seen' = p
      BY <1>2 DEF StartReplication
    <2>2. ASSUME p # 0, Type(p) # "commit" PROVE FALSE
      <3>1. p \in Positions
        BY <2>2, WalTypes
      <3>2. p + 1 \in Positions /\ Final(p + 1) = Final(p)
        BY <2>2, <3>1, WalAssumption
      <3>3. p \in 1 .. p /\ p + 1 \in p + 1 .. Len(Wal)
        BY <3>1, <3>2, WalTypes
      <3>4. Final(p) < Max(start, SlotPosition) /\ Final(p + 1) >= Max(start, SlotPosition)
        BY <2>1, <3>3 DEF StreamsFrom
      <3>5. Max(start, SlotPosition) \in Nat /\ Final(p) \in Nat
        BY <3>1, MaxNat, SlotPositionType, WalTypes DEF TypeOK
      <3> QED
        BY <3>2, <3>4, <3>5
    <2> QED
      BY <1>2, <2>1, <2>2, <1>c DEF StartReplication, outputVars, BufferCurrent
  <1>3. CASE SlotInUse \/ ConnectionLost \/ ReceiveWal \/ ReceiveKeepAlive \/ SendFeedback
    BY <1>3, <1>a DEF SlotInUse, ConnectionLost, ReceiveWal, ReceiveKeepAlive,
                      SendFeedback, sessionVars, outputVars
  <1>4. ASSUME NEW d \in detached,
               DetachedStart(d) \/ DetachedFeedback(d) \/ DetachedStop(d)
        PROVE  BufferCurrent'
    BY <1>4, <1>a DEF DetachedStart, DetachedFeedback, DetachedStop, sessionVars, outputVars
  <1>5. CASE HandleKeepAlive
    <2>1. seen' = seen
      BY <1>5, HeadIsNext DEF HandleKeepAlive
    <2> QED
      BY <1>5, <2>1, <1>a DEF HandleKeepAlive, outputVars
  <1>6. CASE HandleBegin
    <2>1. PICK p \in Positions : RecvWal(p, "begin") /\ handle_begin /\ seen' = p
      BY <1>6 DEF HandleBegin
    <2>2. p = seen + 1 /\ Type(p) = "begin"
      BY <2>1, AtBegin
    <2>3. {q \in RowsOf(Final(p)) : q <= p} = {}
      <3> SUFFICES ASSUME NEW q \in Positions, HasStatement(q), Final(q) = Final(p), q <= p
                   PROVE  FALSE
        BY DEF RowsOf
      <3>1. q # p
        BY <2>2 DEF HasStatement
      <3>2. q < p
        BY <3>1, WalTypes
      <3> QED
        BY <2>2, <3>2, BeginIsNew, WalTypes
    <2>4. HasApplier => buffer' = <<>>
      BY <2>1 DEF handle_begin
    <2>5. ~HasApplier => buffer' = <<>>
      BY <2>1, <1>c DEF handle_begin
    <2> QED
      BY <2>1, <2>3, <2>4, <2>5 DEF BufferCurrent, InOrder
  <1>7. CASE HandleForwarded
    <2>1. PICK p \in Positions : RecvWal(p, "change") /\ handle_event(p) /\ seen' = p
      BY <1>7 DEF HandleForwarded
    <2>2. /\ seen \in Positions /\ p = seen + 1 /\ Type(seen) # "commit"
          /\ Type(p) = "change" /\ Final(p) = Final(seen)
      BY <2>1, InsideTransaction
    <2>3. CASE ~HasApplier
      BY <2>1, <2>3, <1>c DEF handle_event, BufferCurrent
    <2>4. CASE HasApplier
      <3>1. /\ InOrder(buffer)
            /\ {buffer[k] : k \in DOMAIN buffer} = {q \in RowsOf(Final(p)) : q <= seen}
        BY <2>2, <2>4, WalTypes DEF BufferCurrent
      <3>2. CASE HasStatement(p)
        <4>1. buffer' = Append(buffer, p)
          BY <2>1, <2>4, <3>2 DEF handle_event
        <4>2. /\ Len(buffer) \in Nat
              /\ DOMAIN buffer = 1 .. Len(buffer)
              /\ DOMAIN buffer' = 1 .. Len(buffer) + 1
              /\ \A k \in 1 .. Len(buffer) : buffer'[k] = buffer[k]
              /\ buffer'[Len(buffer) + 1] = p
          <5>1. buffer \in Seq(Positions)
            BY DEF TypeOK
          <5> QED
            BY <4>1, <5>1
        <4>3. \A k \in 1 .. Len(buffer) : buffer[k] <= seen
          BY <3>1, <4>2
        <4>4. InOrder(buffer')
          <5> SUFFICES ASSUME NEW i \in 1 .. Len(buffer) + 1, NEW k \in 1 .. Len(buffer) + 1,
                              i < k
                       PROVE  buffer'[i] < buffer'[k]
            BY <4>2 DEF InOrder
          <5>1. i \in 1 .. Len(buffer) /\ buffer'[i] = buffer[i]
            BY <4>2
          <5>2. CASE k = Len(buffer) + 1
            <6>1. buffer[i] \in Positions
              BY <4>2, <5>1 DEF TypeOK
            <6> QED
              BY <2>2, <4>2, <4>3, <5>1, <5>2, <6>1, WalTypes
          <5>3. CASE k # Len(buffer) + 1
            <6>1. k \in 1 .. Len(buffer)
              BY <4>2, <5>3
            <6> QED
              BY <3>1, <4>2, <5>1, <6>1 DEF InOrder
          <5> QED
            BY <5>2, <5>3
        <4>5. {buffer'[k] : k \in DOMAIN buffer'} = {buffer[k] : k \in DOMAIN buffer} \cup {p}
          BY <4>2
        <4>6. {q \in RowsOf(Final(p)) : q <= p} = {q \in RowsOf(Final(p)) : q <= seen} \cup {p}
          BY <2>2, <3>2, WalTypes DEF RowsOf
        <4> QED
          BY <2>1, <2>4, <3>1, <4>4, <4>5, <4>6 DEF BufferCurrent
      <3>3. CASE ~HasStatement(p)
        <4>1. buffer' = buffer
          BY <2>1, <3>3 DEF handle_event
        <4>2. {q \in RowsOf(Final(p)) : q <= p} = {q \in RowsOf(Final(p)) : q <= seen}
          BY <2>2, <3>3, WalTypes DEF RowsOf
        <4> QED
          BY <2>1, <2>4, <3>1, <4>1, <4>2 DEF BufferCurrent
      <3> QED
        BY <3>2, <3>3
    <2> QED
      BY <2>3, <2>4
  <1>8. CASE HandleNotForwarded
    <2>1. PICK p \in Positions : /\ RecvWal(p, "change") /\ seen' = p /\ buffer' = buffer
                                 /\ Kind(p) \in {"skip", "meta", "bad"}
      BY <1>8 DEF HandleNotForwarded, outputVars
    <2>2. /\ seen \in Positions /\ p = seen + 1 /\ Type(seen) # "commit"
          /\ Type(p) = "change" /\ Final(p) = Final(seen)
      BY <2>1, InsideTransaction
    <2>3. {q \in RowsOf(Final(p)) : q <= p} = {q \in RowsOf(Final(p)) : q <= seen}
      BY <2>1, <2>2, WalTypes DEF RowsOf, HasStatement
    <2> QED
      BY <2>1, <2>2, <2>3, WalTypes DEF BufferCurrent
  <1>9. CASE HandleCommit
    <2>1. PICK p \in Positions : RecvWal(p, "commit") /\ buffer' = <<>> /\ seen' = p
      BY <1>9 DEF HandleCommit, ApplyBuffer
    <2> QED
      BY <2>1, InsideTransaction DEF BufferCurrent
  <1>10. CASE CommitFails \/ RecvError \/ IdleTimeout
    BY <1>10, <1>b, <1>c DEF CommitFails, RecvError, IdleTimeout, ExitSession, outputVars
  <1>11. CASE Shutdown \/ Crash
    BY <1>11, <1>b DEF Shutdown, Crash, ExitProcess
  <1>12. CASE StartSession \/ Restart \/ TargetLost
    BY <1>12, <1>a DEF StartSession, Restart, TargetLost, sessionVars, outputVars
  <1>13. CASE UNCHANGED vars
    BY <1>13, <1>a DEF vars, sessionVars, outputVars
  <1> QED
    BY <1>1, <1>2, <1>3, <1>4, <1>5, <1>6, <1>7, <1>8, <1>9, <1>10, <1>11, <1>12,
       <1>13 DEF Next, Worker, Handle, Process

-----------------------------------------------------------------------------
(* The target *)

\* What the buffer becomes on the target.
LEMMA TargetGrows ==
    ASSUME TypeOK, target' = Append(target, buffer)
    PROVE  /\ DOMAIN target' = DOMAIN target \cup {Len(target) + 1}
           /\ \A j \in DOMAIN target : target'[j] = target[j]
           /\ target'[Len(target) + 1] = buffer
  <1>1. target \in Seq(Seq(Positions))
    BY DEF TypeOK
  <1> QED
    BY <1>1

\* Only a Commit changes the target, and only by the buffer.
LEMMA TargetChanges ==
    ASSUME [Next]_vars, target' # target
    PROVE  /\ target' = Append(target, buffer)
           /\ buffer # <<>>
           /\ \E p \in Positions : RecvWal(p, "commit")
  <1>1. CASE HandleCommit
    BY <1>1 DEF HandleCommit, ApplyBuffer
  <1>2. CASE CommitFails
    BY <1>2 DEF CommitFails
  <1>3. CASE HandleBegin \/ HandleForwarded
    BY <1>3 DEF HandleBegin, HandleForwarded
  <1>4. CASE HandleKeepAlive \/ HandleNotForwarded
    BY <1>4 DEF HandleKeepAlive, HandleNotForwarded, outputVars
  <1>5. CASE Server
    BY <1>5 DEF Server, SourceCommit, ReleaseSlot, outputVars
  <1>6. CASE Worker
    BY <1>6 DEF Worker, StartReplication, SlotInUse, ConnectionLost, ReceiveWal,
                ReceiveKeepAlive, SendFeedback, DetachedStart, DetachedFeedback,
                DetachedStop, outputVars
  <1>7. CASE Process
    BY <1>7 DEF Process, StartSession, RecvError, IdleTimeout, Shutdown, Crash,
                Restart, TargetLost, ExitProcess, outputVars
  <1>8. CASE UNCHANGED vars
    BY <1>8 DEF vars, outputVars
  <1> QED
    BY <1>1, <1>2, <1>3, <1>4, <1>5, <1>6, <1>7, <1>8 DEF Next, Handle

\* Every target transaction stays one whole source transaction.
LEMMA NextAtomic ==
    TypeOK /\ ChannelContiguous /\ BufferCurrent /\ TargetAtomic /\ [Next]_vars
    => TargetAtomic'
  <1> SUFFICES ASSUME TypeOK, ChannelContiguous, BufferCurrent, TargetAtomic, [Next]_vars
               PROVE  TargetAtomic'
    OBVIOUS
  <1>1. CASE target' = target
    BY <1>1 DEF TargetAtomic
  <1>2. CASE target' # target
    <2>1. PICK p \in Positions : RecvWal(p, "commit")
      BY <1>2, TargetChanges
    <2>2. target' = Append(target, buffer) /\ buffer # <<>>
      BY <1>2, TargetChanges
    <2>3. HasApplier
      BY <2>2 DEF BufferCurrent
    <2>4. /\ InOrder(buffer)
          /\ {buffer[k] : k \in DOMAIN buffer} = RowsOf(Final(seen))
          /\ seen \in Positions
      BY <2>1, <2>3, BufferWhole
    <2>5. ASSUME NEW j \in DOMAIN target'
          PROVE  /\ InOrder(target'[j])
                 /\ \E c \in Positions :
                      {target'[j][k] : k \in DOMAIN target'[j]} = RowsOf(Final(c))
      <3>1. CASE j \in DOMAIN target
        <4>1. target'[j] = target[j]
          BY <2>2, <3>1, TargetGrows
        <4> QED
          BY <3>1, <4>1 DEF TargetAtomic
      <3>2. CASE j = Len(target) + 1
        BY <2>2, <2>4, <3>2, TargetGrows
      <3> QED
        BY <2>2, <3>1, <3>2, TargetGrows
    <2> QED
      BY <2>5 DEF TargetAtomic
  <1> QED
    BY <1>1, <1>2

\* What has been applied stays applied.
LEMMA AppliedStays ==
    ASSUME TypeOK, [Next]_vars, NEW p \in Positions, Applied(p)
    PROVE  Applied(p)'
  <1>1. CASE target' = target
    BY <1>1 DEF Applied
  <1>2. CASE target' # target
    BY <1>2, TargetChanges, TargetGrows DEF Applied
  <1> QED
    BY <1>1, <1>2

-----------------------------------------------------------------------------
(* What may be confirmed *)

\* Cleared, for a position known now and the target after the step.
ClearedNext(lsn) ==
    \A p \in Positions :
        HasStatement(p) /\ Owed(p) /\ Final(p) < lsn => Applied(p)'

\* A position that was cleared stays cleared.
LEMMA ClearedStays ==
    ASSUME TypeOK, [Next]_vars PROVE \A lsn : Cleared(lsn) => ClearedNext(lsn)
  BY AppliedStays DEF Cleared, ClearedNext

\* The larger of two cleared positions is cleared.
LEMMA ClearedMax ==
    \A a, b \in Nat : ClearedNext(a) /\ ClearedNext(b) => ClearedNext(Max(a, b))
  BY DEF ClearedNext, Max

\* Nothing is owed before the point where the run begins.
LEMMA ClearedStart == Cleared(StartLsn) /\ Cleared(SlotLsn)
  BY ConstantsAssumption, WalTypes DEF Cleared, Owed, Max

\* A Begin is preceded by whole transactions only.
LEMMA SeenAtBegin ==
    ASSUME TypeOK, ChannelContiguous, SeenApplied, NEW p \in Positions,
           RecvWal(p, "begin"),
           NEW q \in Positions, q < p, HasStatement(q), Owed(q)
    PROVE  Applied(q)
  <1>1. p = seen + 1 /\ Type(p) = "begin"
    BY AtBegin
  <1>2. q \in 1 .. seen /\ seen \in Positions
    BY <1>1, WalTypes DEF TypeOK
  <1>3. Type(seen) = "commit"
    BY <1>1, <1>2, WalAssumption
  <1> QED
    BY <1>2, <1>3 DEF SeenApplied

\* After the step, the rows seen are applied but for those of the transaction
\* being received.
LEMMA NextSeenApplied ==
    ASSUME TypeOK, ChannelContiguous, BufferCurrent, SeenApplied, LsnsCleared,
           HasApplier, ~Temporary, [Next]_vars
    PROVE  SeenApplied'
  <1>a. ASSUME UNCHANGED seen PROVE SeenApplied'
    BY <1>a, AppliedStays, WalTypes DEF SeenApplied, TypeOK
  <1>b. ASSUME seen' = 0 PROVE SeenApplied'
    BY <1>b DEF SeenApplied
  <1>1. CASE Server
    BY <1>1, <1>a DEF Server, SourceCommit, ReleaseSlot, sessionVars
  <1>2. CASE StartReplication
    <2>1. PICK p \in 0 .. Len(Wal) : StreamsFrom(Max(start, confirmed), p) /\ seen' = p
      BY <1>2 DEF StartReplication, SlotPosition
    <2>2. ASSUME NEW q \in 1 .. p, HasStatement(q), Owed(q) PROVE Applied(q)'
      <3>1. q \in Positions /\ Final(q) < Max(start, confirmed)
        BY <2>1, WalTypes DEF StreamsFrom
      <3>2. Cleared(start) /\ Cleared(confirmed)
        BY DEF LsnsCleared
      <3>3. Applied(q)
        BY <2>2, <3>1, <3>2, WalTypes DEF Cleared, Max, TypeOK
      <3> QED
        BY <3>1, <3>3, AppliedStays
    <2> QED
      BY <2>1, <2>2 DEF SeenApplied
  <1>3. CASE SlotInUse \/ ConnectionLost \/ ReceiveWal \/ ReceiveKeepAlive \/ SendFeedback
    BY <1>3, <1>a DEF SlotInUse, ConnectionLost, ReceiveWal, ReceiveKeepAlive,
                      SendFeedback, sessionVars
  <1>4. ASSUME NEW d \in detached,
               DetachedStart(d) \/ DetachedFeedback(d) \/ DetachedStop(d)
        PROVE  SeenApplied'
    BY <1>4, <1>a DEF DetachedStart, DetachedFeedback, DetachedStop, sessionVars
  <1>5. CASE HandleKeepAlive
    BY <1>5, <1>a, HeadIsNext DEF HandleKeepAlive
  <1>6. CASE HandleBegin
    <2>1. PICK p \in Positions : RecvWal(p, "begin") /\ seen' = p
      BY <1>6 DEF HandleBegin
    <2>2. ASSUME NEW q \in 1 .. p, HasStatement(q), Owed(q) PROVE Applied(q)'
      <3>1. q \in Positions /\ q < p
        BY <2>1, <2>2, AtBegin, WalTypes DEF HasStatement
      <3> QED
        BY <2>1, <2>2, <3>1, SeenAtBegin, AppliedStays
    <2> QED
      BY <2>1, <2>2 DEF SeenApplied
  <1>7. CASE HandleForwarded \/ HandleNotForwarded
    <2>1. PICK p \in Positions : RecvWal(p, "change") /\ seen' = p
      BY <1>7 DEF HandleForwarded, HandleNotForwarded
    <2>2. /\ seen \in Positions /\ p = seen + 1 /\ Type(p) # "commit"
          /\ Final(p) = Final(seen)
      BY <2>1, InsideTransaction
    <2>3. ASSUME NEW q \in 1 .. p, HasStatement(q), Owed(q)
          PROVE  Applied(q)' \/ Final(q) = Final(p)
      <3>1. q \in 1 .. seen \/ q = p
        BY <2>2, WalTypes
      <3>2. q \in Positions
        BY <3>1, WalTypes
      <3> QED
        BY <2>2, <2>3, <3>1, <3>2, AppliedStays DEF SeenApplied
    <2> QED
      BY <2>1, <2>2, <2>3 DEF SeenApplied
  <1>8. CASE HandleCommit
    <2>1. PICK p \in Positions : RecvWal(p, "commit") /\ ApplyBuffer /\ seen' = p
      BY <1>8 DEF HandleCommit
    <2>2. seen \in Positions /\ p = seen + 1 /\ Type(p) = "commit"
      BY <2>1, InsideTransaction
    <2>3. ASSUME NEW q \in 1 .. p, HasStatement(q), Owed(q) PROVE Applied(q)'
      <3>1. q \in 1 .. seen /\ q \in Positions
        BY <2>2, <2>3, WalTypes DEF HasStatement
      <3>2. CASE Applied(q)
        BY <3>1, <3>2, AppliedStays
      <3>3. CASE Final(q) = Final(seen)
        <4>1. q \in {buffer[k] : k \in DOMAIN buffer}
          BY <2>1, <2>3, <3>1, <3>3, BufferWhole DEF RowsOf
        <4>2. buffer # <<>>
          BY <4>1
        <4>3. target' = Append(target, buffer)
          BY <2>1, <4>2 DEF ApplyBuffer
        <4> QED
          BY <4>1, <4>3, TargetGrows DEF Applied
      <3> QED
        BY <2>3, <3>1, <3>2, <3>3 DEF SeenApplied
    <2> QED
      BY <2>1, <2>3 DEF SeenApplied
  <1>9. CASE CommitFails \/ RecvError \/ IdleTimeout
    BY <1>9, <1>b DEF CommitFails, RecvError, IdleTimeout, ExitSession
  <1>10. CASE Shutdown \/ Crash
    BY <1>10, <1>b DEF Shutdown, Crash, ExitProcess
  <1>11. CASE StartSession \/ Restart \/ TargetLost
    BY <1>11, <1>a DEF StartSession, Restart, TargetLost, sessionVars
  <1>12. CASE UNCHANGED vars
    BY <1>12, <1>a DEF vars, sessionVars
  <1> QED
    BY <1>1, <1>2, <1>3, <1>4, <1>5, <1>6, <1>7, <1>8, <1>9, <1>10, <1>11, <1>12
       DEF Next, Worker, Handle, Process

\* A keepalive runs ahead of no transaction the session has yet to see.
LEMMA KeepAliveCleared ==
    ASSUME TypeOK, ChannelContiguous, SeenApplied, Recv("keepalive")
    PROVE  Cleared(Head(chan).lsn)
  <1>1. Head(chan).lsn \in Nat
    BY HeadTail DEF Recv, Event
  <1>2. \A p \in Positions : p > seen => Head(chan).lsn <= Final(p)
    BY HeadIsNext
  <1>3. ASSUME NEW p \in Positions, HasStatement(p), Owed(p), Final(p) < Head(chan).lsn
        PROVE  Applied(p)
    <2>1. Final(p) \in Nat /\ p \in 1 .. seen /\ seen \in Positions
      BY <1>1, <1>2, <1>3, WalTypes DEF TypeOK
    <2>2. CASE Type(seen) # "commit" /\ Final(p) = Final(seen)
      <3>1. seen + 1 \in Positions /\ Final(seen + 1) = Final(p)
        BY <2>1, <2>2, WalAssumption
      <3>2. Head(chan).lsn <= Final(p)
        BY <1>2, <2>1, <3>1, WalTypes
      <3> QED
        BY <1>1, <1>3, <2>1, <3>2
    <2> QED
      BY <1>3, <2>1, <2>2 DEF SeenApplied
  <1> QED
    BY <1>3 DEF Cleared

\* A Begin carries its transaction's commit LSN: every transaction before it is
\* whole and applied.
LEMMA BeginCleared ==
    ASSUME TypeOK, ChannelContiguous, SeenApplied, NEW p \in Positions, RecvWal(p, "begin")
    PROVE  Cleared(Lsn(p))
  <1>1. Lsn(p) = Final(p)
    BY WalAssumption DEF RecvWal
  <1>2. ASSUME NEW q \in Positions, HasStatement(q), Owed(q), Final(q) < Final(p)
        PROVE  Applied(q)
    <2>1. q < p
      BY <1>2, WalAssumption, WalTypes
    <2> QED
      BY <1>2, <2>1, SeenAtBegin
  <1> QED
    BY <1>1, <1>2 DEF Cleared

\* A change lies before its own commit record.
LEMMA ChangeCleared ==
    ASSUME TypeOK, ChannelContiguous, SeenApplied, NEW p \in Positions, RecvWal(p, "change")
    PROVE  Cleared(Lsn(p))
  <1>1. /\ seen \in Positions /\ p = seen + 1 /\ Final(p) = Final(seen)
        /\ Type(p) = "change"
    BY InsideTransaction DEF RecvWal
  <1>2. Lsn(p) < Final(p)
    BY <1>1, WalAssumption
  <1>3. ASSUME NEW q \in Positions, HasStatement(q), Owed(q), Final(q) < Lsn(p)
        PROVE  Applied(q)
    <2>1. Final(q) < Final(p) /\ Final(q) # Final(seen)
      BY <1>1, <1>2, <1>3, WalTypes
    <2>2. q < p
      BY <2>1, WalAssumption, WalTypes
    <2>3. q \in 1 .. seen
      BY <1>1, <2>2, WalTypes
    <2> QED
      BY <1>3, <2>1, <2>3 DEF SeenApplied
  <1> QED
    BY <1>3 DEF Cleared

\* Nothing commits between a Commit and the end of its record.
LEMMA CommitCleared ==
    ASSUME TypeOK, NEW p \in Positions, RecvWal(p, "commit"), SeenApplied', seen' = p
    PROVE  ClearedNext(Lsn(p))
  <1>1. Type(p) = "commit"
    BY DEF RecvWal
  <1>2. ASSUME NEW q \in Positions, HasStatement(q), Owed(q), Final(q) < Lsn(p)
        PROVE  Applied(q)'
    <2>1. ~(p < q)
      BY <1>1, <1>2, WalAssumption, WalTypes
    <2>2. q \in 1 .. p
      BY <2>1, WalTypes
    <2> QED
      BY <1>1, <1>2, <2>2 DEF SeenApplied
  <1> QED
    BY <1>2 DEF ClearedNext

\* The applied LSN only ever moves to a cleared position.
LEMMA ProgressCleared ==
    ASSUME TypeOK, ChannelContiguous, BufferCurrent, SeenApplied, LsnsCleared,
           HasApplier, ~Temporary, [Next]_vars
    PROVE  ClearedNext(progress')
  <1>a. /\ ClearedNext(progress) /\ ClearedNext(resume) /\ ClearedNext(StartLsn)
        /\ progress \in Nat
    BY ClearedStays, ClearedStart DEF LsnsCleared, TypeOK
  <1>b. ASSUME UNCHANGED progress PROVE ClearedNext(progress')
    BY <1>a, <1>b
  <1>c. ASSUME NEW lsn \in Nat, ClearedNext(lsn), update_applied(lsn)
        PROVE  ClearedNext(progress')
    BY <1>a, <1>c, ClearedMax DEF update_applied
  <1>1. CASE Server
    BY <1>1, <1>b DEF Server, SourceCommit, ReleaseSlot, workerVars
  <1>2. CASE StartReplication \/ SlotInUse \/ ConnectionLost \/ ReceiveWal
             \/ ReceiveKeepAlive \/ SendFeedback
    BY <1>2, <1>b DEF StartReplication, SlotInUse, ConnectionLost, ReceiveWal,
                      ReceiveKeepAlive, SendFeedback, workerVars
  <1>3. ASSUME NEW d \in detached,
               DetachedStart(d) \/ DetachedFeedback(d) \/ DetachedStop(d)
        PROVE  ClearedNext(progress')
    BY <1>3, <1>b DEF DetachedStart, DetachedFeedback, DetachedStop, workerVars
  <1>4. CASE HandleKeepAlive
    <2>1. Recv("keepalive") /\ update_applied(Head(chan).lsn)
      BY <1>4 DEF HandleKeepAlive
    <2>2. Head(chan).lsn \in Nat
      BY <2>1, HeadTail DEF Recv, Event
    <2>3. ClearedNext(Head(chan).lsn)
      BY <2>1, KeepAliveCleared, ClearedStays
    <2> QED
      BY <2>1, <2>2, <2>3, <1>c
  <1>5. CASE HandleBegin
    <2>1. PICK p \in Positions :
            RecvWal(p, "begin") /\ (update_applied(Lsn(p)) \/ UNCHANGED progress)
      BY <1>5 DEF HandleBegin, EmitBoundary
    <2>2. ClearedNext(Lsn(p)) /\ Lsn(p) \in Nat
      BY <2>1, BeginCleared, ClearedStays, WalTypes
    <2> QED
      BY <2>1, <2>2, <1>b, <1>c
  <1>6. CASE HandleForwarded
    BY <1>6, <1>b DEF HandleForwarded, AdvanceUnlessApplier
  <1>7. CASE HandleNotForwarded
    <2>1. PICK p \in Positions :
            RecvWal(p, "change") /\ (update_applied(Lsn(p)) \/ UNCHANGED progress)
      BY <1>7 DEF HandleNotForwarded, AdvanceUnlessApplier
    <2>2. ClearedNext(Lsn(p)) /\ Lsn(p) \in Nat
      BY <2>1, ChangeCleared, ClearedStays, WalTypes
    <2> QED
      BY <2>1, <2>2, <1>b, <1>c
  <1>8. CASE HandleCommit
    <2>1. PICK p \in Positions :
            /\ RecvWal(p, "commit") /\ seen' = p
            /\ update_applied(Lsn(p)) \/ UNCHANGED progress
      BY <1>8 DEF HandleCommit, EmitBoundary
    <2>2. ClearedNext(Lsn(p)) /\ Lsn(p) \in Nat
      BY <2>1, NextSeenApplied, CommitCleared, WalTypes
    <2> QED
      BY <2>1, <2>2, <1>b, <1>c
  <1>9. CASE CommitFails \/ RecvError \/ IdleTimeout
    BY <1>9, <1>b DEF CommitFails, RecvError, IdleTimeout, ExitSession
  <1>10. CASE Shutdown \/ Crash
    BY <1>10, <1>b DEF Shutdown, Crash, ExitProcess
  <1>11. CASE StartSession \/ Restart
    BY <1>11, <1>a DEF StartSession, Restart
  <1>12. CASE TargetLost
    BY <1>12, <1>b DEF TargetLost, workerVars
  <1>13. CASE UNCHANGED vars
    BY <1>13, <1>b DEF vars, workerVars
  <1> QED
    BY <1>1, <1>2, <1>3, <1>4, <1>5, <1>6, <1>7, <1>8, <1>9, <1>10, <1>11, <1>12,
       <1>13 DEF Next, Worker, Handle, Process

\* Every other position is a copy of one that was cleared, or starts afresh.
LEMMA CopiesCleared ==
    ASSUME TypeOK, LsnsCleared, ~Temporary, [Next]_vars
    PROVE  /\ ClearedNext(confirmed')
           /\ ClearedNext(resume')
           /\ ClearedNext(start')
           /\ \A d \in detached' : ClearedNext(d.applied)
  <1>a. /\ ClearedNext(confirmed) /\ ClearedNext(progress) /\ ClearedNext(resume)
        /\ ClearedNext(start) /\ ClearedNext(StartLsn)
        /\ \A d \in detached : ClearedNext(d.applied)
    BY ClearedStays, ClearedStart DEF LsnsCleared
  <1>b. /\ confirmed \in Nat /\ progress \in Nat
        /\ \A d \in detached : d.applied \in Nat
    BY DEF TypeOK, Detached
  <1>1. CASE Server
    BY <1>1, <1>a DEF Server, SourceCommit, ReleaseSlot, workerVars, sessionVars
  <1>2. CASE StartReplication
    BY <1>2, <1>a DEF StartReplication, SlotPosition
  <1>3. CASE SlotInUse \/ ConnectionLost \/ ReceiveWal
    BY <1>3, <1>a DEF SlotInUse, ConnectionLost, ReceiveWal, serverVars, sessionVars
  <1>4. CASE ReceiveKeepAlive \/ SendFeedback
    BY <1>4, <1>a, <1>b, ClearedMax
       DEF ReceiveKeepAlive, SendFeedback, Confirm, workerVars, sessionVars
  <1>5. ASSUME NEW d \in detached, DetachedStart(d)
        PROVE  /\ ClearedNext(confirmed')
               /\ ClearedNext(resume')
               /\ ClearedNext(start')
               /\ \A e \in detached' : ClearedNext(e.applied)
    <2>1. [d EXCEPT !.stage = "streaming"].applied = d.applied
      BY DEF TypeOK, Detached
    <2> QED
      BY <1>5, <1>a, <2>1 DEF DetachedStart, SlotPosition, sessionVars
  <1>6. ASSUME NEW d \in detached, DetachedFeedback(d) \/ DetachedStop(d)
        PROVE  /\ ClearedNext(confirmed')
               /\ ClearedNext(resume')
               /\ ClearedNext(start')
               /\ \A e \in detached' : ClearedNext(e.applied)
    BY <1>6, <1>a, <1>b, ClearedMax
       DEF DetachedFeedback, DetachedStop, Confirm, workerVars, sessionVars
  <1>7. CASE HandleKeepAlive \/ HandleBegin \/ HandleForwarded \/ HandleNotForwarded
             \/ HandleCommit
    <2>1. UNCHANGED <<confirmed, resume, start, detached>>
      BY <1>7 DEF HandleKeepAlive, HandleBegin, HandleForwarded, HandleNotForwarded,
                  HandleCommit, Continue, serverVars
    <2> QED
      BY <2>1, <1>a
  <1>8. CASE CommitFails \/ RecvError \/ IdleTimeout
    BY <1>8, <1>a DEF NextResume, CommitFails, RecvError, IdleTimeout, ExitSession
  <1>9. CASE Shutdown \/ Crash
    BY <1>9, <1>a DEF NextResume, Shutdown, Crash, ExitProcess
  <1>10. CASE StartSession \/ Restart \/ TargetLost
    BY <1>10, <1>a DEF StartSession, Restart, TargetLost, serverVars, workerVars, sessionVars
  <1>11. CASE UNCHANGED vars
    BY <1>11, <1>a DEF vars, serverVars, workerVars, sessionVars
  <1> QED
    BY <1>1, <1>2, <1>3, <1>4, <1>5, <1>6, <1>7, <1>8, <1>9, <1>10, <1>11
       DEF Next, Worker, Handle, Process

\* Every LSN the pipeline holds stays cleared.
LEMMA NextLsnsCleared ==
    ASSUME TypeOK, ChannelContiguous, BufferCurrent, SeenApplied, LsnsCleared,
           HasApplier, ~Temporary, [Next]_vars
    PROVE  LsnsCleared'
  BY ProgressCleared, CopiesCleared DEF LsnsCleared, Cleared, ClearedNext

-----------------------------------------------------------------------------
(* The resume LSN *)

\* The resume LSN follows the applied one, which no step of a live process lowers
\* but a new session, to the resume LSN.
LEMMA ResumeStep ==
    ASSUME TypeOK, ResumeBehind, [Next]_vars
    PROVE  ResumeBehind' /\ (phase # "down" => resume' >= resume)
  <1>a. progress \in Nat /\ resume \in Nat
    BY DEF TypeOK
  <1>b. ASSUME UNCHANGED <<phase, resume>>, progress' >= progress, progress' \in Nat
        PROVE  ResumeBehind' /\ (phase # "down" => resume' >= resume)
    BY <1>a, <1>b DEF ResumeBehind
  <1>c. ASSUME NEW lsn \in Nat, update_applied(lsn)
        PROVE  progress' >= progress /\ progress' \in Nat
    BY <1>a, <1>c, MaxNat DEF update_applied
  <1>1. CASE Server
    BY <1>1, <1>a, <1>b DEF Server, SourceCommit, ReleaseSlot, workerVars, sessionVars
  <1>2. CASE StartReplication \/ SlotInUse \/ ConnectionLost \/ ReceiveWal
             \/ ReceiveKeepAlive \/ SendFeedback
    BY <1>2, <1>a, <1>b DEF StartReplication, SlotInUse, ConnectionLost, ReceiveWal,
                      ReceiveKeepAlive, SendFeedback, workerVars, sessionVars
  <1>3. ASSUME NEW d \in detached,
               DetachedStart(d) \/ DetachedFeedback(d) \/ DetachedStop(d)
        PROVE  ResumeBehind' /\ (phase # "down" => resume' >= resume)
    BY <1>3, <1>a, <1>b DEF DetachedStart, DetachedFeedback, DetachedStop, workerVars,
                            sessionVars
  <1>4. CASE HandleKeepAlive
    <2>1. Head(chan).lsn \in Nat
      BY <1>4, HeadTail DEF HandleKeepAlive, Recv, Event
    <2> QED
      BY <1>4, <2>1, <1>b, <1>c DEF HandleKeepAlive, Continue
  <1>5. CASE HandleBegin \/ HandleCommit
    <2>1. PICK p \in Positions : update_applied(Lsn(p)) \/ UNCHANGED progress
      BY <1>5 DEF HandleBegin, HandleCommit, EmitBoundary
    <2>2. progress' >= progress /\ progress' \in Nat
      BY <2>1, <1>a, <1>c, WalTypes
    <2> QED
      BY <1>5, <2>2, <1>b DEF HandleBegin, HandleCommit, Continue
  <1>6. CASE HandleForwarded \/ HandleNotForwarded
    <2>1. PICK p \in Positions : update_applied(Lsn(p)) \/ UNCHANGED progress
      BY <1>6 DEF HandleForwarded, HandleNotForwarded, AdvanceUnlessApplier
    <2>2. progress' >= progress /\ progress' \in Nat
      BY <2>1, <1>a, <1>c, WalTypes
    <2> QED
      BY <1>6, <2>2, <1>b DEF HandleForwarded, HandleNotForwarded, Continue
  <1>7. CASE CommitFails \/ RecvError \/ IdleTimeout
    BY <1>7, <1>a DEF NextResume, CommitFails, RecvError, IdleTimeout, ExitSession, ResumeBehind, Recv,
                      RecvWal
  <1>8. CASE Shutdown \/ Crash
    BY <1>8, <1>a DEF NextResume, Shutdown, Crash, ExitProcess, ResumeBehind
  <1>9. CASE StartSession \/ Restart
    BY <1>9, <1>a, ConstantsAssumption DEF StartSession, Restart, ResumeBehind
  <1>10. CASE TargetLost
    BY <1>10, <1>a, <1>b DEF TargetLost, workerVars, sessionVars
  <1>11. CASE UNCHANGED vars
    BY <1>11, <1>a, <1>b DEF vars, workerVars, sessionVars
  <1> QED
    BY <1>1, <1>2, <1>3, <1>4, <1>5, <1>6, <1>7, <1>8, <1>9, <1>10, <1>11
       DEF Next, Worker, Handle, Process

\* Resuming never skips what has been applied.
LEMMA NextResumeBehind == TypeOK /\ ResumeBehind /\ [Next]_vars => ResumeBehind'
  BY ResumeStep

-----------------------------------------------------------------------------
(* The invariant *)

\* The invariant holds at first.
LEMMA InitTargetInv == Init => TargetInv
  <1> SUFFICES ASSUME Init PROVE TargetInv
    OBVIOUS
  <1>1. TypeOK
    BY InitTypeOK
  <1>2. ChannelContiguous /\ ResumeBehind
    BY ConstantsAssumption DEF Init, ChannelContiguous, ResumeBehind
  <1>3. BufferCurrent
    BY DEF Init, BufferCurrent
  <1>4. TargetAtomic
    BY DEF Init, TargetAtomic
  <1>5. LsnsCleared
    BY ClearedStart DEF Init, LsnsCleared
  <1>6. SeenApplied
    BY DEF Init, SeenApplied
  <1> QED
    BY <1>1, <1>2, <1>3, <1>4, <1>5, <1>6 DEF TargetInv

\* The invariant is inductive.
LEMMA NextTargetInv == TargetInv /\ [Next]_vars => TargetInv'
  <1> SUFFICES ASSUME TargetInv, [Next]_vars PROVE TargetInv'
    OBVIOUS
  <1>1. /\ TypeOK /\ ResumeBehind /\ ChannelContiguous /\ BufferCurrent
        /\ TargetAtomic
    BY DEF TargetInv
  <1>2. /\ TypeOK' /\ ResumeBehind' /\ ChannelContiguous' /\ BufferCurrent'
        /\ TargetAtomic'
    BY <1>1, NextTypeOK, NextResumeBehind, NextChannel, NextBuffer, NextAtomic
  <1>3. ASSUME HasApplier, ~Temporary PROVE LsnsCleared' /\ SeenApplied'
    BY <1>1, <1>3, NextLsnsCleared, NextSeenApplied DEF TargetInv
  <1> QED
    BY <1>2, <1>3 DEF TargetInv

\* The channel, the buffer, the target and every LSN stay consistent.
THEOREM TargetInvariant == Spec => []TargetInv
  BY InitTargetInv, NextTargetInv, PTL DEF Spec

\* Every target transaction is one whole source transaction.
THEOREM TargetIsAtomic == Spec => []TargetAtomic
  <1>1. TargetInv => TargetAtomic
    BY DEF TargetInv
  <1> QED
    BY <1>1, TargetInvariant, PTL

\* No row owed to a PostgreSQL target is skipped by the slot or the resume LSN.
THEOREM NothingLost == Spec => []TargetLosesNothing
  <1>1. TargetInv => TargetLosesNothing
    BY DEF TargetInv, TargetLosesNothing, LsnsCleared, Cleared, NeverSentAgain
  <1> QED
    BY <1>1, TargetInvariant, PTL

\* The resume LSN of a live process never moves back.
THEOREM ResumeForward == Spec => ResumeNeverRegresses
  <1>1. TargetInv /\ [Next]_vars => [phase # "down" => resume' >= resume]_vars
    BY ResumeStep DEF TargetInv
  <1> QED
    BY <1>1, TargetInvariant, PTL DEF Spec, ResumeNeverRegresses

-----------------------------------------------------------------------------
(* What reaches a sink stays there *)


\* No step takes anything back from a sink.
LEMMA SunkGrows == ASSUME [Next]_vars PROVE sunk \subseteq sunk'
  <1>1. CASE Server
    BY <1>1 DEF Server, SourceCommit, ReleaseSlot, outputVars
  <1>2. CASE Worker
    BY <1>2 DEF Worker, StartReplication, SlotInUse, ConnectionLost, ReceiveWal,
                ReceiveKeepAlive, SendFeedback, DetachedStart, DetachedFeedback,
                DetachedStop, outputVars
  <1>3. CASE HandleBegin \/ HandleCommit
    <2>1. PICK p \in Positions : EmitBoundary(p)
      BY <1>3 DEF HandleBegin, HandleCommit
    <2> QED
      BY <2>1 DEF EmitBoundary, SendOk, SendErr
  <1>4. CASE HandleForwarded
    BY <1>4 DEF HandleForwarded, SendOk, SendErr
  <1>5. CASE HandleKeepAlive \/ HandleNotForwarded \/ CommitFails
    BY <1>5 DEF HandleKeepAlive, HandleNotForwarded, CommitFails, outputVars
  <1>6. CASE Process
    BY <1>6 DEF Process, StartSession, RecvError, IdleTimeout, Shutdown, Crash,
                Restart, TargetLost, ExitProcess, outputVars
  <1>7. CASE UNCHANGED vars
    BY <1>7 DEF vars, outputVars
  <1> QED
    BY <1>1, <1>2, <1>3, <1>4, <1>5, <1>6, <1>7 DEF Next, Handle

\* What reached the sinks that do not fail stays there.
LEMMA SentStays == ASSUME [Next]_vars, NEW p, Sent(p) PROVE Sent(p)'
  BY SunkGrows DEF Sent

LEMMA SeenBound == ASSUME TypeOK PROVE seen \in 0 .. Len(Wal) /\ 1 .. seen \subseteq Positions
  BY WalTypes DEF TypeOK

\* Offering p to the fan-out reaches every sink that does not fail, whether or
\* not the send as a whole succeeds.
LEMMA OfferReaches ==
    ASSUME NEW p \in Positions, SendOk(p) \/ SendErr(p) PROVE Sent(p)'
  BY DEF SendOk, SendErr, Sent

-----------------------------------------------------------------------------
(* What the session has seen *)

\* Everything seen and forwarded was offered.
LEMMA NextSeenSent ==
    ASSUME TypeOK, ChannelContiguous, SeenSent, LsnsSent, ~Temporary, [Next]_vars
    PROVE  SeenSent'
  <1>a. ASSUME UNCHANGED seen PROVE SeenSent'
    BY <1>a, SentStays DEF SeenSent
  <1>b. ASSUME seen' = 0 PROVE SeenSent'
    BY <1>b DEF SeenSent
  <1>c. ASSUME NEW p \in Positions, p = seen + 1, seen' = p,
               Forwarded(p) => Sent(p)'
        PROVE  SeenSent'
    <2> SUFFICES ASSUME NEW q \in 1 .. p, Forwarded(q), Owed(q) PROVE Sent(q)'
      BY <1>c DEF SeenSent
    <2>1. q \in 1 .. seen \/ q = p
      BY <1>c, SeenBound
    <2> QED
      BY <1>c, <2>1, SentStays DEF SeenSent
  <1>1. CASE Server
    BY <1>1, <1>a DEF Server, SourceCommit, ReleaseSlot, sessionVars
  <1>2. CASE StartReplication
    <2>1. PICK p \in 0 .. Len(Wal) : StreamsFrom(Max(start, confirmed), p) /\ seen' = p
      BY <1>2 DEF StartReplication, SlotPosition
    <2>2. ASSUME NEW q \in 1 .. p, Forwarded(q), Owed(q) PROVE Sent(q)'
      <3>1. q \in Positions /\ Final(q) < Max(start, confirmed)
        BY <2>1, WalTypes DEF StreamsFrom
      <3>2. Sent(q)
        BY <2>2, <3>1, WalTypes DEF LsnsSent, SentBefore, Max, TypeOK
      <3> QED
        BY <3>2, SentStays
    <2> QED
      BY <2>1, <2>2 DEF SeenSent
  <1>3. CASE SlotInUse \/ ConnectionLost \/ ReceiveWal \/ ReceiveKeepAlive \/ SendFeedback
    BY <1>3, <1>a DEF SlotInUse, ConnectionLost, ReceiveWal, ReceiveKeepAlive,
                      SendFeedback, sessionVars
  <1>4. ASSUME NEW d \in detached,
               DetachedStart(d) \/ DetachedFeedback(d) \/ DetachedStop(d)
        PROVE  SeenSent'
    BY <1>4, <1>a DEF DetachedStart, DetachedFeedback, DetachedStop, sessionVars
  <1>5. CASE HandleKeepAlive
    BY <1>5, <1>a, HeadIsNext DEF HandleKeepAlive
  <1>6. CASE HandleBegin \/ HandleCommit
    <2>1. PICK p \in Positions : /\ RecvWal(p, "begin") \/ RecvWal(p, "commit")
                                 /\ EmitBoundary(p)
                                 /\ seen' = p
      BY <1>6 DEF HandleBegin, HandleCommit
    <2>2. p = seen + 1 /\ Type(p) # "change"
      BY <2>1, HeadIsNext DEF RecvWal
    <2>3. Forwarded(p) => Sent(p)'
      BY <2>1, <2>2, OfferReaches DEF EmitBoundary, Forwarded
    <2> QED
      BY <2>1, <2>2, <2>3, <1>c
  <1>7. CASE HandleForwarded
    <2>1. PICK p \in Positions : /\ RecvWal(p, "change")
                                 /\ SendOk(p) \/ SendErr(p)
                                 /\ seen' = p
      BY <1>7 DEF HandleForwarded
    <2>2. p = seen + 1
      BY <2>1, HeadIsNext DEF RecvWal
    <2> QED
      BY <2>1, <2>2, OfferReaches, <1>c
  <1>8. CASE HandleNotForwarded
    <2>1. PICK p \in Positions : /\ RecvWal(p, "change")
                                 /\ Kind(p) \in {"skip", "meta", "bad"}
                                 /\ seen' = p
      BY <1>8 DEF HandleNotForwarded
    <2>2. p = seen + 1 /\ ~Forwarded(p)
      BY <2>1, HeadIsNext DEF RecvWal, Forwarded
    <2> QED
      BY <2>1, <2>2, <1>c
  <1>9. CASE CommitFails \/ RecvError \/ IdleTimeout
    BY <1>9, <1>b DEF CommitFails, RecvError, IdleTimeout, ExitSession
  <1>10. CASE Shutdown \/ Crash
    BY <1>10, <1>b DEF Shutdown, Crash, ExitProcess
  <1>11. CASE StartSession \/ Restart \/ TargetLost
    BY <1>11, <1>a DEF StartSession, Restart, TargetLost, sessionVars
  <1>12. CASE UNCHANGED vars
    BY <1>12, <1>a DEF vars, sessionVars
  <1> QED
    BY <1>1, <1>2, <1>3, <1>4, <1>5, <1>6, <1>7, <1>8, <1>9, <1>10, <1>11, <1>12
       DEF Next, Worker, Handle, Process

-----------------------------------------------------------------------------
(* The LSNs *)

\* SentBefore, for a position known now and the sinks after the step.
SentNext(lsn) ==
    \A p \in Positions : Forwarded(p) /\ Owed(p) /\ Final(p) < lsn => Sent(p)'

LEMMA SentBeforeStays ==
    ASSUME [Next]_vars PROVE \A lsn : SentBefore(lsn) => SentNext(lsn)
  BY SentStays DEF SentBefore, SentNext

LEMMA SentMax == \A a, b \in Nat : SentNext(a) /\ SentNext(b) => SentNext(Max(a, b))
  BY DEF SentNext, Max

LEMMA SentStart == SentBefore(StartLsn) /\ SentBefore(SlotLsn)
  BY ConstantsAssumption, WalTypes DEF SentBefore, Owed, Max

\* No transaction that commits before the LSN of a message lies behind it.
LEMMA LsnCovers ==
    ASSUME NEW p \in Positions, NEW q \in Positions, Final(q) < Lsn(p),
           Type(p) \in {"begin", "change", "commit"}
    PROVE  q \in 1 .. p
  <1>1. Type(p) # "commit" => Lsn(p) <= Final(p)
    BY WalAssumption, WalTypes
  <1>2. p < q => Final(p) <= Final(q) /\ (Type(p) = "commit" => Lsn(p) <= Final(q))
    BY WalAssumption
  <1> QED
    BY <1>1, <1>2, WalTypes

\* Once p is seen, its LSN is covered.
LEMMA SeenCovers ==
    ASSUME NEW p \in Positions, SeenSent', seen' = p,
           Type(p) \in {"begin", "change", "commit"}
    PROVE  SentNext(Lsn(p))
  BY LsnCovers DEF SeenSent, SentNext

\* A keepalive runs ahead of nothing the session has yet to see.
LEMMA KeepAliveSent ==
    ASSUME TypeOK, ChannelContiguous, SeenSent, Recv("keepalive")
    PROVE  SentBefore(Head(chan).lsn) /\ Head(chan).lsn \in Nat
  <1>1. Head(chan).lsn \in Nat
    BY HeadTail DEF Recv, Event
  <1>2. \A p \in Positions : p > seen => Head(chan).lsn <= Final(p)
    BY HeadIsNext
  <1> QED
    BY <1>1, <1>2, SeenBound, WalTypes DEF SentBefore, SeenSent

\* The applied LSN only moves to a position behind which everything was offered.
LEMMA ProgressSent ==
    ASSUME TypeOK, ChannelContiguous, SeenSent, LsnsSent, ~Temporary, [Next]_vars
    PROVE  SentNext(progress')
  <1>a. /\ SentNext(progress) /\ SentNext(resume) /\ SentNext(StartLsn)
        /\ progress \in Nat
    BY SentBeforeStays, SentStart DEF LsnsSent, TypeOK
  <1>b. ASSUME UNCHANGED progress PROVE SentNext(progress')
    BY <1>a, <1>b
  <1>c. ASSUME NEW lsn \in Nat, SentNext(lsn), update_applied(lsn) PROVE SentNext(progress')
    BY <1>a, <1>c, SentMax DEF update_applied
  <1>1. CASE Server
    BY <1>1, <1>b DEF Server, SourceCommit, ReleaseSlot, workerVars
  <1>2. CASE StartReplication \/ SlotInUse \/ ConnectionLost \/ ReceiveWal
             \/ ReceiveKeepAlive \/ SendFeedback
    BY <1>2, <1>b DEF StartReplication, SlotInUse, ConnectionLost, ReceiveWal,
                      ReceiveKeepAlive, SendFeedback, workerVars
  <1>3. ASSUME NEW d \in detached,
               DetachedStart(d) \/ DetachedFeedback(d) \/ DetachedStop(d)
        PROVE  SentNext(progress')
    BY <1>3, <1>b DEF DetachedStart, DetachedFeedback, DetachedStop, workerVars
  <1>4. CASE HandleKeepAlive
    <2>1. Recv("keepalive") /\ update_applied(Head(chan).lsn)
      BY <1>4 DEF HandleKeepAlive
    <2> QED
      BY <2>1, KeepAliveSent, SentBeforeStays, <1>c
  <1>5. CASE HandleBegin \/ HandleCommit \/ HandleForwarded \/ HandleNotForwarded
    <2>1. PICK p \in Positions :
            /\ Type(p) \in {"begin", "change", "commit"}
            /\ seen' = p
            /\ update_applied(Lsn(p)) \/ UNCHANGED progress
      BY <1>5 DEF HandleBegin, HandleCommit, HandleForwarded, HandleNotForwarded, RecvWal,
                  EmitBoundary, AdvanceUnlessApplier
    <2>2. SentNext(Lsn(p)) /\ Lsn(p) \in Nat
      BY <2>1, NextSeenSent, SeenCovers, WalTypes
    <2> QED
      BY <2>1, <2>2, <1>b, <1>c
  <1>6. CASE CommitFails \/ RecvError \/ IdleTimeout
    BY <1>6, <1>b DEF CommitFails, RecvError, IdleTimeout, ExitSession
  <1>7. CASE Shutdown \/ Crash
    BY <1>7, <1>b DEF Shutdown, Crash, ExitProcess
  <1>8. CASE StartSession \/ Restart
    BY <1>8, <1>a DEF StartSession, Restart
  <1>9. CASE TargetLost
    BY <1>9, <1>b DEF TargetLost, workerVars
  <1>10. CASE UNCHANGED vars
    BY <1>10, <1>b DEF vars, workerVars
  <1> QED
    BY <1>1, <1>2, <1>3, <1>4, <1>5, <1>6, <1>7, <1>8, <1>9, <1>10
       DEF Next, Worker, Handle, Process

\* Every other LSN is a copy of one that was covered, or starts afresh.
LEMMA CopiesSent ==
    ASSUME TypeOK, LsnsSent, ~Temporary, [Next]_vars
    PROVE  /\ SentNext(confirmed')
           /\ SentNext(resume')
           /\ SentNext(start')
           /\ \A d \in detached' : SentNext(d.applied)
  <1>a. /\ SentNext(confirmed) /\ SentNext(progress) /\ SentNext(resume)
        /\ SentNext(start) /\ SentNext(StartLsn)
        /\ \A d \in detached : SentNext(d.applied)
    BY SentBeforeStays, SentStart DEF LsnsSent
  <1>b. /\ confirmed \in Nat /\ progress \in Nat
        /\ \A d \in detached : d.applied \in Nat
    BY DEF TypeOK, Detached
  <1>1. CASE Server
    BY <1>1, <1>a DEF Server, SourceCommit, ReleaseSlot, workerVars, sessionVars
  <1>2. CASE StartReplication
    BY <1>2, <1>a DEF StartReplication, SlotPosition
  <1>3. CASE SlotInUse \/ ConnectionLost \/ ReceiveWal
    BY <1>3, <1>a DEF SlotInUse, ConnectionLost, ReceiveWal, serverVars, sessionVars
  <1>4. CASE ReceiveKeepAlive \/ SendFeedback
    BY <1>4, <1>a, <1>b, SentMax
       DEF ReceiveKeepAlive, SendFeedback, Confirm, workerVars, sessionVars
  <1>5. ASSUME NEW d \in detached, DetachedStart(d)
        PROVE  /\ SentNext(confirmed')
               /\ SentNext(resume')
               /\ SentNext(start')
               /\ \A e \in detached' : SentNext(e.applied)
    <2>1. [d EXCEPT !.stage = "streaming"].applied = d.applied
      BY DEF TypeOK, Detached
    <2> QED
      BY <1>5, <1>a, <2>1 DEF DetachedStart, SlotPosition, sessionVars
  <1>6. ASSUME NEW d \in detached, DetachedFeedback(d) \/ DetachedStop(d)
        PROVE  /\ SentNext(confirmed')
               /\ SentNext(resume')
               /\ SentNext(start')
               /\ \A e \in detached' : SentNext(e.applied)
    BY <1>6, <1>a, <1>b, SentMax
       DEF DetachedFeedback, DetachedStop, Confirm, workerVars, sessionVars
  <1>7. CASE HandleKeepAlive \/ HandleBegin \/ HandleForwarded \/ HandleNotForwarded
             \/ HandleCommit
    <2>1. UNCHANGED <<confirmed, resume, start, detached>>
      BY <1>7 DEF HandleKeepAlive, HandleBegin, HandleForwarded, HandleNotForwarded,
                  HandleCommit, Continue, serverVars
    <2> QED
      BY <2>1, <1>a
  <1>8. CASE CommitFails \/ RecvError \/ IdleTimeout
    BY <1>8, <1>a DEF NextResume, CommitFails, RecvError, IdleTimeout, ExitSession
  <1>9. CASE Shutdown \/ Crash
    BY <1>9, <1>a DEF NextResume, Shutdown, Crash, ExitProcess
  <1>10. CASE StartSession \/ Restart \/ TargetLost
    BY <1>10, <1>a DEF StartSession, Restart, TargetLost, serverVars, workerVars, sessionVars
  <1>11. CASE UNCHANGED vars
    BY <1>11, <1>a DEF vars, serverVars, workerVars, sessionVars
  <1> QED
    BY <1>1, <1>2, <1>3, <1>4, <1>5, <1>6, <1>7, <1>8, <1>9, <1>10, <1>11
       DEF Next, Worker, Handle, Process

-----------------------------------------------------------------------------
(* The invariant *)

LEMMA InitSinkInv == Init => SinkInv
  <1> SUFFICES ASSUME Init PROVE SinkInv
    OBVIOUS
  <1>1. TypeOK
    BY InitTypeOK
  <1>2. ChannelContiguous
    BY DEF Init, ChannelContiguous
  <1>3. LsnsSent /\ SeenSent
    BY SentStart DEF Init, LsnsSent, SeenSent
  <1> QED
    BY <1>1, <1>2, <1>3 DEF SinkInv

LEMMA NextSinkInv == SinkInv /\ [Next]_vars => SinkInv'
  <1> SUFFICES ASSUME SinkInv, [Next]_vars PROVE SinkInv'
    OBVIOUS
  <1>1. TypeOK /\ ChannelContiguous /\ TypeOK' /\ ChannelContiguous'
    BY NextTypeOK, NextChannel DEF SinkInv
  <1>2. ASSUME ~Temporary PROVE LsnsSent' /\ SeenSent'
    <2>1. LsnsSent /\ SeenSent
      BY <1>2 DEF SinkInv
    <2>2. SeenSent'
      BY <1>1, <1>2, <2>1, NextSeenSent
    <2>3. LsnsSent'
      BY <1>1, <1>2, <2>1, ProgressSent, CopiesSent DEF LsnsSent, SentBefore, SentNext
    <2> QED
      BY <2>2, <2>3
  <1> QED
    BY <1>1, <1>2 DEF SinkInv

\* Everything behind any LSN the pipeline holds was offered to the sinks.
THEOREM SinkInvariant == Spec => []SinkInv
  BY InitSinkInv, NextSinkInv, PTL DEF Spec

\* A sink that does not fail loses no forwarded event, whatever its siblings do.
THEOREM NoSinkLoss == Spec => []SinkLosesNothing
  <1>1. SinkInv => SinkLosesNothing
    BY DEF SinkInv, SinkLosesNothing, LsnsSent, SentBefore, Sent, NeverSentAgain
  <1> QED
    BY <1>1, SinkInvariant, PTL

\* A stream begins behind nothing but what the target, or the sinks, have.
LEMMA StreamSkipsNothing ==
    ASSUME TargetInv, SinkInv, [Next]_vars, worker = "starting", worker' = "streaming",
           ~Temporary,
           NEW p \in 1 .. next', HasStatement(p), Owed(p)
    PROVE  IF HasApplier THEN Applied(p) ELSE Sent(p)
  <1>1. StartReplication
    BY DEF Next, Server, Worker, Handle, Process, vars, serverVars, workerVars,
           SourceCommit, ReleaseSlot, SlotInUse, ConnectionLost, ReceiveWal, ReceiveKeepAlive,
           SendFeedback, DetachedStart, DetachedFeedback, DetachedStop, HandleKeepAlive,
           HandleBegin, HandleForwarded, HandleNotForwarded, HandleCommit, Continue,
           CommitFails, RecvError, IdleTimeout, ExitSession, Shutdown, Crash, ExitProcess,
           StartSession, Restart, TargetLost
  <1>2. PICK k \in 0 .. Len(Wal) : StreamsFrom(Max(start, confirmed), k) /\ next' = k
    BY <1>1 DEF StartReplication, SlotPosition
  <1>3. p \in Positions /\ Final(p) < Max(start, confirmed)
    BY <1>2, WalTypes DEF StreamsFrom
  <1>4. TypeOK
    BY DEF SinkInv
  <1>5. Final(p) < start \/ Final(p) < confirmed
    BY <1>3, <1>4, WalTypes DEF Max, TypeOK
  <1>6. CASE HasApplier
    BY <1>3, <1>5, <1>6 DEF TargetInv, LsnsCleared, Cleared
  <1>7. CASE ~HasApplier
    <2>1. Forwarded(p)
      BY DEF HasStatement, Forwarded
    <2> QED
      BY <1>3, <1>5, <1>7, <2>1 DEF SinkInv, LsnsSent, SentBefore
  <1> QED
    BY <1>6, <1>7

\* A reconnect skips no row that was not delivered.
THEOREM ReconnectIsSafe == Spec => ReconnectSkipsNothing
  <1>1. ASSUME TargetInv, SinkInv, [Next]_vars, Reconnects, ~Temporary PROVE SkippedDelivered
    BY <1>1, StreamSkipsNothing DEF Reconnects, SkippedDelivered, Sent
  <1>2. TargetInv /\ SinkInv /\ [Next]_vars
          => [Reconnects /\ ~Temporary => SkippedDelivered]_vars
    BY <1>1
  <1> QED
    BY <1>2, TargetInvariant, SinkInvariant, PTL DEF Spec, ReconnectSkipsNothing

-----------------------------------------------------------------------------
(* Nothing is applied twice *)

AppliedNext(lsn) == \A j \in base' + 1 .. Len(target') : Final(target'[j][1]) < lsn

\* What this process has applied is in the WAL.
LEMMA FirstApplied ==
    ASSUME TypeOK, NoEmptyTransaction, NEW j \in base + 1 .. Len(target)
    PROVE  j \in DOMAIN target /\ Final(target[j][1]) \in Nat
  <1>1. target \in Seq(Seq(Positions)) /\ base \in Nat
    BY DEF TypeOK
  <1>2. j \in DOMAIN target
    BY <1>1
  <1>3. target[j] \in Seq(Positions) /\ target[j] # <<>>
    BY <1>1, <1>2 DEF NoEmptyTransaction
  <1>4. target[j][1] \in Positions
    BY <1>3
  <1> QED
    BY <1>2, <1>4, WalTypes

\* A later LSN lies behind what an earlier one lies behind.
LEMMA BeforeLater ==
    ASSUME TypeOK, NoEmptyTransaction, UNCHANGED <<target, base>>,
           NEW a \in Nat, NEW b \in Nat, a <= b, AppliedBefore(a)
    PROVE  AppliedNext(b)
  BY FirstApplied DEF AppliedBefore, AppliedNext

\* The commit that changes the target comes after all this process has applied.
LEMMA CommitIsNew ==
    ASSUME TypeOK, ChannelContiguous, BufferCurrent, NothingAppliedAgain, targetUp,
           ~(EmitBoundaries /\ Failing # {}), buffer # <<>>,
           NEW p \in Positions, RecvWal(p, "commit")
    PROVE  /\ AppliedBefore(Final(p))
           /\ buffer[1] \in Positions
           /\ Final(buffer[1]) = Final(p)
           /\ p > seen
  <1>1. p = seen + 1 /\ Final(p) = Final(seen) /\ seen \in Positions
    BY InsideTransaction
  <1>2. p > seen
    BY <1>1, WalTypes
  <1>3. chan # <<>>
    BY DEF RecvWal, Recv
  <1>4. AppliedBefore(Final(p))
    BY <1>2, <1>3 DEF NothingAppliedAgain
  <1>5. HasApplier
    BY DEF BufferCurrent
  <1>6. 1 \in DOMAIN buffer
    BY DEF TypeOK
  <1>7. buffer[1] \in RowsOf(Final(seen))
    BY <1>5, <1>6, BufferWhole
  <1> QED
    BY <1>1, <1>2, <1>4, <1>7 DEF RowsOf

\* Only a restart changes where the process began.
LEMMA BaseChanges == ASSUME [Next]_vars PROVE base' = base \/ Restart
  <1>1. CASE Server
    BY <1>1 DEF Server, SourceCommit, ReleaseSlot, outputVars
  <1>2. CASE Worker
    BY <1>2 DEF Worker, StartReplication, SlotInUse, ConnectionLost, ReceiveWal,
                ReceiveKeepAlive, SendFeedback, DetachedStart, DetachedFeedback,
                DetachedStop, outputVars
  <1>3. CASE HandleBegin \/ HandleForwarded
    BY <1>3 DEF HandleBegin, HandleForwarded
  <1>4. CASE HandleKeepAlive \/ HandleNotForwarded
    BY <1>4 DEF HandleKeepAlive, HandleNotForwarded, outputVars
  <1>5. CASE HandleCommit
    BY <1>5 DEF HandleCommit, ApplyBuffer
  <1>6. CASE CommitFails
    BY <1>6 DEF CommitFails
  <1>7. CASE Process
    BY <1>7 DEF Process, StartSession, RecvError, IdleTimeout, Shutdown, Crash,
                Restart, TargetLost, ExitProcess, outputVars
  <1>8. CASE UNCHANGED vars
    BY <1>8 DEF vars, outputVars
  <1> QED
    BY <1>1, <1>2, <1>3, <1>4, <1>5, <1>6, <1>7, <1>8 DEF Next, Handle

\* Nothing reaches a target whose connection is dead.
LEMMA TargetNeedsUp == ASSUME [Next]_vars, target' # target PROVE targetUp
  <1>1. CASE HandleCommit
    BY <1>1 DEF HandleCommit, ApplyBuffer
  <1>2. CASE CommitFails
    BY <1>2 DEF CommitFails
  <1>3. CASE HandleBegin \/ HandleForwarded
    BY <1>3 DEF HandleBegin, HandleForwarded
  <1>4. CASE HandleKeepAlive \/ HandleNotForwarded
    BY <1>4 DEF HandleKeepAlive, HandleNotForwarded, outputVars
  <1>5. CASE Server
    BY <1>5 DEF Server, SourceCommit, ReleaseSlot, outputVars
  <1>6. CASE Worker
    BY <1>6 DEF Worker, StartReplication, SlotInUse, ConnectionLost, ReceiveWal,
                ReceiveKeepAlive, SendFeedback, DetachedStart, DetachedFeedback,
                DetachedStop, outputVars
  <1>7. CASE Process
    BY <1>7 DEF Process, StartSession, RecvError, IdleTimeout, Shutdown, Crash,
                Restart, TargetLost, ExitProcess, outputVars
  <1>8. CASE UNCHANGED vars
    BY <1>8 DEF vars, outputVars
  <1> QED
    BY <1>1, <1>2, <1>3, <1>4, <1>5, <1>6, <1>7, <1>8 DEF Next, Handle

\* No step commits an empty transaction.
LEMMA NextNoEmpty ==
    ASSUME TypeOK, NoEmptyTransaction, [Next]_vars PROVE NoEmptyTransaction'
  <1>1. CASE target' = target
    BY <1>1 DEF NoEmptyTransaction
  <1>2. CASE target' # target
    BY <1>2, TargetChanges, TargetGrows DEF NoEmptyTransaction
  <1> QED
    BY <1>1, <1>2

\* Every step keeps the transactions of the process in commit order.
LEMMA NextOncePerProcess ==
    ASSUME OnceInv, [Next]_vars PROVE OncePerProcess'
  <1> SUFFICES ASSUME ~(EmitBoundaries /\ Failing # {}),
                      NEW i \in base' + 1 .. Len(target'), NEW j \in base' + 1 .. Len(target'),
                      i < j
               PROVE  Final(target'[i][1]) < Final(target'[j][1])
    BY DEF OncePerProcess
  <1>0. /\ TypeOK /\ ChannelContiguous /\ BufferCurrent
        /\ target \in Seq(Seq(Positions)) /\ base \in Nat
    BY DEF OnceInv, TargetInv, TypeOK
  <1>1. CASE Restart
    BY <1>0, <1>1 DEF Restart
  <1>2. CASE base' = base /\ target' = target
    BY <1>2 DEF OnceInv, OncePerProcess
  <1>3. CASE base' = base /\ target' # target
    <2>1. PICK p \in Positions : RecvWal(p, "commit")
      BY <1>3, TargetChanges
    <2>2. target' = Append(target, buffer) /\ buffer # <<>> /\ targetUp
      BY <1>3, TargetChanges, TargetNeedsUp
    <2>3. AppliedBefore(Final(p)) /\ Final(buffer[1]) = Final(p)
      BY <1>0, <2>1, <2>2, CommitIsNew DEF OnceInv
    <2>4. /\ Len(target') = Len(target) + 1
          /\ \A k \in 1 .. Len(target) : target'[k] = target[k]
          /\ target'[Len(target) + 1] = buffer
      BY <1>0, <2>2
    <2>5. i \in base + 1 .. Len(target) /\ target'[i] = target[i]
      BY <1>0, <1>3, <2>4
    <2>6. CASE j = Len(target) + 1
      BY <2>3, <2>4, <2>5, <2>6 DEF AppliedBefore
    <2>7. CASE j # Len(target) + 1
      <3>1. j \in base + 1 .. Len(target) /\ target'[j] = target[j]
        BY <1>0, <1>3, <2>4, <2>7
      <3> QED
        BY <2>5, <3>1 DEF OnceInv, OncePerProcess
    <2> QED
      BY <2>6, <2>7
  <1> QED
    BY <1>1, <1>2, <1>3, BaseChanges

\* Every step keeps what is applied behind what may still come.
LEMMA NextAppliedAgain ==
    ASSUME OnceInv, [Next]_vars PROVE NothingAppliedAgain'
  <1>0. /\ TypeOK /\ ChannelContiguous /\ BufferCurrent /\ NoEmptyTransaction
        /\ NothingAppliedAgain
        /\ target \in Seq(Seq(Positions)) /\ base \in Nat
        /\ progress \in Nat /\ resume \in Nat /\ start \in Nat
    BY DEF OnceInv, TargetInv, TypeOK
  <1> SUFFICES ASSUME ~(EmitBoundaries /\ Failing # {}), targetUp'
               PROVE  /\ AppliedNext(progress')
                      /\ phase' = "backoff" => AppliedNext(resume')
                      /\ worker' = "starting" => AppliedNext(start')
                      /\ worker' = "streaming" \/ chan' # <<>> =>
                           \A p \in Positions : p > seen' => AppliedNext(Final(p))
    BY DEF NothingAppliedAgain, AppliedBefore, AppliedNext
  <1>a. ASSUME UNCHANGED <<target, base>>, targetUp,
               progress' \in Nat, progress' >= progress,
               phase' = "backoff" => resume' \in Nat /\ AppliedBefore(resume'),
               worker' = "starting" => start' \in Nat /\ AppliedBefore(start'),
               worker' = "streaming" \/ chan' # <<>> =>
                 \A p \in Positions : p > seen' => AppliedBefore(Final(p))
        PROVE  /\ AppliedNext(progress')
               /\ phase' = "backoff" => AppliedNext(resume')
               /\ worker' = "starting" => AppliedNext(start')
               /\ worker' = "streaming" \/ chan' # <<>> =>
                    \A p \in Positions : p > seen' => AppliedNext(Final(p))
    <2>1. \A x : AppliedBefore(x) => AppliedNext(x)
      BY <1>a DEF AppliedBefore, AppliedNext
    <2>2. AppliedNext(progress')
      BY <1>0, <1>a, BeforeLater DEF NothingAppliedAgain
    <2> QED
      BY <1>a, <2>1, <2>2
  <1>b. ASSUME UNCHANGED <<target, base, phase, resume, start>>, targetUp,
               progress' \in Nat, progress' >= progress,
               worker' = "starting" => worker = "starting",
               worker' = "streaming" \/ chan' # <<>> =>
                 /\ worker = "streaming" \/ chan # <<>>
                 /\ seen' \in Nat /\ seen' >= seen
        PROVE  /\ AppliedNext(progress')
               /\ phase' = "backoff" => AppliedNext(resume')
               /\ worker' = "starting" => AppliedNext(start')
               /\ worker' = "streaming" \/ chan' # <<>> =>
                    \A p \in Positions : p > seen' => AppliedNext(Final(p))
    <2>1. ASSUME worker' = "streaming" \/ chan' # <<>>, NEW p \in Positions, p > seen'
          PROVE  AppliedBefore(Final(p))
      <3>1. p > seen
        BY <1>0, <1>b, <2>1, WalTypes DEF TypeOK
      <3> QED
        BY <1>0, <1>b, <2>1, <3>1 DEF NothingAppliedAgain
    <2> QED
      BY <1>0, <1>a, <1>b, <2>1 DEF NothingAppliedAgain
  <1>c. ASSUME UNCHANGED <<target, base, targetUp>>, ExitSession
        PROVE  /\ AppliedNext(progress')
               /\ phase' = "backoff" => AppliedNext(resume')
               /\ worker' = "starting" => AppliedNext(start')
               /\ worker' = "streaming" \/ chan' # <<>> =>
                    \A p \in Positions : p > seen' => AppliedNext(Final(p))
    <2>1. AppliedBefore(progress) /\ progress' = progress /\ resume' = progress
      BY <1>0, <1>c DEF ExitSession, NextResume, NothingAppliedAgain
    <2>2. worker' = "none" /\ chan' = <<>>
      BY <1>c DEF ExitSession
    <2> QED
      BY <1>0, <1>a, <1>c, <2>1, <2>2
  <1>d. seen \in Nat
    BY WalTypes DEF OnceInv, TargetInv, TypeOK
  <1>f. ASSUME UNCHANGED <<outputVars, progress, sessionVars>>,
               worker' = "starting" => worker = "starting",
               worker' = "streaming" \/ chan' # <<>> => worker = "streaming" \/ chan # <<>>
        PROVE  /\ AppliedNext(progress')
               /\ phase' = "backoff" => AppliedNext(resume')
               /\ worker' = "starting" => AppliedNext(start')
               /\ worker' = "streaming" \/ chan' # <<>> =>
                    \A p \in Positions : p > seen' => AppliedNext(Final(p))
    <2>1. UNCHANGED <<target, base, phase, resume, start, seen>> /\ targetUp
      BY <1>f DEF outputVars, sessionVars
    <2>2. progress' \in Nat /\ progress' >= progress /\ seen' \in Nat /\ seen' >= seen
      BY <1>0, <1>d, <1>f, <2>1
    <2> QED
      BY <1>b, <1>f, <2>1, <2>2
  <1>1. CASE Server
    BY <1>1, <1>f DEF Server, SourceCommit, ReleaseSlot, workerVars
  <1>2. CASE StartReplication
    <2>1. PICK q \in 0 .. Len(Wal) : StreamsFrom(Max(start, SlotPosition), q) /\ seen' = q
      BY <1>2 DEF StartReplication
    <2>2. SlotPosition \in Nat
      BY <1>0, SlotPositionType
    <2>3. ASSUME NEW p \in Positions, p > q PROVE AppliedBefore(Final(p))
      <3>1. p \in q + 1 .. Len(Wal)
        BY <2>1, <2>3, WalTypes
      <3>2. Final(p) >= Max(start, SlotPosition)
        BY <2>1, <3>1 DEF StreamsFrom
      <3>3. Final(p) >= start /\ Final(p) \in Nat
        BY <1>0, <2>2, <3>1, <3>2, MaxNat, WalTypes DEF Max
      <3>4. AppliedBefore(start)
        BY <1>0, <1>2 DEF StartReplication, outputVars, NothingAppliedAgain
      <3> QED
        BY <1>0, <3>3, <3>4, FirstApplied DEF AppliedBefore
    <2>4. /\ UNCHANGED <<target, base, progress, phase, resume>> /\ targetUp
          /\ worker' = "streaming"
      BY <1>2 DEF StartReplication, outputVars
    <2>5. phase' = "backoff" => AppliedBefore(resume')
      BY <1>0, <2>4 DEF NothingAppliedAgain
    <2> QED
      BY <1>0, <1>a, <2>1, <2>3, <2>4, <2>5
  <1>3. CASE SlotInUse \/ ConnectionLost \/ SendFeedback
    BY <1>3, <1>f DEF SlotInUse, ConnectionLost, SendFeedback, workerVars
  <1>4. CASE ReceiveWal \/ ReceiveKeepAlive
    BY <1>4, <1>f DEF ReceiveWal, ReceiveKeepAlive
  <1>5. ASSUME NEW d \in detached,
               DetachedStart(d) \/ DetachedFeedback(d) \/ DetachedStop(d)
        PROVE  /\ AppliedNext(progress')
               /\ phase' = "backoff" => AppliedNext(resume')
               /\ worker' = "starting" => AppliedNext(start')
               /\ worker' = "streaming" \/ chan' # <<>> =>
                    \A p \in Positions : p > seen' => AppliedNext(Final(p))
    BY <1>5, <1>f DEF DetachedStart, DetachedFeedback, DetachedStop, workerVars
  <1>6. CASE HandleKeepAlive
    <2>1. Head(chan).lsn \in Nat /\ Head(chan).at = seen /\ chan # <<>>
      BY <1>0, <1>6, HeadTail, HeadIsNext DEF HandleKeepAlive, Recv, Event
    <2>2. progress' \in Nat /\ progress' >= progress
      BY <1>0, <1>6, <2>1, MaxNat DEF HandleKeepAlive, update_applied
    <2> QED
      BY <1>6, <1>0, <1>d, <1>b, <2>1, <2>2 DEF HandleKeepAlive, Continue, outputVars
  <1>e. ASSUME NEW p \in Positions, NEW lsn \in Nat, NEW type, RecvWal(p, type),
               update_applied(lsn) \/ UNCHANGED progress
        PROVE  /\ p = seen + 1 /\ chan # <<>> /\ p \in Nat /\ p >= seen
               /\ progress' \in Nat /\ progress' >= progress
    <2>1. p = seen + 1 /\ chan # <<>>
      BY <1>0, <1>e, HeadIsNext DEF RecvWal, Recv
    <2> QED
      <3>1. p \in Nat /\ p >= seen
        BY <1>d, <2>1
      <3>2. CASE update_applied(lsn)
        BY <1>0, <1>e, <2>1, <3>1, <3>2, MaxNat DEF update_applied
      <3>3. CASE UNCHANGED progress
        BY <1>0, <2>1, <3>1, <3>3
      <3> QED
        BY <1>e, <2>1, <3>1, <3>2, <3>3
  <1>7. CASE HandleBegin
    <2>1. PICK p \in Positions : /\ RecvWal(p, "begin") /\ seen' = p
                                 /\ update_applied(Lsn(p)) \/ UNCHANGED progress
      BY <1>7 DEF HandleBegin, EmitBoundary
    <2>2. Lsn(p) \in Nat
      BY WalTypes
    <2> QED
      BY <1>7, <1>b, <2>1, <2>2, <1>e DEF HandleBegin, Continue
  <1>8. CASE HandleForwarded \/ HandleNotForwarded
    <2>1. PICK p \in Positions : /\ RecvWal(p, "change") /\ seen' = p
                                 /\ update_applied(Lsn(p)) \/ UNCHANGED progress
      BY <1>8 DEF HandleForwarded, HandleNotForwarded, AdvanceUnlessApplier
    <2>2. Lsn(p) \in Nat
      BY WalTypes
    <2> QED
      BY <1>8, <1>b, <2>1, <2>2, <1>e DEF HandleForwarded, HandleNotForwarded, Continue,
                                          outputVars
  <1>9. CASE HandleCommit
    <2>1. PICK p \in Positions : /\ RecvWal(p, "commit") /\ seen' = p /\ ApplyBuffer
                                 /\ Continue
                                 /\ EmitBoundary(p)
      BY <1>9 DEF HandleCommit
    <2>2. update_applied(Lsn(p))
      BY <2>1 DEF EmitBoundary, SendErr
    <2>3. /\ p = seen + 1 /\ chan # <<>> /\ p \in Nat /\ p >= seen
          /\ progress' \in Nat /\ progress' >= progress
      BY <1>e, <2>1, <2>2, WalTypes
    <2>4. CASE buffer = <<>>
      BY <1>b, <2>1, <2>3, <2>4 DEF ApplyBuffer, Continue
    <2>5. CASE buffer # <<>>
      <3>1. target' = Append(target, buffer) /\ targetUp /\ base' = base
        BY <2>1, <2>5 DEF ApplyBuffer
      <3>2. AppliedBefore(Final(p)) /\ Final(buffer[1]) = Final(p)
        BY <1>0, <2>1, <2>5, <3>1, CommitIsNew
      <3>3. /\ Len(target') = Len(target) + 1
            /\ \A k \in 1 .. Len(target) : target'[k] = target[k]
            /\ target'[Len(target) + 1] = buffer
        BY <1>0, <3>1
      <3>4. ASSUME NEW x \in Nat, Final(p) < x PROVE AppliedNext(x)
        <4> SUFFICES ASSUME NEW j \in base' + 1 .. Len(target')
                     PROVE  Final(target'[j][1]) < x
          BY DEF AppliedNext
        <4>1. CASE j = Len(target) + 1
          BY <3>2, <3>3, <3>4, <4>1
        <4>2. CASE j # Len(target) + 1
          <5>1. j \in base + 1 .. Len(target) /\ target'[j] = target[j]
            BY <1>0, <3>1, <3>3, <4>2
          <5>2. Final(target[j][1]) < Final(p) /\ Final(target[j][1]) \in Nat
            BY <1>0, <3>2, <5>1, FirstApplied DEF AppliedBefore
          <5> QED
            BY <3>4, <5>1, <5>2, WalTypes
        <4> QED
          BY <4>1, <4>2
      <3>5. AppliedNext(progress')
        <4>1. Lsn(p) > Final(p)
          BY <2>1, WalAssumption DEF RecvWal
        <4>2. progress' >= Lsn(p)
          BY <1>0, <2>2, MaxNat, WalTypes DEF update_applied
        <4> QED
          BY <2>3, <3>4, <4>1, <4>2, WalTypes
      <3>6. \A q \in Positions : q > seen' => AppliedNext(Final(q))
        <4> SUFFICES ASSUME NEW q \in Positions, q > p PROVE AppliedNext(Final(q))
          BY <2>1
        <4>1. Final(p) < Final(q)
          BY <2>1, CommitSeparates, WalTypes DEF RecvWal
        <4> QED
          BY <3>4, <4>1, WalTypes
      <3>7. phase' = "running"
        BY <2>1 DEF RecvWal, Recv, Continue
      <3>8. worker' # "starting"
        BY <1>0, <2>1, <2>3 DEF ChannelContiguous, Continue
      <3> QED
        BY <3>5, <3>6, <3>7, <3>8
    <2> QED
      BY <2>4, <2>5
  <1>10. CASE CommitFails
    BY <1>10, <1>c DEF CommitFails
  <1>11. CASE RecvError \/ IdleTimeout
    BY <1>11, <1>c DEF RecvError, IdleTimeout, outputVars
  <1>12. CASE Shutdown \/ Crash
    <2>1. /\ UNCHANGED <<target, base, progress>> /\ targetUp
          /\ phase' = "down" /\ worker' = "none" /\ chan' = <<>>
      BY <1>12 DEF Shutdown, Crash, ExitProcess
    <2> QED
      BY <1>0, <1>a, <2>1
  <1>13. CASE StartSession
    <2>1. AppliedBefore(resume) /\ targetUp
      BY <1>0, <1>13 DEF StartSession, outputVars, NothingAppliedAgain
    <2>2. chan = <<>>
      BY <1>0, <1>13 DEF StartSession, ChannelContiguous
    <2>3. \A x : AppliedBefore(x) => AppliedNext(x)
      BY <1>13 DEF StartSession, outputVars, AppliedBefore, AppliedNext
    <2> QED
      BY <1>13, <2>1, <2>2, <2>3 DEF StartSession
  <1>14. CASE Restart
    <2>1. \A x : AppliedNext(x)
      BY <1>0, <1>14 DEF Restart, AppliedNext
    <2> QED
      BY <2>1
  <1>15. CASE TargetLost
    BY <1>15 DEF TargetLost
  <1>16. CASE UNCHANGED vars
    BY <1>16, <1>f DEF vars, workerVars
  <1> QED
    BY <1>1, <1>2, <1>3, <1>4, <1>5, <1>6, <1>7, <1>8, <1>9, <1>10, <1>11, <1>12, <1>13,
       <1>14, <1>15, <1>16 DEF Next, Worker, Handle, Process

\* The inductive invariant of what one process applies.
THEOREM OnceInvariant == Spec => []OnceInv
  <1>1. Init => OnceInv
    BY InitTargetInv DEF Init, OnceInv, NoEmptyTransaction, OncePerProcess,
                         NothingAppliedAgain, AppliedBefore
  <1>2. OnceInv /\ [Next]_vars => OnceInv'
    BY NextTargetInv, NextNoEmpty, NextOncePerProcess, NextAppliedAgain
       DEF OnceInv, TargetInv
  <1> QED
    BY <1>1, <1>2, PTL DEF Spec

\* One process applies each transaction at most once, in commit order.
THEOREM AppliedOnce == Spec => []OncePerProcess
  <1>1. OnceInv => OncePerProcess
    BY DEF OnceInv
  <1> QED
    BY <1>1, OnceInvariant, PTL
-----------------------------------------------------------------------------
(* Replicate implements AtLeastOnce *)

\* What a permanent slot has confirmed it never takes back, and a step that
\* confirms more delivers nothing.
LEMMA SlotStep ==
    ASSUME TypeOK, ~Temporary, [Next]_vars
    PROVE  confirmed' = confirmed \/ (confirmed' >= confirmed /\ UNCHANGED <<target, sunk>>)
  <1>0. confirmed \in Nat /\ progress \in Nat /\ \A d \in detached : d.applied \in Nat
    BY DEF TypeOK, Detached
  <1>1. CASE Server \/ SlotInUse \/ ConnectionLost \/ ReceiveWal
    BY <1>1 DEF Server, SourceCommit, ReleaseSlot, SlotInUse, ConnectionLost, ReceiveWal,
                serverVars
  <1>2. CASE StartReplication \/ \E d \in detached : DetachedStart(d) \/ DetachedStop(d)
    BY <1>2 DEF StartReplication, DetachedStart, DetachedStop, SlotPosition
  <1>3. CASE ReceiveKeepAlive \/ SendFeedback \/ \E d \in detached : DetachedFeedback(d)
    BY <1>0, <1>3, MaxNat
       DEF ReceiveKeepAlive, SendFeedback, DetachedFeedback, Confirm, outputVars
  <1>4. CASE HandleKeepAlive \/ HandleBegin \/ HandleForwarded \/ HandleNotForwarded
             \/ HandleCommit
    BY <1>4 DEF HandleKeepAlive, HandleBegin, HandleForwarded, HandleNotForwarded,
                HandleCommit, Continue, serverVars
  <1>5. CASE CommitFails \/ Process
    BY <1>5 DEF CommitFails, Process, StartSession, RecvError, IdleTimeout, ExitSession,
                Shutdown, Crash, ExitProcess, Restart, TargetLost, serverVars
  <1>6. CASE UNCHANGED vars
    BY <1>6 DEF vars, serverVars
  <1> QED
    BY <1>1, <1>2, <1>3, <1>4, <1>5, <1>6 DEF Next, Worker, Handle

\* What has arrived is never taken back.
LEMMA ArrivedGrows == ASSUME TypeOK, [Next]_vars PROVE Arrived \subseteq Arrived'
  BY AppliedStays, SentStays DEF Arrived, Due

\* What the slot has let go of has arrived.
LEMMA ReleasedArrived ==
    ASSUME TargetInv, SinkInv, ~Temporary, NEW p \in Due, Final(p) < confirmed
    PROVE  p \in Arrived
  BY DEF TargetInv, SinkInv, LsnsCleared, LsnsSent, Cleared, SentBefore, Due, Arrived

\* Every step of the pipeline delivers, releases what was delivered, or does
\* nothing the promise is about.
LEMMA StepPromise ==
    ASSUME TargetInv, SinkInv, TargetInv', SinkInv', ~Temporary, [Next]_vars
    PROVE  [Promise!Deliver \/ Promise!Release]_<<Arrived, Skipped>>
  <1>0. TypeOK /\ confirmed \in Nat /\ confirmed' \in Nat
        /\ \A p \in Due : p \in Positions /\ Final(p) \in Nat
    BY WalTypes DEF TargetInv, TypeOK, Due, Positions
  <1>1. Arrived' \subseteq Due /\ Arrived \subseteq Arrived' /\ Skipped' \subseteq Due
    BY <1>0, ArrivedGrows DEF Arrived, Skipped, Due
  <1>2. CASE confirmed' = confirmed
    <2>1. Skipped' = Skipped
      BY <1>2 DEF Skipped, Due, Owed
    <2> QED
      BY <1>1, <2>1 DEF Promise!Deliver, Skipped
  <1>3. CASE confirmed' >= confirmed /\ UNCHANGED <<target, sunk>>
    <2>1. Arrived' = Arrived
      BY <1>3 DEF Arrived, Due, Applied, Sent
    <2>2. Skipped \subseteq Skipped'
      BY <1>0, <1>3 DEF Skipped
    <2>3. ASSUME NEW p \in Skipped' PROVE Promise!Forgettable(p)
      <3>1. p \in Due /\ Final(p) < confirmed'
        BY <2>3 DEF Skipped, Due
      <3>2. (p \in Arrived)'
        BY <3>1, ReleasedArrived DEF TargetInv, SinkInv, LsnsCleared, LsnsSent, Cleared, SentBefore, Due, Arrived
      <3> QED
        BY <2>1, <3>1, <3>2 DEF Promise!Forgettable
    <2> QED
      BY <1>1, <2>1, <2>2, <2>3 DEF Promise!Release, Skipped
  <1> QED
    BY <1>0, <1>2, <1>3, SlotStep

\* With a permanent slot the pipeline implements at-least-once delivery: of rows
\* to a PostgreSQL target, of the events it forwards to a fan-out with a sink that
\* does not fail.
THEOREM PromiseKept ==
    ASSUME ~Temporary, HasApplier \/ Sinks \ Failing # {}
    PROVE  Spec => KeepsPromise
  <1>1. Init => Promise!Init
    <2> SUFFICES ASSUME Init PROVE Arrived = {} /\ Skipped = {}
      BY DEF Promise!Init, Skipped
    <2>1. \A p \in Due : ~Applied(p)
      BY DEF Init, Applied
    <2>2. \A p \in Due : ~(Final(p) < confirmed)
      BY WalTypes, ConstantsAssumption DEF Init, Due, Owed, Max, Positions
    <2>3. HasApplier \/ \A p \in Due : ~Sent(p)
      BY DEF Init, Sent
    <2> QED
      BY <2>1, <2>2, <2>3 DEF Arrived, Skipped
  <1>2. TargetInv /\ SinkInv /\ TargetInv' /\ SinkInv' /\ [Next]_vars
          => [Promise!Deliver \/ Promise!Release]_<<Arrived, Skipped>>
    BY StepPromise
  <1> QED
    BY <1>1, <1>2, TargetInvariant, SinkInvariant, PTL DEF Spec, KeepsPromise, Promise!Spec
=============================================================================
