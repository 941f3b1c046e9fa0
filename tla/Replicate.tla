------------------------------- MODULE Replicate -------------------------------
(***************************************************************************)
(* The `pgx replicate` pipeline: a PostgreSQL logical replication slot     *)
(* streams committed transactions to a background worker, which forwards   *)
(* them over a bounded channel to the session; the session hands rows to   *)
(* the fan-out sink and, for a PostgreSQL downstream, to the applier, and  *)
(* advances the shared applied LSN that the worker reports back.           *)
(*                                                                         *)
(*   Wal  --(server)-->  worker  --chan-->  session  -->  sink / target    *)
(*    ^                    |                   |                           *)
(*    +---- feedback ------+<---- progress ----+                           *)
(*                                                                         *)
(* The socket is not a variable of its own.  A message in the socket       *)
(* buffer is one the server still has to send; feedback in the socket is   *)
(* feedback not yet sent, because the server reads the slot position only  *)
(* when a new START_REPLICATION begins and that waits for the old          *)
(* connection to end.                                                      *)
(*                                                                         *)
(* A handler of the session is one step although it awaits the sink and    *)
(* the target: only the worker runs meanwhile, and it shares nothing with  *)
(* the handler but the channel's tail and `progress`, which the handler    *)
(* writes last.  A crash inside the handler leaves the same state behind   *)
(* as a crash right after it, `progress` being volatile.                   *)
(***************************************************************************)
EXTENDS Integers, Sequences

CONSTANTS
    Wal,            \* the decoded stream the server will send, in commit order
    KeepAliveLsns,  \* the LSNs a server keepalive may carry
    BufferEvents,   \* capacity of the worker-to-session channel
    StartLsn,       \* --start-lsn, 0 when absent
    SlotLsn,        \* the slot's confirmed position when the run begins
    Temporary,      \* --temporary: the slot lives as long as its connection
    HasApplier,     \* the downstream is PostgreSQL
    EmitBoundaries, \* --emit-txn-boundaries
    Sinks,          \* the sinks of the fan-out
    Failing,        \* those of them that may return errors
    MaxFaults       \* bound on the failures the environment injects

ChangeKinds == {"row",    \* forwarded DML that yields a target statement
                "nosql",  \* forwarded DML the applier skips (gen_sql: Skipped)
                "schema", \* forwarded Relation (--emit-schema)
                "skip",   \* decoded, but not forwarded (should_forward)
                "meta",   \* Origin / Type / Message: decoder returns None
                "bad"}    \* decoder returns an error

\* `final` is the commit LSN of the message's transaction; `lsn` is the
\* position the session reports for the message: final_lsn of a Begin, end_lsn
\* of a Commit, wal_end of anything else.
WalMessage == [type : {"begin", "change", "commit"}, kind : ChangeKinds,
               final : Nat, lsn : Nat]

Positions == DOMAIN Wal
Type(p)   == Wal[p].type
Kind(p)   == Wal[p].kind
Final(p)  == Wal[p].final
Lsn(p)    == Wal[p].lsn

\* What PostgreSQL guarantees of the stream: whole transactions, in the order
\* of their commit records, each commit record ending before the next begins;
\* a change was written before its transaction's commit record.
ASSUME WalAssumption ==
    /\ Wal \in Seq(WalMessage)
    /\ \A p \in Positions :
         /\ Type(p) = "begin"  => Lsn(p) = Final(p)
         /\ Type(p) = "change" => Lsn(p) < Final(p)
         /\ Type(p) = "commit" => Lsn(p) > Final(p)
         /\ Type(p) # "commit" => /\ p + 1 \in Positions
                                  /\ Type(p + 1) # "begin"
                                  /\ Final(p + 1) = Final(p)
         /\ Type(p) = "commit" /\ p + 1 \in Positions => Type(p + 1) = "begin"
         /\ p = 1 => Type(p) = "begin"
    /\ \A p, q \in Positions : p < q => Final(p) <= Final(q)
    /\ \A p, q \in Positions : p < q /\ Type(p) = "commit" => Lsn(p) <= Final(q)

ASSUME ConstantsAssumption ==
    /\ KeepAliveLsns \subseteq Nat
    /\ BufferEvents \in Nat \ {0}
    /\ StartLsn \in Nat
    /\ SlotLsn \in Nat
    /\ Temporary \in BOOLEAN
    /\ HasApplier \in BOOLEAN
    /\ EmitBoundaries \in BOOLEAN
    /\ Failing \subseteq Sinks
    /\ MaxFaults \in Nat

VARIABLES
    committed,  \* server: messages of Wal whose transaction has committed
    confirmed,  \* server: confirmed_flush_lsn of the slot
    owner,      \* server: who holds the slot
    next,       \* server: last position sent on the live connection
    worker,     \* stage of the live session's worker task
    chan,       \* the mpsc channel worker -> session
    progress,   \* SharedProgress.applied of the live worker
    detached,   \* workers a finished session left running
    phase,      \* the process: backing off, in a session, or not running
    resume,     \* resume_lsn, shared by the sessions of one process
    start,      \* start_lsn of the running session
    outcome,    \* SessionExit of the last session
    seen,       \* last position the session has taken from the channel
    buffer,     \* PostgresApplier.buffer (survives the session)
    targetUp,   \* the applier's connection, opened once per process
    target,     \* transactions committed on the target database
    base,       \* history: length of `target` when the process started
    sunk,       \* <<position of Wal, sink that has accepted it>>
    faults      \* failures injected so far

serverVars  == <<committed, confirmed, owner, next>>
workerVars  == <<worker, chan, progress, detached>>
sessionVars == <<phase, resume, start, outcome, seen>>
outputVars  == <<buffer, targetUp, target, base, sunk>>
vars == <<serverVars, workerVars, sessionVars, outputVars, faults>>

Max(a, b) == IF a >= b THEN a ELSE b

\* One message of the channel: a position of Wal, or a keepalive received when
\* everything up to `at` had been sent.
Event == [type : {"wal", "keepalive"}, at : 0 .. Len(Wal), lsn : Nat]

Stages   == {"starting", "streaming"}
Detached == [stage : Stages, start : Nat, applied : Nat]

Forwarded(p)     == \/ Type(p) = "change" /\ Kind(p) \in {"row", "nosql", "schema"}
                    \/ Type(p) # "change" /\ EmitBoundaries
HasStatement(p)  == Type(p) = "change" /\ Kind(p) = "row"

-----------------------------------------------------------------------------
(* Building blocks *)

Fault == faults < MaxFaults /\ faults' = faults + 1

\* Room in the bounded mpsc channel: the worker waits for it.
Room == Len(chan) < BufferEvents

\* SharedProgress::update_applied: a lower LSN is ignored.
update_applied(lsn) == progress' = Max(progress, lsn)

\* The server takes the flush position of a status update; 0 is "no position".
Confirm(lsn) == confirmed' = Max(confirmed, lsn)

\* The connection that held the slot is gone; the server has yet to notice.
Dropped == IF owner \in {"live", "detached"} THEN "dead" ELSE owner

\* FanOutSink::send_wal of position p: every sink is offered it, whatever those
\* before it returned, and one error makes the send an error.  A send that
\* failed may still have reached its receiver.
SendOk(p) == sunk' = sunk \cup ({p} \X Sinks) /\ UNCHANGED faults

MutantSendErr(p) ==   \* the first error ends the fan-out
    /\ Failing # {}
    /\ Fault
    /\ \E reached \in SUBSET Sinks : sunk' = sunk \cup ({p} \X reached)
SendErr(p) ==
    /\ Failing # {}
    /\ Fault
    /\ \E reached \in SUBSET Sinks :
         /\ Sinks \ Failing \subseteq reached
         /\ sunk' = sunk \cup ({p} \X reached)

\* What run leaves in resume_lsn when it returns.
MutantResume == start   \* resume_lsn is left as it was
NextResume == progress

\* The end of ReplicateSession::run and the drop of its client.  The worker is
\* told to stop and left to itself.
ExitSession ==
    /\ resume' = NextResume
    /\ phase' = "backoff"
    /\ outcome' = IF progress # start THEN "ReconnectAfterHealthy" ELSE "Reconnect"
    /\ detached' = IF worker \in Stages
                   THEN detached \cup {[stage |-> worker, start |-> start,
                                        applied |-> progress]}
                   ELSE detached
    /\ owner' = IF owner = "live" THEN "detached" ELSE owner
    /\ worker' = "none"
    /\ chan' = <<>>
    /\ next' = 0
    /\ seen' = 0
    /\ UNCHANGED <<committed, confirmed, progress, start>>

\* The process ends: every task and every connection with it.
ExitProcess ==
    /\ phase' = "down"
    /\ detached' = {}
    /\ owner' = Dropped
    /\ worker' = "none"
    /\ chan' = <<>>
    /\ next' = 0
    /\ seen' = 0
    /\ buffer' = <<>>
    /\ UNCHANGED <<committed, confirmed, progress, start, targetUp, target, base, sunk>>

-----------------------------------------------------------------------------
(* The PostgreSQL server *)

\* A transaction commits at the source.
SourceCommit ==
    /\ \E c \in committed + 1 .. Len(Wal) :
         /\ Type(c) = "commit"
         /\ \A p \in committed + 1 .. c - 1 : Type(p) # "commit"
         /\ committed' = c
    /\ UNCHANGED <<confirmed, owner, next, workerVars, sessionVars, outputVars, faults>>

\* The server notices that the connection holding the slot is gone.
ReleaseSlot ==
    /\ owner = "dead"
    /\ owner' = "none"
    /\ UNCHANGED <<committed, confirmed, next, workerVars, sessionVars, outputVars, faults>>

\* What START_REPLICATION makes of the slot: a temporary slot has just been
\* created at the current end of the WAL.
MutantSlotPosition ==   \* every connection recreates its slot
    IF committed = 0 THEN confirmed ELSE Max(confirmed, Lsn(committed))
SlotPosition ==
    IF ~Temporary THEN confirmed
    ELSE IF committed = 0 THEN SlotLsn ELSE Lsn(committed)

\* Streaming begins after the transactions whose commit record lies before lsn.
StreamsFrom(lsn, p) ==
    /\ \A q \in 1 .. p : Final(q) < lsn
    /\ \A q \in p + 1 .. Len(Wal) : Final(q) >= lsn

-----------------------------------------------------------------------------
(* The worker task (ReplicationProtocol) *)

StartReplication ==
    /\ worker = "starting"
    /\ owner = "none"
    /\ worker' = "streaming"
    /\ owner' = "live"
    /\ confirmed' = SlotPosition
    /\ \E p \in 0 .. Len(Wal) :
         /\ StreamsFrom(Max(start, SlotPosition), p)
         /\ next' = p
         /\ seen' = p
    /\ UNCHANGED <<committed, chan, progress, detached, phase, resume, start,
                   outcome, outputVars, faults>>

\* The server refuses a slot that is in use, typically by a detached worker.
SlotInUse ==
    /\ worker = "starting"
    /\ owner # "none"
    /\ worker' = "failed"
    /\ UNCHANGED <<serverVars, chan, progress, detached, sessionVars, outputVars, faults>>

\* A connection that cannot be made, is refused, or breaks.
ConnectionLost ==
    /\ worker \in Stages
    /\ Fault
    /\ worker' = "failed"
    /\ owner' = IF owner = "live" THEN "dead" ELSE owner
    /\ UNCHANGED <<committed, confirmed, next, chan, progress, detached,
                   sessionVars, outputVars>>

\* handle_copy_data for XLogData.
ReceiveWal ==
    /\ worker = "streaming"
    /\ next < committed
    /\ Room
    /\ next' = next + 1
    /\ chan' = Append(chan, [type |-> "wal", at |-> next + 1, lsn |-> Lsn(next + 1)])
    /\ UNCHANGED <<committed, confirmed, owner, worker, progress, detached,
                   sessionVars, outputVars, faults>>

\* handle_copy_data for a keepalive: the position the server has decoded up to,
\* between the last transaction sent and the commit of the next.  A non-transactional Message
\* of the decoder travels and is handled the same way.
ReceiveKeepAlive ==
    /\ worker = "streaming"
    /\ Room
    /\ \E lsn \in KeepAliveLsns :
         /\ \A p \in 1 .. next : Type(p) = "commit" => lsn >= Lsn(p)
         /\ \A p \in next + 1 .. Len(Wal) : lsn <= Final(p)
         /\ chan' = Append(chan, [type |-> "keepalive", at |-> next, lsn |-> lsn])
    /\ UNCHANGED confirmed \/ Confirm(progress)      \* reply_requested
    /\ UNCHANGED <<committed, owner, next, worker, progress, detached,
                   sessionVars, outputVars, faults>>

\* The periodic, or idle, StandbyStatusUpdate.
SendFeedback ==
    /\ worker = "streaming"
    /\ Confirm(progress)
    /\ UNCHANGED <<committed, owner, next, workerVars, sessionVars, outputVars, faults>>

\* A detached worker goes on until its stream loop looks at the stop flag: it
\* may still be starting up, and may still report its last position.
DetachedStart(d) ==
    /\ d.stage = "starting"
    /\ owner = "none"
    /\ owner' = "detached"
    /\ detached' = (detached \ {d}) \cup {[d EXCEPT !.stage = "streaming"]}
    /\ confirmed' = SlotPosition
    /\ UNCHANGED <<committed, next, worker, chan, progress, sessionVars, outputVars, faults>>

DetachedFeedback(d) ==
    /\ d.stage = "streaming"
    /\ Confirm(d.applied)
    /\ UNCHANGED <<committed, owner, next, workerVars, sessionVars, outputVars, faults>>

MutantDetachedStop(d) == FALSE   \* dropping the client does not signal the worker

DetachedStop(d) ==
    /\ detached' = detached \ {d}
    /\ IF d.stage = "streaming" THEN owner' = "none"
                                ELSE owner # "none" /\ UNCHANGED owner
    /\ UNCHANGED <<committed, confirmed, next, worker, chan, progress,
                   sessionVars, outputVars, faults>>

-----------------------------------------------------------------------------
(* The session (ReplicateSession::run) *)

\* The session-loop calls the factory.
StartSession ==
    /\ phase = "backoff"
    /\ phase' = "running"
    /\ start' = resume
    /\ progress' = resume
    /\ worker' = "starting"
    /\ UNCHANGED <<serverVars, chan, detached, resume, outcome, seen, outputVars, faults>>

\* Take the next event off the channel.
Recv(type) ==
    /\ phase = "running"
    /\ chan # <<>>
    /\ Head(chan).type = type

\* The frame of a handler that stays in the loop.
Continue ==
    /\ chan' = Tail(chan)
    /\ UNCHANGED <<serverVars, worker, detached, phase, resume, start, outcome>>

HandleKeepAlive ==
    /\ Recv("keepalive")
    /\ update_applied(Head(chan).lsn)
    /\ seen' = Head(chan).at
    /\ Continue
    /\ UNCHANGED <<outputVars, faults>>

RecvWal(p, type) ==
    /\ Recv("wal")
    /\ p = Head(chan).at
    /\ Type(p) = type

\* Emit the boundary event of position p, if asked to, and advance; a failed
\* send keeps the position and goes on.
EmitBoundary(p) ==
    \/ /\ ~EmitBoundaries
       /\ update_applied(Lsn(p))
       /\ UNCHANGED <<sunk, faults>>
    \/ EmitBoundaries /\ SendOk(p) /\ update_applied(Lsn(p))
    \/ EmitBoundaries /\ SendErr(p) /\ UNCHANGED progress

handle_begin == buffer' = IF HasApplier THEN <<>> ELSE buffer

HandleBegin ==
    \E p \in Positions :
      /\ RecvWal(p, "begin")
      /\ handle_begin
      /\ EmitBoundary(p)
      /\ seen' = p
      /\ Continue
      /\ UNCHANGED <<targetUp, target, base>>

MutantApply ==   \* the error of a dead connection is swallowed
    /\ buffer' = <<>>
    /\ target' = IF buffer # <<>> /\ targetUp THEN Append(target, buffer) ELSE target
    /\ UNCHANGED <<targetUp, base>>

\* handle_commit succeeds: one target transaction with the buffered rows, or
\* nothing when there are none.
ApplyBuffer ==
    /\ buffer' = <<>>
    /\ IF buffer = <<>> THEN UNCHANGED target
                        ELSE targetUp /\ target' = Append(target, buffer)
    /\ UNCHANGED <<targetUp, base>>

HandleCommit ==
    \E p \in Positions :
      /\ RecvWal(p, "commit")
      /\ ApplyBuffer
      /\ EmitBoundary(p)
      /\ seen' = p
      /\ Continue

\* handle_commit fails and ends the session.  The buffer is gone either way:
\* the connection was dead already, the target rolled the transaction back, or
\* it committed and the connection died before the answer.
CommitFails ==
    /\ \E p \in Positions : RecvWal(p, "commit")
    /\ buffer # <<>>
    /\ buffer' = <<>>
    /\ \/ ~targetUp /\ UNCHANGED <<targetUp, target, faults>>
       \/ targetUp /\ Fault /\ UNCHANGED <<targetUp, target>>
       \/ targetUp /\ Fault /\ targetUp' = FALSE /\ target' = Append(target, buffer)
    /\ ExitSession
    /\ UNCHANGED <<base, sunk>>

\* handle_event: a row joins the transaction's buffer.
handle_event(p) ==
    buffer' = IF HasApplier /\ HasStatement(p) THEN Append(buffer, p) ELSE buffer

\* The LSN-advance policy for a decoded change: with an applier, progress waits
\* for the commit.
AdvanceUnlessApplier(p) ==
    IF HasApplier THEN UNCHANGED progress ELSE update_applied(Lsn(p))

HandleForwarded ==
    \E p \in Positions :
      /\ RecvWal(p, "change")
      /\ Kind(p) \in {"row", "nosql", "schema"}
      /\ handle_event(p)
      /\ \/ SendOk(p) /\ AdvanceUnlessApplier(p)
         \/ SendErr(p) /\ UNCHANGED progress
      /\ seen' = p
      /\ Continue
      /\ UNCHANGED <<targetUp, target, base>>

HandleNotForwarded ==
    \E p \in Positions :
      /\ RecvWal(p, "change")
      /\ \/ Kind(p) = "skip" /\ AdvanceUnlessApplier(p)
         \/ Kind(p) = "meta" /\ update_applied(Lsn(p))
         \/ Kind(p) = "bad" /\ UNCHANGED progress
      /\ seen' = p
      /\ Continue
      /\ UNCHANGED <<outputVars, faults>>

\* recv returns the worker's error once the channel is drained.
RecvError ==
    /\ phase = "running"
    /\ chan = <<>>
    /\ worker = "failed"
    /\ ExitSession
    /\ UNCHANGED <<outputVars, faults>>

\* Nothing received for RECV_TIMEOUT.
IdleTimeout ==
    /\ phase = "running"
    /\ chan = <<>>
    /\ worker \in Stages
    /\ Fault
    /\ ExitSession
    /\ UNCHANGED outputVars

\* SIGINT or SIGTERM, in a session or while backing off: the run ends.
Shutdown ==
    /\ phase \in {"running", "backoff"}
    /\ Fault
    /\ resume' = IF phase = "running" THEN NextResume ELSE resume
    /\ outcome' = "Shutdown"
    /\ ExitProcess

\* The process is killed.
Crash ==
    /\ phase \in {"running", "backoff"}
    /\ Fault
    /\ ExitProcess
    /\ UNCHANGED <<resume, outcome>>

\* A new process; ensure_slot refuses to start while the slot is active.
Restart ==
    /\ phase = "down"
    /\ Temporary \/ owner = "none"
    /\ phase' = "backoff"
    /\ resume' = StartLsn
    /\ progress' = StartLsn
    /\ start' = StartLsn
    /\ outcome' = "none"
    /\ targetUp' = TRUE
    /\ base' = Len(target)
    /\ UNCHANGED <<serverVars, worker, chan, detached, seen, buffer, target, sunk, faults>>

\* The applier's connection breaks; nothing reopens it in this process.
TargetLost ==
    /\ HasApplier
    /\ targetUp
    /\ phase # "down"
    /\ Fault
    /\ targetUp' = FALSE
    /\ UNCHANGED <<serverVars, workerVars, sessionVars, buffer, target, base, sunk>>

-----------------------------------------------------------------------------
Init ==
    /\ committed = 0
    /\ confirmed = SlotLsn
    /\ owner = "none"
    /\ next = 0
    /\ worker = "none"
    /\ chan = <<>>
    /\ progress = StartLsn
    /\ detached = {}
    /\ phase = "backoff"
    /\ resume = StartLsn
    /\ start = StartLsn
    /\ outcome = "none"
    /\ seen = 0
    /\ buffer = <<>>
    /\ targetUp = TRUE
    /\ target = <<>>
    /\ base = 0
    /\ sunk = {}
    /\ faults = 0

Server == SourceCommit \/ ReleaseSlot

Worker ==
    \/ StartReplication \/ SlotInUse \/ ConnectionLost
    \/ ReceiveWal \/ ReceiveKeepAlive \/ SendFeedback
    \/ \E d \in detached : DetachedStart(d) \/ DetachedFeedback(d) \/ DetachedStop(d)

Handle ==
    \/ HandleKeepAlive \/ HandleBegin \/ HandleForwarded \/ HandleNotForwarded
    \/ HandleCommit \/ CommitFails

Process == StartSession \/ RecvError \/ IdleTimeout \/ Shutdown \/ Crash
           \/ Restart \/ TargetLost

Next == Server \/ Worker \/ Handle \/ Process

Spec == Init /\ [][Next]_vars

\* Tokio keeps polling the worker and the session, the session-loop retries
\* forever (max_reconnect_attempts = 0), the server notices a dead peer, an
\* operator or supervisor restarts the process, and a detached worker looks at
\* its stop flag.  The server sends what it has decoded: keepalives do not
\* displace data for ever.  No fairness on anything that fails.
Fairness ==
    /\ WF_vars(ReleaseSlot)
    /\ SF_vars(ReceiveWal)
    /\ WF_vars(StartReplication)
    /\ WF_vars(SlotInUse)
    /\ WF_vars(\E d \in detached : DetachedStop(d))
    /\ WF_vars(StartSession)
    /\ WF_vars(Handle)
    /\ WF_vars(RecvError)
    /\ WF_vars(Restart)

FairSpec == Spec /\ Fairness

-----------------------------------------------------------------------------
(* Properties *)

\* Every variable keeps its type; the channel never exceeds its capacity.
TypeOK ==
    /\ committed \in 0 .. Len(Wal)
    /\ confirmed \in Nat
    /\ owner \in {"none", "live", "detached", "dead"}
    /\ next \in 0 .. Len(Wal)
    /\ worker \in {"none", "starting", "streaming", "failed"}
    /\ chan \in Seq(Event)
    /\ Len(chan) <= BufferEvents
    /\ progress \in Nat
    /\ detached \subseteq Detached
    /\ phase \in {"backoff", "running", "down"}
    /\ resume \in Nat
    /\ start \in Nat
    /\ outcome \in {"none", "Reconnect", "ReconnectAfterHealthy", "Shutdown"}
    /\ seen \in 0 .. Len(Wal)
    /\ buffer \in Seq(Positions)
    /\ targetUp \in BOOLEAN
    /\ target \in Seq(Seq(Positions))
    /\ base \in Nat
    /\ sunk \subseteq Positions \X Sinks
    /\ faults \in 0 .. MaxFaults

\* The run owes the transactions that commit at or after the point where it was
\* told to begin.
Owed(p) == Final(p) >= Max(StartLsn, SlotLsn)

\* The row at p is in some transaction committed on the target.
Applied(p) == \E j \in DOMAIN target : \E k \in DOMAIN target[j] : target[j][k] = p

\* The next START_REPLICATION of this process, or of a restarted one, will not
\* send position p again.
NeverSentAgain(p) == Final(p) < confirmed \/ Final(p) < resume

\* No row is lost on the way to a PostgreSQL target: whatever the slot (and the
\* resume LSN) let the server skip has been committed on the target, however
\* crashes, reconnects, sink errors and target errors interleave, and although
\* Begin already reports its transaction's commit LSN.  (A temporary slot dies
\* with its connection and does not keep this promise.)
TargetLosesNothing ==
    HasApplier /\ ~Temporary => \A p \in Positions :
        HasStatement(p) /\ Owed(p) /\ NeverSentAgain(p) => Applied(p)

\* A sink that does not fail loses no forwarded event under the same condition,
\* although its siblings in the fan-out fail and hold the LSN back or lose
\* events themselves, and sessions and processes end anywhere.
SinkLosesNothing ==
    ~Temporary => \A p \in Positions, s \in Sinks \ Failing :
        Forwarded(p) /\ Owed(p) /\ NeverSentAgain(p) => <<p, s>> \in sunk

\* The README's promise for every sink, the failing ones included: what is never
\* sent again was accepted.
NoEventLost ==
    \A p \in Positions, s \in Sinks :
        Forwarded(p) /\ Owed(p) /\ NeverSentAgain(p) => <<p, s>> \in sunk

\* The sequence of rows is strictly increasing in WAL order.
InOrder(s) == \A i, k \in DOMAIN s : i < k => s[i] < s[k]

\* Rows of the transaction that commits at LSN c.
RowsOf(c) == {p \in Positions : HasStatement(p) /\ Final(p) = c}

\* A target transaction is exactly one source transaction: all its rows, once,
\* in order, and no row left in the applier's buffer by a broken session.
TargetAtomic ==
    \A j \in DOMAIN target :
        /\ InOrder(target[j])
        /\ \E c \in Positions : {target[j][k] : k \in DOMAIN target[j]} = RowsOf(Final(c))

\* Within one process no transaction is applied twice and the target follows
\* the source's commit order, reconnects and lost commit answers included.
\* (A failed boundary event after the commit keeps the LSN back and breaks it.)
OncePerProcess ==
    ~(EmitBoundaries /\ Failing # {}) =>
        \A i, j \in base + 1 .. Len(target) :
            i < j => Final(target[i][1]) < Final(target[j][1])

\* After a connection drop the new stream starts no later than the first
\* undelivered row at or after the resume LSN, if the slot is permanent.
Reconnects ==
    /\ worker = "starting" /\ worker' = "streaming"
    /\ outcome = "ReconnectAfterHealthy"
SkippedDelivered ==
    \A p \in 1 .. next' : HasStatement(p) /\ Owed(p) /\ Final(p) >= resume =>
        IF HasApplier THEN Applied(p) ELSE \A s \in Sinks \ Failing : <<p, s>> \in sunk
ReconnectSkipsNothing == [][Reconnects /\ ~Temporary => SkippedDelivered]_vars

\* The resume LSN never moves back while the process lives.
ResumeNeverRegresses == [][phase # "down" => resume' >= resume]_vars

\* Once failures cease, every committed row reaches the target, unless the
\* applier has lost its connection, which only a restart reopens.
EventuallyApplied ==
    \A p \in Positions :
        HasApplier /\ HasStatement(p) /\ Owed(p) =>
            (committed >= p ~> Applied(p) \/ ~targetUp)

-----------------------------------------------------------------------------
(* The inductive invariant behind TargetLosesNothing and TargetAtomic: every  *)
(* LSN that can reach the slot is covered by what has been applied, the       *)
(* channel is the gap between server and session, and the buffer is the part  *)
(* of the current transaction the session has seen.                           *)

\* Every owed row of a transaction that commits before lsn is on the target.
Cleared(lsn) ==
    \A p \in Positions : HasStatement(p) /\ Owed(p) /\ Final(p) < lsn => Applied(p)

\* Every position some component holds may safely be confirmed.
LsnsCleared ==
    /\ Cleared(confirmed)
    /\ Cleared(progress)
    /\ Cleared(resume)
    /\ Cleared(start)
    /\ \A d \in detached : Cleared(d.applied)

\* The session has nothing left to do for the transactions it has seen whole.
SeenApplied ==
    \A p \in 1 .. seen : HasStatement(p) /\ Owed(p) =>
        Applied(p) \/ (Type(seen) # "commit" /\ Final(p) = Final(seen))

\* The channel holds, without gaps, what the server has sent and the session
\* has not seen; a keepalive runs ahead of no transaction behind it.
ChannelContiguous ==
    /\ \A j \in 1 .. Len(chan) :
         LET before == IF j = 1 THEN seen ELSE chan[j - 1].at IN
         IF chan[j].type = "wal"
         THEN chan[j].at = before + 1
         ELSE /\ chan[j].at = before
              /\ \A p \in Positions : p > before => chan[j].lsn <= Final(p)
    /\ next = IF chan = <<>> THEN seen ELSE chan[Len(chan)].at
    /\ worker \in {"none", "starting"} => chan = <<>>
    /\ phase # "running" => worker = "none"

\* In the middle of a transaction the applier's buffer holds its rows so far.
BufferCurrent ==
    /\ HasApplier /\ seen # 0 => Type(seen) = "commit" \/
         /\ InOrder(buffer)
         /\ {buffer[k] : k \in DOMAIN buffer} = {p \in RowsOf(Final(seen)) : p <= seen}
    /\ ~HasApplier => buffer = <<>>

\* A session has never applied less than the position it would resume from.
ResumeBehind == phase # "down" => resume <= progress

TargetInv ==
    /\ TypeOK
    /\ ResumeBehind
    /\ ChannelContiguous
    /\ BufferCurrent
    /\ TargetAtomic
    /\ HasApplier /\ ~Temporary => LsnsCleared /\ SeenApplied

-----------------------------------------------------------------------------
(* The inductive invariant behind SinkLosesNothing: the session has offered    *)
(* every sink all it has seen, and every LSN that can reach the slot is        *)
(* covered by what was offered.                                                *)

\* The event at p reached every sink that does not fail.
Sent(p) == \A s \in Sinks \ Failing : <<p, s>> \in sunk

SentBefore(lsn) ==
    \A p \in Positions : Forwarded(p) /\ Owed(p) /\ Final(p) < lsn => Sent(p)

LsnsSent ==
    /\ SentBefore(confirmed)
    /\ SentBefore(progress)
    /\ SentBefore(resume)
    /\ SentBefore(start)
    /\ \A d \in detached : SentBefore(d.applied)

SeenSent == \A p \in 1 .. seen : Forwarded(p) /\ Owed(p) => Sent(p)

SinkInv ==
    /\ TypeOK
    /\ ChannelContiguous
    /\ ~Temporary => LsnsSent /\ SeenSent

-----------------------------------------------------------------------------
(* The inductive invariant behind OncePerProcess: what this process has        *)
(* applied lies before every LSN it can resume from and before every           *)
(* transaction the session has yet to finish.                                  *)

AppliedBefore(lsn) == \A j \in base + 1 .. Len(target) : Final(target[j][1]) < lsn

\* Every target transaction has a row.
NoEmptyTransaction == \A j \in DOMAIN target : target[j] # <<>>

\* A dead applier applies nothing more, wherever the session resumes.
NothingAppliedAgain ==
    ~(EmitBoundaries /\ Failing # {}) /\ targetUp =>
        /\ AppliedBefore(progress)
        /\ phase = "backoff" => AppliedBefore(resume)
        /\ worker = "starting" => AppliedBefore(start)
        /\ worker = "streaming" \/ chan # <<>> =>
             \A p \in Positions : p > seen => AppliedBefore(Final(p))

OnceInv == TargetInv /\ NoEmptyTransaction /\ OncePerProcess /\ NothingAppliedAgain

-----------------------------------------------------------------------------
(* Replicate implements AtLeastOnce *)

\* What the run owes its receiver, what of it has arrived, and what of it the
\* slot has let go.
Due     == {p \in Positions : Owed(p) /\ IF HasApplier THEN HasStatement(p) ELSE Forwarded(p)}
Arrived == {p \in Due : IF HasApplier THEN Applied(p) ELSE Sent(p)}
Skipped == {p \in Due : Final(p) < confirmed}

Promise == INSTANCE AtLeastOnce WITH
    Items <- Due, StandsFor <- [p \in Due |-> {p}], delivered <- Arrived,
    released <- Skipped, droppable <- {}

\* The slot lets go of a row, or of an event for the sinks, only when it is
\* committed on the target, or with every sink that does not fail; it never
\* takes back what it let go, and neither does the receiver.  Nothing is dropped.
KeepsPromise == Promise!Spec
=============================================================================
