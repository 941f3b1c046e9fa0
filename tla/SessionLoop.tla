------------------------------ MODULE SessionLoop ------------------------------
(***************************************************************************)
(* The session-loop that drives every long-running command: run a session, *)
(* classify its end, back off, run the next.  `replicate`, `listen` and    *)
(* `consume` differ in when a session counts as healthy and in where they  *)
(* look at the shutdown signal; `command` says which one it is.            *)
(***************************************************************************)
EXTENDS Integers

CONSTANTS
    Commands,     \* the commands whose sessions may be run
    MaxAttempts,  \* max_reconnect_attempts of each command, 0 = retry forever
    BaseMs,       \* reconnect_base_ms
    MaxMs,        \* reconnect_max_ms
    Width,        \* bits of the delay arithmetic (64 in the code)
    MaxSessions,  \* bound on the sessions of a run
    MaxOutages    \* bound on the times the server goes away or returns, or a session fails

Word == 2 ^ Width

ASSUME ParametersAssumption ==
    /\ Commands \subseteq {"replicate", "listen", "consume"}
    /\ MaxAttempts \in [Commands -> Nat]
    /\ Width \in Nat \ {0, 1}
    /\ \A n \in 0 .. Width : 2 ^ n \in Nat \ {0} /\ (n < Width => 2 ^ (n + 1) = 2 * 2 ^ n)
    /\ BaseMs \in 0 .. Word - 1
    /\ MaxMs \in 0 .. Word - 1
    /\ MaxSessions \in Nat
    /\ MaxOutages \in Nat

VARIABLES
    command,    \* the command that runs
    phase,      \* where the run is
    failures,   \* consecutive_failures
    delay,      \* the delay chosen for the last backoff, 0 before the first
    signal,     \* the shutdown signal was received
    moved,      \* the running session advanced the LSN it started from
    up,         \* the server accepts and keeps connections
    outages,    \* times `up` has changed or a session has failed with the server up
    result,     \* how the run ended
    sessions,   \* sessions started
    refused,    \* history: sessions since the last connected one that never connected
    connected,  \* history: some session has connected
    late        \* history: sessions started after the signal

vars == <<command, phase, failures, delay, signal, moved, up, outages, result, sessions,
          refused, connected, late>>

Lesser(a, b) == IF a <= b THEN a ELSE b

-----------------------------------------------------------------------------
(* utils::backoff::delay *)

MutantScaled(attempt) ==   \* wrapping_mul
    (BaseMs * 2 ^ Lesser(attempt - 1, Width - 2)) % Word

\* base_ms << (attempt - 1): the shift is clamped, the product saturates.
Scaled(attempt) == Lesser(BaseMs * 2 ^ Lesser(attempt - 1, Width - 2), Word - 1)

\* Every delay the jitter may produce: +-20 %, in the arithmetic of the word.
Delays(attempt) ==
    LET base   == Lesser(Scaled(attempt), MaxMs)
        jitter == base \div 5
    IN  {Lesser((base - jitter + r) % Word, MaxMs) : r \in 0 .. 2 * jitter}

-----------------------------------------------------------------------------
(* The loop *)

\* The signal task reports SIGINT or SIGTERM.
Signal ==
    /\ ~signal
    /\ phase # "ended"
    /\ signal' = TRUE
    /\ UNCHANGED <<command, phase, failures, delay, moved, up, outages, result, sessions,
                   refused, connected, late>>

\* The server goes away, or returns.
ServerChanges ==
    /\ phase # "ended"
    /\ outages < MaxOutages
    /\ outages' = outages + 1
    /\ up' = ~up
    /\ UNCHANGED <<command, phase, failures, delay, signal, moved, result, sessions, refused,
                   connected, late>>

End(how) == phase' = "ended" /\ result' = how

MutantExhausted == failures >= MaxAttempts[command]   \* 0 is not special
Exhausted == MaxAttempts[command] > 0 /\ failures >= MaxAttempts[command]

GiveUp ==
    /\ phase = "top"
    /\ failures > 0
    /\ Exhausted
    /\ End("gave_up")
    /\ UNCHANGED <<command, failures, delay, signal, moved, up, outages, sessions, refused,
                   connected, late>>

BackOff ==
    /\ phase = "top"
    /\ failures > 0
    /\ ~Exhausted
    /\ delay' \in Delays(failures)
    /\ phase' = "backoff"
    /\ UNCHANGED <<command, failures, signal, moved, up, outages, result, sessions, refused,
                   connected, late>>

ShutdownInBackoff ==
    /\ phase = "backoff"
    /\ signal
    /\ End("ok")
    /\ UNCHANGED <<command, failures, delay, signal, moved, up, outages, sessions, refused,
                   connected, late>>

\* The factory is called: at once the first time, else when the delay is over
\* and, the select being biased, no signal is there.
MutantMayStart == (phase = "top" /\ failures = 0) \/ phase = "backoff"
MayStart == (phase = "top" /\ failures = 0) \/ (phase = "backoff" /\ ~signal)

StartSession ==
    /\ MayStart
    /\ sessions < MaxSessions
    /\ sessions' = sessions + 1
    /\ phase' = "connecting"
    /\ moved' = FALSE
    /\ late' = IF signal THEN late + 1 ELSE late
    /\ UNCHANGED <<command, failures, delay, signal, up, outages, result, refused, connected>>

\* What the loop makes of a session's outcome.
Reconnect == failures' = failures + 1 /\ phase' = "top"

MutantAfterHealthy == failures' = failures + 1 /\ phase' = "top"   \* no reset
ReconnectAfterHealthy == failures' = 1 /\ phase' = "top"

-----------------------------------------------------------------------------
(* The sessions *)

Connect ==
    /\ phase = "connecting"
    /\ up
    /\ phase' = "connected"
    /\ refused' = 0
    /\ connected' = TRUE
    /\ UNCHANGED <<command, failures, delay, signal, moved, up, outages, result, sessions, late>>

ConnectFails ==
    /\ phase = "connecting"
    /\ ~up
    /\ Reconnect
    /\ refused' = refused + 1
    /\ UNCHANGED <<command, delay, signal, moved, up, outages, result, sessions, connected, late>>

\* The session advances its LSN (replicate only).
Advance ==
    /\ command = "replicate"
    /\ phase = "connected"
    /\ ~moved
    /\ moved' = TRUE
    /\ UNCHANGED <<command, phase, failures, delay, signal, up, outages, result, sessions,
                   refused, connected, late>>

\* A connected session ends by an error: replicate counts it as healthy only if
\* its LSN moved.  listen polls the signal before its channel; consume and
\* replicate also leave their loops when settling or applying a message fails.
EndsByError ==
    /\ phase = "connected"
    /\ command = "listen" => ~signal
    /\ IF command = "replicate" /\ ~moved THEN Reconnect ELSE ReconnectAfterHealthy
    /\ UNCHANGED <<command, delay, signal, moved, up, result, sessions, refused, connected, late>>

\* The server is gone and takes the connection with it.
ConnectionDrops == ~up /\ EndsByError /\ UNCHANGED outages

\* With a server that is up: an event that cannot be applied, a failed ack, a
\* connection that was reset.
SessionFails ==
    /\ up
    /\ outages < MaxOutages
    /\ outages' = outages + 1
    /\ EndsByError

\* listen cannot build its TLS connector; consume aborts in strict mode.
SessionFatal ==
    /\ \/ command = "listen" /\ phase = "connecting"
       \/ command = "consume" /\ phase = "connected"
    /\ End("fatal")
    /\ UNCHANGED <<command, failures, delay, signal, moved, up, outages, sessions, refused,
                   connected, late>>

\* A session that watches the signal ends cleanly.  listen and consume do not
\* watch it while they connect.
MutantWatched == phase = "connecting" /\ command = "replicate"
Watched == phase = "connected" \/ (phase = "connecting" /\ command = "replicate")

SessionShutdown ==
    /\ Watched
    /\ signal
    /\ End("ok")
    /\ UNCHANGED <<command, failures, delay, signal, moved, up, outages, sessions, refused,
                   connected, late>>

-----------------------------------------------------------------------------
Init ==
    /\ command \in Commands
    /\ phase = "top"
    /\ failures = 0
    /\ delay = 0
    /\ signal = FALSE
    /\ moved = FALSE
    /\ up \in BOOLEAN
    /\ outages = 0
    /\ result = "none"
    /\ sessions = 0
    /\ refused = 0
    /\ connected = FALSE
    /\ late = 0

Loop    == GiveUp \/ BackOff \/ ShutdownInBackoff \/ StartSession
Session == Connect \/ ConnectFails \/ Advance \/ ConnectionDrops \/ SessionFails
           \/ SessionFatal \/ SessionShutdown

Next == Signal \/ ServerChanges \/ Loop \/ Session

Spec == Init /\ [][Next]_vars

\* The runtime polls the loop and the session; a connection attempt ends, and
\* a session looks at the signal.  Nothing makes the server return or a session fail.
Fairness == WF_vars(Loop) /\ WF_vars(Connect \/ ConnectFails) /\ WF_vars(SessionShutdown)
            /\ WF_vars(ConnectionDrops)

FairSpec == Spec /\ Fairness

-----------------------------------------------------------------------------
(* Properties *)

\* Every variable keeps its type.
TypeOK ==
    /\ command \in Commands
    /\ phase \in {"top", "backoff", "connecting", "connected", "ended"}
    /\ failures \in Nat
    /\ delay \in Nat
    /\ signal \in BOOLEAN
    /\ moved \in BOOLEAN
    /\ up \in BOOLEAN
    /\ outages \in 0 .. MaxOutages
    /\ result \in {"none", "ok", "gave_up", "fatal"}
    /\ sessions \in 0 .. MaxSessions
    /\ refused \in Nat
    /\ connected \in BOOLEAN
    /\ late \in Nat

\* A run gives up only for connections that could not be made: as many refused
\* sessions in a row as attempts are allowed, the drop of a healthy session
\* before them counting as one.  (A replicate session that connected but whose
\* LSN did not move counts as refused, too, so for replicate it does not hold.)
GivesUpForRefusals ==
    command # "replicate" /\ result = "gave_up" =>
        refused >= IF connected THEN MaxAttempts[command] - 1 ELSE MaxAttempts[command]

\* After the signal no session starts, but for the very first, which no backoff
\* precedes.
OnlyFirstSessionLate == late > 0 => sessions = 1

\* Jitter never defeats the backoff: the delay is never beyond the cap nor, for
\* a base above zero, nil, and from one failure to the next it does not fall
\* below two thirds of what it was (unless the cap is close to the word size).
BackoffHolds ==
    [][/\ 6 * MaxMs < 5 * Word
       /\ phase = "top" /\ phase' = "backoff"
       => /\ delay' <= MaxMs
          /\ BaseMs > 0 /\ MaxMs > 0 => delay' > 0
          /\ failures > 1 => 3 * delay' >= 2 * delay]_vars

\* The signal always ends the run.
SignalEnds == signal ~> phase = "ended"

\* A run that may retry for ever and is not signalled stays connected once the
\* server is back for good and its sessions have ceased to fail.
Reconnects ==
    MaxAttempts[command] = 0 /\ <>[](up /\ ~signal)
        => <>[](phase = "connected" \/ result = "fatal" \/ sessions = MaxSessions)

-----------------------------------------------------------------------------
(* The inductive invariant *)

\* What the failure counter may stand for: the refusals since the last healthy
\* session, and that session's drop.
Counted == refused + (IF connected THEN 1 ELSE 0)

\* The counter never exceeds what it stands for.
FailuresCounted ==
    command # "replicate" =>
        /\ phase \in {"top", "backoff", "connecting"} => failures <= Counted
        /\ phase = "connected" => connected
        /\ result = "gave_up" => failures >= MaxAttempts[command] /\ failures <= Counted
        /\ result # "none" => phase = "ended"

\* Only the first session follows no failure.
LateCounted ==
    /\ late > 0 => signal /\ sessions = 1
    /\ phase = "top" /\ failures = 0 => sessions = 0 /\ late = 0

\* The delay is the one chosen for the failure before the running session, or
\* before the one that has just failed.
DelayFollows ==
    /\ phase \in {"backoff", "connecting", "connected"} /\ failures > 0
         => delay \in Delays(failures)
    /\ phase = "top" /\ failures > 1 => delay \in Delays(failures - 1)

LoopInv == TypeOK /\ FailuresCounted /\ LateCounted /\ DelayFollows
=============================================================================
