--------------------------------- MODULE Listen ---------------------------------
(***************************************************************************)
(* A session of `pgx listen`: the client LISTENs on every channel; a       *)
(* Drainer task reads the connection and puts notifications into a bounded *)
(* channel; the event loop takes them out and hands them to the sink.  The *)
(* Drainer owns the only sender, so the end of the connection closes the   *)
(* channel and ends the loop.                                              *)
(*                                                                         *)
(*   server --wire--> Drainer --chan--> event loop --> sink                *)
(*                                                                         *)
(* Notifications are numbered in the order of their commits.  The module   *)
(* leaves the sink open: ListenDelivery completes it.                      *)
(***************************************************************************)
EXTENDS Integers, Sequences

CONSTANTS
    Channels,          \* the channels given with -C, in order
    Behaviors,         \* the --channel-full-behavior values a run may have
    Capacity,          \* mpsc capacity for each of them (1024, 1024, 100_000)
    MaxNotifications,  \* bound on the notifications published
    MaxFaults          \* bound on the failures the environment injects

ASSUME ListenAssumption ==
    /\ Channels \in Seq({"c1", "c2"})
    /\ Behaviors \subseteq {"drop_oldest", "block", "grow"}
    /\ Capacity \in [Behaviors -> Nat \ {0}]
    /\ MaxNotifications \in Nat
    /\ MaxFaults \in Nat

VARIABLES
    behavior,   \* the behaviour chosen for the run
    published,  \* server: notifications so far
    listening,  \* server: channels the backend of the session listens on
    wire,       \* what the server sent and the Drainer has not read
    link,       \* the connection: "none", "up" or "broken"
    drainer,    \* "none", "running", "parked" or "done"
    chan,       \* the bounded channel
    phase,      \* the session, and the loop around it
    asked,      \* channels LISTENed so far
    signal,     \* the shutdown signal was received
    offered,    \* notifications handed to the sink, in order
    arrived,    \* history: notifications that reached the connection
    dropped,    \* history: notifications dropped because chan was full
    faults      \* failures injected so far

connVars    == <<published, listening, wire, link, arrived>>
drainVars   == <<drainer, chan, dropped>>
loopVars    == <<phase, asked, signal, offered>>
listenVars  == <<behavior, connVars, drainVars, loopVars, faults>>

Elems(s) == {s[k] : k \in DOMAIN s}

\* On the wire: a notification's number, or the answer to a LISTEN.
Ready == 0

Fault == faults < MaxFaults /\ faults' = faults + 1

-----------------------------------------------------------------------------
(* The server and the connection *)

\* A notification reaches the sessions that listen on its channel.
Publish(c) ==
    /\ published < MaxNotifications
    /\ published' = published + 1
    /\ IF c \in listening
       THEN /\ wire' = Append(wire, published + 1)
            /\ arrived' = arrived \cup {published + 1}
       ELSE UNCHANGED <<wire, arrived>>
    /\ UNCHANGED <<behavior, listening, link, drainVars, loopVars, faults>>

\* The connection breaks: some tail of what was sent is lost with it.
LinkBreaks ==
    /\ link = "up"
    /\ Fault
    /\ link' = "broken"
    /\ listening' = {}
    /\ \E k \in 0 .. Len(wire) :
         /\ wire' = SubSeq(wire, 1, k)
         /\ arrived' = arrived \ {wire[j] : j \in k + 1 .. Len(wire)}
    /\ UNCHANGED <<behavior, published, drainVars, loopVars>>

-----------------------------------------------------------------------------
(* The Drainer *)

Room == Len(chan) < Capacity[behavior]

\* A message that is not a notification: here, the answer to a LISTEN.
DrainReply ==
    /\ drainer = "running"
    /\ wire # <<>>
    /\ Head(wire) = Ready
    /\ wire' = Tail(wire)
    /\ phase' = IF asked < Len(Channels) THEN "listen" ELSE "loop"
    /\ UNCHANGED <<behavior, published, listening, link, arrived, drainVars, asked, signal,
                   offered, faults>>

\* try_send succeeds.
Drain ==
    /\ drainer = "running"
    /\ wire # <<>>
    /\ Head(wire) # Ready
    /\ Room
    /\ wire' = Tail(wire)
    /\ chan' = Append(chan, Head(wire))
    /\ UNCHANGED <<behavior, published, listening, link, arrived, drainer, dropped, loopVars,
                   faults>>

\* try_send fails and the notification is gone.  `block` returns Pending although
\* no waker is registered: only a request of the client polls the task again.
DrainFull ==
    /\ drainer = "running"
    /\ wire # <<>>
    /\ Head(wire) # Ready
    /\ ~Room
    /\ wire' = Tail(wire)
    /\ drainer' = IF behavior = "block" THEN "parked" ELSE drainer
    /\ dropped' = IF behavior = "block" THEN dropped ELSE dropped \cup {Head(wire)}
    /\ UNCHANGED <<behavior, published, listening, link, arrived, chan, loopVars, faults>>

\* The end of the connection ends the task and drops the sender.
DrainEnds ==
    /\ drainer = "running"
    /\ wire = <<>>
    /\ link = "broken"
    /\ drainer' = "done"
    /\ UNCHANGED <<behavior, connVars, chan, dropped, loopVars, faults>>

-----------------------------------------------------------------------------
(* The session *)

\* The session's client, Drainer and channel go; what they held goes with them.
DropSession ==
    /\ link' = "none"
    /\ listening' = {}
    /\ wire' = <<>>
    /\ drainer' = "none"
    /\ chan' = <<>>
    /\ asked' = 0

\* The session-loop starts a session, and it connects.  (What a signal does to
\* the very first session is SessionLoop's matter.)
Connect ==
    /\ phase = "backoff"
    /\ ~signal
    /\ phase' = "listen"
    /\ link' = "up"
    /\ drainer' = "running"
    /\ UNCHANGED <<behavior, published, listening, wire, arrived, chan, dropped, asked, signal,
                   offered, faults>>

\* LISTEN on the next channel; the request polls the Drainer.
NextAsked == asked + 1
Subscribe ==
    /\ phase = "listen"
    /\ drainer # "done"
    /\ phase' = "asked"
    /\ asked' = NextAsked
    /\ drainer' = IF drainer = "parked" THEN "running" ELSE drainer
    /\ IF link = "up"
       THEN /\ listening' = listening \cup {Channels[asked + 1]}
            /\ wire' = Append(wire, Ready)
       ELSE UNCHANGED <<listening, wire>>
    /\ UNCHANGED <<behavior, published, link, arrived, chan, dropped, signal, offered, faults>>

\* LISTEN fails, with its connection or by the server's error.
SubscribeFails ==
    /\ phase \in {"listen", "asked"}
    /\ \/ drainer = "done" /\ UNCHANGED faults
       \/ drainer # "done" /\ Fault
    /\ phase' = "backoff"
    /\ arrived' = arrived \ (Elems(wire) \cup Elems(chan))
    /\ DropSession
    /\ UNCHANGED <<behavior, published, dropped, signal, offered>>

\* rx.recv yields the oldest notification and sink.send begins.
Taken == Head(chan)
Recv ==
    /\ phase = "loop"
    /\ ~signal
    /\ chan # <<>>
    /\ phase' = "sending"
    /\ offered' = Append(offered, Taken)
    /\ chan' = Tail(chan)
    /\ UNCHANGED <<behavior, connVars, drainer, dropped, asked, signal, faults>>

\* sink.send returns; an error is only logged.
Sent ==
    /\ phase = "sending"
    /\ phase' = "loop"
    /\ UNCHANGED <<behavior, connVars, drainVars, asked, signal, offered, faults>>

\* rx.recv yields None: the channel is empty and the only sender is gone.
MutantClosed == FALSE                \* a clone of the sender lives on
MutantClosedEarly == drainer = "done"   \* the end of the task ends the loop
Closed == drainer = "done" /\ chan = <<>>
RecvNone ==
    /\ phase = "loop"
    /\ ~signal
    /\ Closed
    /\ phase' = "backoff"
    /\ DropSession
    /\ UNCHANGED <<behavior, published, arrived, dropped, signal, offered, faults>>

Signal ==
    /\ ~signal
    /\ signal' = TRUE
    /\ UNCHANGED <<behavior, connVars, drainVars, phase, asked, offered, faults>>

\* The signal ends the loop, or the backoff, and with it the run.
MutantWatching == phase = "loop"   \* the backoff sleeps on
Watching == phase \in {"loop", "backoff"}
Shutdown ==
    /\ Watching
    /\ signal
    /\ phase' = "ended"
    /\ DropSession
    /\ UNCHANGED <<behavior, published, arrived, dropped, signal, offered, faults>>

-----------------------------------------------------------------------------
ListenInit ==
    /\ behavior \in Behaviors
    /\ published = 0
    /\ listening = {}
    /\ wire = <<>>
    /\ link = "none"
    /\ drainer = "none"
    /\ chan = <<>>
    /\ phase = "backoff"
    /\ asked = 0
    /\ signal = FALSE
    /\ offered = <<>>
    /\ arrived = {}
    /\ dropped = {}
    /\ faults = 0

DrainNext == DrainReply \/ Drain \/ DrainFull \/ DrainEnds
ServerNext == (\E c \in Elems(Channels) : Publish(c)) \/ LinkBreaks
LoopNext  == Connect \/ Subscribe \/ SubscribeFails \/ Recv \/ Sent \/ RecvNone
             \/ Signal \/ Shutdown

ListenNext == ServerNext \/ DrainNext \/ LoopNext
ListenSpec == ListenInit /\ [][ListenNext]_listenVars

-----------------------------------------------------------------------------
(* Properties *)

\* Until the run ends, a notification that reached the connection is on its way,
\* was offered to the sink, or found the channel full: the end of a connection
\* loses nothing the channel holds.  (`block` loses what it should wait for.)
NothingVanishes ==
    behavior # "block" /\ phase # "ended" =>
        arrived \subseteq Elems(wire) \cup Elems(chan) \cup Elems(offered) \cup dropped
=============================================================================
