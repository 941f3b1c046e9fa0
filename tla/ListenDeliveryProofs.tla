-------------------------- MODULE ListenDeliveryProofs --------------------------
(***************************************************************************)
(* Proofs about `pgx listen`: what the session of Listen loses, the order  *)
(* in which the receivers of ListenDelivery see notifications, what a send *)
(* that returned Ok stands for, and that the BulkBuffer of Elasticsearch   *)
(* posts no document twice.                                                *)
(***************************************************************************)
EXTENDS ListenDelivery, FiniteSetTheorems, SequenceTheorems, TLAPS

Numbers == 1 .. MaxNotifications

-----------------------------------------------------------------------------
(* The inductive invariant of the session *)

ListenTypeOK ==
    /\ behavior \in Behaviors
    /\ published \in Nat
    /\ published <= MaxNotifications
    /\ wire \in Seq({Ready} \cup Numbers)
    /\ link \in {"none", "up", "broken"}
    /\ drainer \in {"none", "running", "parked", "done"}
    /\ chan \in Seq(Numbers)
    /\ phase \in {"backoff", "listen", "asked", "loop", "sending", "ended"}
    /\ asked \in Nat
    /\ offered \in Seq(Numbers)
    /\ arrived \subseteq Numbers
    /\ dropped \subseteq Numbers

\* Between sessions nothing runs; a Drainer that ended has read everything; at
\* most one answer to a LISTEN is on its way, and the session waits for it.
SessionShape ==
    /\ phase \in {"backoff", "ended"} => drainer = "none"
    /\ drainer = "done" => wire = <<>> /\ link # "up"
    /\ listening # {} => link = "up"
    /\ \A j, k \in DOMAIN wire : wire[j] = Ready /\ wire[k] = Ready => j = k
    /\ phase # "asked" => Ready \notin Elems(wire)

\* Offered, then in the channel, then on the wire, then not yet published: each
\* part in order, and all of one part before all of the next.
Rising(s) == \A j, k \in DOMAIN s : j < k => s[j] < s[k] \/ s[k] = Ready
Before(s, t) == \A j \in DOMAIN s, k \in DOMAIN t : s[j] < t[k] \/ t[k] = Ready
InSequence ==
    /\ Rising(offered) /\ Rising(chan) /\ Rising(wire)
    /\ Before(offered, chan) /\ Before(offered, wire) /\ Before(chan, wire)
    /\ \A k \in DOMAIN offered : offered[k] <= published
    /\ \A k \in DOMAIN chan : chan[k] <= published
    /\ \A k \in DOMAIN wire : wire[k] <= published

ListenInv == ListenTypeOK /\ SessionShape /\ InSequence /\ NothingVanishes

-----------------------------------------------------------------------------
(* The inductive invariant of the delivery *)

DeliveryTypeOK ==
    /\ kind \in SinkKinds
    /\ mode \in {"simple", "contract"}
    /\ push \in {"none", "call", "flush", "post", "done"}
    /\ attempt \in Nat
    /\ attempt <= Retries
    /\ amqp \in {"open", "closed"}
    /\ pipe \in Seq(Numbers)
    /\ gone \subseteq Numbers
    /\ reached \in Seq(Numbers \X {"default", "hint"})
    /\ accepted \subseteq Numbers

BulkTypeOK ==
    /\ lines \in Seq(Numbers)
    /\ batch \in [Tasks -> Seq(Numbers)]
    /\ DOMAIN received \subseteq Numbers
    /\ refused \subseteq Numbers

\* The sink works on the last notification offered, and on nothing otherwise.
SinkShape ==
    /\ push # "none" <=> phase = "sending"
    /\ push # "none" => offered # <<>>
    /\ push \in {"flush", "post"} => kind = "elasticsearch"
    /\ push # "post" => batch["pusher"] = <<>>
    /\ pipe # <<>> => kind = "rabbitmq"
    /\ lines # <<>> => kind = "elasticsearch"

\* The copies of a notification that were delivered.
CopiesOf(n) == {k \in DOMAIN reached : reached[k][1] = n}
Most == CASE kind = "webhook" -> Retries + 1 [] kind = "kafka" -> 2 [] OTHER -> 1

\* Deliveries follow the order of the offers and keep what their kind allows; what
\* waits in the pipe comes after all of them.
DeliveryOrder ==
    /\ \A j, k \in DOMAIN reached : j < k => reached[j][1] <= reached[k][1]
    /\ \A k \in DOMAIN reached : /\ reached[k][1] \in Elems(offered)
                                 /\ reached[k][2] = Destination(reached[k][1])
    /\ \A n \in Numbers : Cardinality(CopiesOf(n)) <= Most
    /\ push = "call" => Cardinality(CopiesOf(InHand)) <= IF kind = "webhook" THEN attempt ELSE 0
    /\ Rising(pipe)
    /\ \A k \in DOMAIN pipe : pipe[k] \in Elems(offered)
    /\ \A j \in DOMAIN reached, k \in DOMAIN pipe : reached[j][1] < pipe[k]
    /\ push = "call" => InHand \notin Elems(pipe)

\* Where the buffer has a document.
Places == DOMAIN received \cup DocsOf(lines) \cup InFlight \cup refused

\* No two of the places a document can be posted from, or was posted to, share one.
Once(s) == \A j, k \in DOMAIN s : s[j] = s[k] => j = k
Apart(S, T) == S \cap T = {}
BulkApart ==
    /\ Once(lines)
    /\ \A d \in DOMAIN received : received[d] = 1
    /\ Apart(DOMAIN received, DocsOf(lines))
    /\ \A t \in Tasks : /\ Once(batch[t])
                        /\ Apart(DOMAIN received, DocsOf(batch[t]))
                        /\ Apart(DocsOf(lines), DocsOf(batch[t]))
    /\ \A t, u \in Tasks : t # u => Apart(DocsOf(batch[t]), DocsOf(batch[u]))

\* A document enters the buffer with the call of its notification and not before.
BulkFresh ==
    /\ Places \subseteq Elems(offered)
    /\ push = "call" => InHand \notin Places
    /\ push \in {"flush", "post"} => InHand \in Places

DeliveryInv ==
    /\ DeliveryTypeOK /\ BulkTypeOK /\ SinkShape
    /\ DeliveryOrder /\ BulkApart /\ BulkFresh /\ AcceptedReached

IInv == ListenInv /\ DeliveryInv
-----------------------------------------------------------------------------
(* Sequences of notifications *)

LEMMA EmptyFacts ==
    /\ Elems(<<>>) = {} /\ DocsOf(<<>>) = {} /\ Rising(<<>>) /\ Once(<<>>)
    /\ \A s : Before(<<>>, s) /\ Before(s, <<>>)
  BY DEF Elems, DocsOf, Rising, Once, Before

LEMMA AppendFacts ==
    ASSUME NEW S, NEW s \in Seq(S), NEW e \in S
    PROVE  /\ Append(s, e) \in Seq(S)
           /\ Append(s, e) # <<>>
           /\ Len(Append(s, e)) = Len(s) + 1
           /\ Len(s) \in Nat
           /\ DOMAIN s = 1 .. Len(s)
           /\ DOMAIN Append(s, e) = 1 .. Len(s) + 1
           /\ \A k \in DOMAIN s : Append(s, e)[k] = s[k]
           /\ Append(s, e)[Len(s) + 1] = e
           /\ Elems(Append(s, e)) = Elems(s) \cup {e}
           /\ DocsOf(Append(s, e)) = DocsOf(s) \cup {e}
  <1>1. /\ Append(s, e) \in Seq(S)
        /\ Append(s, e) # <<>>
        /\ Len(Append(s, e)) = Len(s) + 1
        /\ Len(s) \in Nat
        /\ DOMAIN s = 1 .. Len(s)
        /\ DOMAIN Append(s, e) = 1 .. Len(s) + 1
        /\ \A k \in 1 .. Len(s) : Append(s, e)[k] = s[k]
        /\ Append(s, e)[Len(s) + 1] = e
    OBVIOUS
  <1>2. {Append(s, e)[k] : k \in 1 .. Len(s) + 1} = {s[k] : k \in 1 .. Len(s)} \cup {e}
    BY <1>1
  <1> QED
    BY <1>1, <1>2 DEF Elems, DocsOf

LEMMA TailFacts ==
    ASSUME NEW S, NEW s \in Seq(S), s # <<>>
    PROVE  /\ Tail(s) \in Seq(S)
           /\ Head(s) \in S
           /\ Head(s) = s[1]
           /\ Len(s) \in Nat \ {0}
           /\ DOMAIN s = 1 .. Len(s)
           /\ Len(Tail(s)) = Len(s) - 1
           /\ DOMAIN Tail(s) = 1 .. Len(s) - 1
           /\ \A k \in 1 .. Len(s) - 1 : Tail(s)[k] = s[k + 1]
           /\ Elems(s) = {Head(s)} \cup Elems(Tail(s))
  <1>1. /\ Tail(s) \in Seq(S)
        /\ Head(s) \in S
        /\ Head(s) = s[1]
        /\ Len(s) \in Nat \ {0}
        /\ DOMAIN s = 1 .. Len(s)
        /\ Len(Tail(s)) = Len(s) - 1
        /\ DOMAIN Tail(s) = 1 .. Len(s) - 1
        /\ \A k \in 1 .. Len(s) - 1 : Tail(s)[k] = s[k + 1]
    OBVIOUS
  <1>2. ASSUME NEW k \in 1 .. Len(s), k # 1
        PROVE  \E j \in 1 .. Len(s) - 1 : s[k] = Tail(s)[j]
    <2>1. k - 1 \in 1 .. Len(s) - 1 /\ (k - 1) + 1 = k
      BY <1>1, <1>2
    <2> QED
      BY <1>1, <2>1
  <1>3. \A k \in 1 .. Len(s) - 1 : k + 1 \in 1 .. Len(s) /\ 1 \in 1 .. Len(s)
    BY <1>1
  <1>4. {s[k] : k \in 1 .. Len(s)} = {s[1]} \cup {Tail(s)[k] : k \in 1 .. Len(s) - 1}
    BY <1>1, <1>2, <1>3
  <1> QED
    BY <1>1, <1>4 DEF Elems

\* The last of a sequence, when it is not empty.
LEMMA LastFacts ==
    ASSUME NEW S, NEW s \in Seq(S), s # <<>>
    PROVE  Len(s) \in DOMAIN s /\ s[Len(s)] \in S /\ s[Len(s)] \in Elems(s)
  <1>1. Len(s) \in DOMAIN s /\ s[Len(s)] \in S
    OBVIOUS
  <1> QED
    BY <1>1 DEF Elems

\* Adding what comes after a sequence, and taking from its front, keep its order.
LEMMA OrderAppend ==
    ASSUME NEW S \in SUBSET Nat, NEW s \in Seq(S), NEW e \in S, Rising(s),
           e = Ready \/ \A k \in DOMAIN s : s[k] < e
    PROVE  /\ Rising(Append(s, e))
           /\ \A t : Before(t, s) /\ (e = Ready \/ \A k \in DOMAIN t : t[k] < e)
                        => Before(t, Append(s, e))
           /\ \A t : Before(s, t) /\ (\A k \in DOMAIN t : t[k] = Ready \/ e < t[k])
                        => Before(Append(s, e), t)
  <1>1. /\ DOMAIN s = 1 .. Len(s) /\ Len(s) \in Nat
        /\ DOMAIN Append(s, e) = 1 .. Len(s) + 1
        /\ \A k \in 1 .. Len(s) : Append(s, e)[k] = s[k]
        /\ Append(s, e)[Len(s) + 1] = e
    BY AppendFacts
  <1>2. \A k \in 1 .. Len(s) + 1 : k \in 1 .. Len(s) \/ k = Len(s) + 1
    BY <1>1
  <1>3. Rising(Append(s, e))
    BY <1>1, <1>2 DEF Rising
  <1> QED
    BY <1>1, <1>2, <1>3 DEF Before

LEMMA OrderTail ==
    ASSUME NEW S \in SUBSET Nat, NEW s \in Seq(S), s # <<>>, Rising(s)
    PROVE  /\ Rising(Tail(s))
           /\ \A t : Before(t, s) => Before(t, Tail(s))
           /\ \A t : Before(s, t) => Before(Tail(s), t)
           /\ \A k \in DOMAIN Tail(s) : Head(s) < Tail(s)[k] \/ Tail(s)[k] = Ready
  <1>1. /\ DOMAIN s = 1 .. Len(s) /\ Len(s) \in Nat \ {0} /\ Head(s) = s[1]
        /\ DOMAIN Tail(s) = 1 .. Len(s) - 1
        /\ \A k \in 1 .. Len(s) - 1 : Tail(s)[k] = s[k + 1]
    BY TailFacts
  <1>2. \A k \in 1 .. Len(s) - 1 : k + 1 \in 1 .. Len(s) /\ 1 < k + 1
    BY <1>1
  <1>3. \A j, k \in 1 .. Len(s) - 1 : j < k => j + 1 < k + 1
    BY <1>1
  <1>4. Rising(Tail(s))
    BY <1>1, <1>2, <1>3 DEF Rising
  <1>5. \A k \in DOMAIN Tail(s) : Head(s) < Tail(s)[k] \/ Tail(s)[k] = Ready
    BY <1>1, <1>2 DEF Rising
  <1> QED
    BY <1>1, <1>2, <1>4, <1>5 DEF Before
-----------------------------------------------------------------------------
(* The session *)

\* What a step of the delivery does to the session: one of its own steps, or
\* nothing but a failure counted.
ListenSteps == ListenNext \/ UNCHANGED <<behavior, connVars, drainVars, loopVars>>

LEMMA NumbersFacts ==
    /\ Numbers \subseteq Nat \ {0}
    /\ {Ready} \cup Numbers \subseteq Nat
    /\ Ready \notin Numbers
  BY ListenAssumption DEF Numbers, Ready

LEMMA ListenInitially == ListenInit => ListenInv
  <1> SUFFICES ASSUME ListenInit PROVE ListenInv
    OBVIOUS
  <1>1. ListenTypeOK
    BY ListenAssumption DEF ListenInit, ListenTypeOK
  <1>2. SessionShape
    BY EmptyFacts DEF ListenInit, SessionShape
  <1>3. InSequence
    BY EmptyFacts DEF ListenInit, InSequence
  <1> QED
    BY <1>1, <1>2, <1>3 DEF ListenInv, ListenInit, NothingVanishes

LEMMA ListenTypesKept ==
    ASSUME ListenTypeOK, SessionShape, ListenSteps PROVE ListenTypeOK'
  <1> USE NumbersFacts DEF ListenTypeOK
  <1>1. CASE \E c \in Elems(Channels) : Publish(c)
    <2>1. published + 1 \in Numbers
      BY <1>1, ListenAssumption DEF Publish, Numbers
    <2>2. Append(wire, published + 1) \in Seq({Ready} \cup Numbers)
      BY <2>1
    <2>3. /\ published' = published + 1 /\ published < MaxNotifications
          /\ wire' \in {wire, Append(wire, published + 1)}
          /\ arrived' \in {arrived, arrived \cup {published + 1}}
          /\ UNCHANGED <<behavior, link, drainer, chan, dropped, phase, asked, offered>>
      BY <1>1 DEF Publish, drainVars, loopVars
    <2>4. wire' \in Seq({Ready} \cup Numbers)
      BY <2>2, <2>3
    <2> QED
      BY <2>1, <2>3, <2>4, ListenAssumption
  <1>2. CASE LinkBreaks
    <2>1. \A k \in 0 .. Len(wire) : SubSeq(wire, 1, k) \in Seq({Ready} \cup Numbers)
      OBVIOUS
    <2> QED
      BY <1>2, <2>1 DEF LinkBreaks, drainVars, loopVars
  <1>3. CASE DrainReply \/ DrainEnds
    <2>1. wire # <<>> => Tail(wire) \in Seq({Ready} \cup Numbers)
      BY TailFacts
    <2> QED
      BY <1>3, <2>1 DEF DrainReply, DrainEnds, connVars, drainVars, loopVars
  <1>4. CASE Drain \/ DrainFull
    <2>1. Head(wire) \in Numbers /\ Tail(wire) \in Seq({Ready} \cup Numbers)
      BY <1>4, TailFacts DEF Drain, DrainFull
    <2>2. Append(chan, Head(wire)) \in Seq(Numbers)
      BY <2>1
    <2> QED
      BY <1>4, <2>1, <2>2 DEF Drain, DrainFull, loopVars
  <1>5. CASE Subscribe
    <2>1. Append(wire, Ready) \in Seq({Ready} \cup Numbers)
      OBVIOUS
    <2>2. /\ wire' \in {wire, Append(wire, Ready)}
          /\ drainer' \in {drainer, "running"}
          /\ asked' = asked + 1 /\ phase' = "asked"
          /\ UNCHANGED <<behavior, published, link, arrived, chan, dropped, offered>>
      BY <1>5 DEF Subscribe, NextAsked
    <2>3. wire' \in Seq({Ready} \cup Numbers)
      BY <2>1, <2>2
    <2> QED
      BY <2>2, <2>3
  <1>6. CASE Recv
    <2>1. Taken \in Numbers /\ Tail(chan) \in Seq(Numbers)
      BY <1>6, TailFacts DEF Recv, Taken
    <2>2. Append(offered, Taken) \in Seq(Numbers)
      BY <2>1
    <2> QED
      BY <1>6, <2>1, <2>2 DEF Recv, connVars
  <1>7. CASE Connect \/ Sent \/ Signal
    BY <1>7 DEF Connect, Sent, Signal, connVars, drainVars
  <1>8. CASE SubscribeFails \/ RecvNone \/ Shutdown
    <2>1. <<>> \in Seq({Ready} \cup Numbers) /\ <<>> \in Seq(Numbers)
      OBVIOUS
    <2>2. /\ wire' = <<>> /\ chan' = <<>> /\ link' = "none" /\ drainer' = "none" /\ asked' = 0
          /\ phase' \in {"backoff", "ended"} /\ arrived' \subseteq arrived
          /\ UNCHANGED <<behavior, published, dropped, offered>>
      BY <1>8 DEF SubscribeFails, RecvNone, Shutdown, DropSession
    <2> QED
      BY <2>1, <2>2
  <1>9. CASE UNCHANGED <<behavior, connVars, drainVars, loopVars>>
    BY <1>9 DEF connVars, drainVars, loopVars
  <1> QED
    BY <1>1, <1>2, <1>3, <1>4, <1>5, <1>6, <1>7, <1>8, <1>9
       DEF ListenSteps, ListenNext, ServerNext, DrainNext, LoopNext

LEMMA SessionShapeKept ==
    ASSUME ListenTypeOK, SessionShape, ListenSteps PROVE SessionShape'
  <1> USE NumbersFacts
  <1>1. CASE \E c \in Elems(Channels) : Publish(c)
    <2>1. PICK c \in Elems(Channels) : Publish(c)
      BY <1>1
    <2>2. UNCHANGED <<listening, link, drainer, phase>>
      BY <2>1 DEF Publish, drainVars, loopVars
    <2>3. CASE c \in listening
      <3>1. /\ wire \in Seq({Ready} \cup Numbers) /\ published + 1 \in Numbers
            /\ wire' = Append(wire, published + 1)
        BY <2>1, <2>3, ListenAssumption DEF Publish, ListenTypeOK, Numbers
      <3>2. /\ DOMAIN wire' = 1 .. Len(wire) + 1 /\ DOMAIN wire = 1 .. Len(wire)
            /\ \A k \in DOMAIN wire : wire'[k] = wire[k]
            /\ wire'[Len(wire) + 1] # Ready
            /\ Elems(wire') = Elems(wire) \cup {published + 1}
            /\ Len(wire) \in Nat
        BY <3>1, AppendFacts
      <3>3. link = "up"
        BY <2>3 DEF SessionShape
      <3> QED
        BY <2>2, <3>1, <3>2, <3>3 DEF SessionShape
    <2>4. CASE c \notin listening
      BY <2>1, <2>2, <2>4 DEF Publish, SessionShape
    <2> QED
      BY <2>3, <2>4
  <1>2. CASE LinkBreaks
    <2>1. PICK k \in 0 .. Len(wire) : wire' = SubSeq(wire, 1, k)
      BY <1>2 DEF LinkBreaks
    <2>2. /\ DOMAIN wire' \subseteq DOMAIN wire
          /\ \A j \in DOMAIN wire' : wire'[j] = wire[j]
      BY <2>1 DEF ListenTypeOK
    <2>3. Elems(wire') \subseteq Elems(wire)
      BY <2>2 DEF Elems
    <2>4. drainer # "done"
      BY <1>2 DEF LinkBreaks, SessionShape
    <2> QED
      BY <1>2, <2>2, <2>3, <2>4 DEF LinkBreaks, SessionShape, drainVars, loopVars
  <1>3. CASE DrainReply \/ Drain \/ DrainFull
    <2>1. /\ wire # <<>> /\ wire' = Tail(wire) /\ drainer = "running"
          /\ drainer' \in {"running", "parked"} /\ UNCHANGED <<listening, link>>
          /\ phase' \in {phase, "listen", "loop"} /\ (Head(wire) # Ready => phase' = phase)
      BY <1>3 DEF DrainReply, Drain, DrainFull, drainVars, loopVars
    <2>2. /\ DOMAIN wire = 1 .. Len(wire) /\ Len(wire) \in Nat \ {0} /\ Head(wire) = wire[1]
          /\ DOMAIN wire' = 1 .. Len(wire) - 1
          /\ \A k \in 1 .. Len(wire) - 1 : wire'[k] = wire[k + 1]
          /\ Elems(wire') \subseteq Elems(wire)
      BY <2>1, TailFacts DEF ListenTypeOK
    <2>3. \A k \in 1 .. Len(wire) - 1 : k + 1 \in 1 .. Len(wire) /\ k + 1 # 1 /\ 1 \in 1 .. Len(wire)
      BY <2>2
    <2>4. \A j, k \in DOMAIN wire' : wire'[j] = Ready /\ wire'[k] = Ready => j = k
      <3> SUFFICES ASSUME NEW j \in DOMAIN wire', NEW k \in DOMAIN wire',
                          wire'[j] = Ready, wire'[k] = Ready
                   PROVE  j = k
        OBVIOUS
      <3>1. j + 1 = k + 1
        BY <2>2, <2>3 DEF SessionShape
      <3> QED
        BY <2>2, <3>1
    <2>5. Head(wire) = Ready => Ready \notin Elems(wire')
      BY <2>2, <2>3 DEF SessionShape, Elems
    <2>6. phase' \notin {"backoff", "ended"}
      BY <2>1 DEF SessionShape
    <2> QED
      BY <2>1, <2>2, <2>4, <2>5, <2>6 DEF SessionShape
  <1>4. CASE DrainEnds
    BY <1>4 DEF DrainEnds, SessionShape, connVars, loopVars
  <1>5. CASE Subscribe
    <2>1. Ready \notin Elems(wire)
      BY <1>5 DEF Subscribe, SessionShape
    <2>2. CASE link = "up"
      <3>1. wire' = Append(wire, Ready) /\ wire \in Seq({Ready} \cup Numbers)
        BY <1>5, <2>2 DEF Subscribe, ListenTypeOK
      <3>2. /\ DOMAIN wire' = 1 .. Len(wire) + 1 /\ DOMAIN wire = 1 .. Len(wire)
            /\ \A k \in DOMAIN wire : wire'[k] = wire[k]
            /\ Len(wire) \in Nat
        BY <3>1, AppendFacts
      <3>3. \A k \in DOMAIN wire' : wire'[k] = Ready => k = Len(wire) + 1
        BY <2>1, <3>2 DEF Elems
      <3> QED
        BY <1>5, <2>2, <3>3 DEF Subscribe, SessionShape, ListenTypeOK
    <2>3. CASE link # "up"
      BY <1>5, <2>3 DEF Subscribe, SessionShape, ListenTypeOK
    <2> QED
      BY <2>2, <2>3
  <1>6. CASE Connect \/ Recv \/ Sent \/ Signal
    BY <1>6 DEF Connect, Recv, Sent, Signal, SessionShape, connVars, drainVars
  <1>7. CASE SubscribeFails \/ RecvNone \/ Shutdown
    BY <1>7, EmptyFacts DEF SubscribeFails, RecvNone, Shutdown, DropSession, SessionShape
  <1>8. CASE UNCHANGED <<behavior, connVars, drainVars, loopVars>>
    BY <1>8 DEF connVars, drainVars, loopVars, SessionShape
  <1> QED
    BY <1>1, <1>2, <1>3, <1>4, <1>5, <1>6, <1>7, <1>8
       DEF ListenSteps, ListenNext, ServerNext, DrainNext, LoopNext

LEMMA InSequenceKept ==
    ASSUME ListenTypeOK, SessionShape, InSequence, ListenSteps PROVE InSequence'
  <1> USE NumbersFacts
  <1> DEFINE Wired == {Ready} \cup Numbers
  <1>0. /\ wire \in Seq(Wired) /\ chan \in Seq(Numbers) /\ offered \in Seq(Numbers)
        /\ Wired \in SUBSET Nat /\ Numbers \in SUBSET Nat /\ Ready \in Wired
        /\ chan \in Seq(Wired) /\ offered \in Seq(Wired)
        /\ DOMAIN wire = 1 .. Len(wire) /\ DOMAIN chan = 1 .. Len(chan)
        /\ DOMAIN offered = 1 .. Len(offered)
    BY DEF ListenTypeOK
  <1>k. /\ \A k \in DOMAIN wire : wire[k] \in Wired /\ wire[k] \in Nat
        /\ \A k \in DOMAIN chan : chan[k] \in Numbers
        /\ \A k \in DOMAIN offered : offered[k] \in Numbers
    BY <1>0
  <1> HIDE DEF Wired
  <1>1. CASE \E c \in Elems(Channels) : Publish(c)
    <2>1. /\ published \in Nat /\ published + 1 \in Wired /\ published' = published + 1
          /\ wire' \in {wire, Append(wire, published + 1)}
          /\ UNCHANGED <<chan, offered>>
      BY <1>1, ListenAssumption DEF Publish, ListenTypeOK, Wired, Numbers, drainVars, loopVars
    <2>2. \A k : /\ k \in DOMAIN wire => wire[k] < published + 1
                 /\ k \in DOMAIN chan => chan[k] < published + 1
                 /\ k \in DOMAIN offered => offered[k] < published + 1
      <3> SUFFICES \A k : /\ k \in DOMAIN wire => wire[k] <= published /\ wire[k] \in Nat
                          /\ k \in DOMAIN chan => chan[k] <= published /\ chan[k] \in Nat
                          /\ k \in DOMAIN offered => offered[k] <= published /\ offered[k] \in Nat
        BY <2>1
      <3> QED
        BY <1>k DEF InSequence
    <2>r. \A k : /\ k \in DOMAIN wire => wire[k] <= published + 1
                 /\ k \in DOMAIN chan => chan[k] <= published + 1
                 /\ k \in DOMAIN offered => offered[k] <= published + 1
      BY <1>k, <2>1, <2>2
    <2>3. CASE wire' = Append(wire, published + 1)
      <3>1. Rising(wire') /\ Before(offered, wire') /\ Before(chan, wire')
        BY <1>0, <2>1, <2>2, <2>3, OrderAppend DEF InSequence
      <3>2. \A k \in DOMAIN wire' : wire'[k] <= published + 1
        <4>1. /\ DOMAIN wire' = 1 .. Len(wire) + 1 /\ DOMAIN wire = 1 .. Len(wire)
              /\ \A k \in DOMAIN wire : wire'[k] = wire[k]
              /\ wire'[Len(wire) + 1] = published + 1
          BY <1>0, <2>1, <2>3, AppendFacts
        <4> QED
          BY <1>0, <2>1, <2>r, <4>1
      <3> QED
        BY <2>1, <2>r, <3>1, <3>2 DEF InSequence
    <2>4. CASE wire' = wire
      BY <2>1, <2>r, <2>4 DEF InSequence
    <2> QED
      BY <2>1, <2>3, <2>4
  <1>2. CASE LinkBreaks
    <2>1. PICK k \in 0 .. Len(wire) : wire' = SubSeq(wire, 1, k)
      BY <1>2 DEF LinkBreaks
    <2>2. /\ DOMAIN wire' \subseteq DOMAIN wire
          /\ \A j \in DOMAIN wire' : wire'[j] = wire[j]
      BY <1>0, <2>1
    <2>3. UNCHANGED <<published, chan, offered>>
      BY <1>2 DEF LinkBreaks, drainVars, loopVars
    <2> QED
      BY <2>2, <2>3 DEF InSequence, Rising, Before
  <1>3. ASSUME wire # <<>>, wire' = Tail(wire)
        PROVE  /\ Rising(wire')
               /\ Before(offered, wire') /\ Before(chan, wire')
               /\ \A k \in DOMAIN wire' : wire'[k] <= published
    <2>1. /\ DOMAIN wire' = 1 .. Len(wire) - 1 /\ Len(wire) \in Nat \ {0}
          /\ \A k \in 1 .. Len(wire) - 1 : wire'[k] = wire[k + 1]
      BY <1>0, <1>3, TailFacts
    <2>2. \A k \in 1 .. Len(wire) - 1 : k + 1 \in 1 .. Len(wire)
      BY <2>1
    <2> QED
      BY <1>0, <1>3, <2>1, <2>2, OrderTail DEF InSequence
  <1>4. CASE DrainReply \/ DrainFull
    BY <1>3, <1>4 DEF DrainReply, DrainFull, InSequence, drainVars, loopVars
  <1>5. CASE Drain
    <2>1. /\ wire # <<>> /\ wire' = Tail(wire) /\ Head(wire) # Ready
          /\ chan' = Append(chan, Head(wire)) /\ UNCHANGED <<published, offered>>
      BY <1>5 DEF Drain, loopVars
    <2>2. /\ Head(wire) \in Wired /\ Head(wire) = wire[1] /\ 1 \in DOMAIN wire
          /\ Head(wire) \in Numbers
      BY <1>0, <2>1, TailFacts DEF Wired
    <2>3. \A k : /\ k \in DOMAIN chan => chan[k] < Head(wire)
                 /\ k \in DOMAIN offered => offered[k] < Head(wire)
      BY <2>1, <2>2 DEF InSequence, Before
    <2>4. \A k \in DOMAIN Tail(wire) : Tail(wire)[k] = Ready \/ Head(wire) < Tail(wire)[k]
      BY <1>0, <2>1, OrderTail DEF InSequence
    <2>5. Rising(chan') /\ Before(offered, chan')
      BY <1>0, <2>1, <2>2, <2>3, OrderAppend DEF InSequence
    <2>6. Before(chan, wire')
      BY <1>3, <2>1
    <2>7. Before(chan', wire')
      BY <1>0, <2>1, <2>2, <2>3, <2>4, <2>6, OrderAppend DEF InSequence
    <2>8. \A k \in DOMAIN chan' : chan'[k] <= published
      <3>1. /\ DOMAIN chan' = 1 .. Len(chan) + 1 /\ DOMAIN chan = 1 .. Len(chan)
            /\ \A k \in DOMAIN chan : chan'[k] = chan[k]
            /\ chan'[Len(chan) + 1] = Head(wire)
        BY <1>0, <2>1, <2>2, AppendFacts
      <3> QED
        BY <1>0, <2>2, <3>1 DEF InSequence
    <2> QED
      BY <1>3, <2>1, <2>5, <2>7, <2>8 DEF InSequence
  <1>6. CASE Subscribe
    <2>1. UNCHANGED <<published, chan, offered>> /\ wire' \in {wire, Append(wire, Ready)}
      BY <1>6 DEF Subscribe
    <2>2. CASE wire' = Append(wire, Ready)
      <3>1. Rising(wire') /\ Before(offered, wire') /\ Before(chan, wire')
        BY <1>0, <2>2, OrderAppend DEF InSequence
      <3>2. \A k \in DOMAIN wire' : wire'[k] <= published
        <4>1. /\ DOMAIN wire' = 1 .. Len(wire) + 1 /\ DOMAIN wire = 1 .. Len(wire)
              /\ \A k \in DOMAIN wire : wire'[k] = wire[k]
              /\ wire'[Len(wire) + 1] = 0
          BY <1>0, <2>2, AppendFacts DEF Ready
        <4> QED
          BY <1>0, <4>1 DEF InSequence, ListenTypeOK
      <3> QED
        BY <2>1, <3>1, <3>2 DEF InSequence
    <2> QED
      BY <2>1, <2>2 DEF InSequence
  <1>7. CASE Recv
    <2>1. /\ chan # <<>> /\ chan' = Tail(chan)
          /\ offered' = Append(offered, Head(chan)) /\ UNCHANGED <<published, wire>>
      BY <1>7 DEF Recv, Taken, connVars
    <2>2. /\ Head(chan) \in Numbers /\ Head(chan) = chan[1] /\ 1 \in DOMAIN chan
          /\ Head(chan) # Ready
      BY <1>0, <2>1, TailFacts
    <2>3. /\ \A k \in DOMAIN offered : offered[k] < Head(chan)
          /\ \A k \in DOMAIN wire : wire[k] = Ready \/ Head(chan) < wire[k]
      BY <1>0, <1>k, <2>2 DEF InSequence, Before
    <2>4. /\ Rising(chan') /\ Before(chan', wire)
          /\ Before(offered, Tail(chan))
          /\ \A k \in DOMAIN Tail(chan) : Tail(chan)[k] = Ready \/ Head(chan) < Tail(chan)[k]
      BY <1>0, <2>1, OrderTail DEF InSequence
    <2>5. Rising(offered') /\ Before(offered', wire) /\ Before(offered', Tail(chan))
      BY <1>0, <2>1, <2>2, <2>3, <2>4, OrderAppend DEF InSequence
    <2>6. \A k \in DOMAIN offered' : offered'[k] <= published
      <3>1. /\ DOMAIN offered' = 1 .. Len(offered) + 1
            /\ \A k \in DOMAIN offered : offered'[k] = offered[k]
            /\ offered'[Len(offered) + 1] = Head(chan)
        BY <1>0, <2>1, <2>2, AppendFacts
      <3> QED
        BY <1>0, <2>2, <3>1 DEF InSequence
    <2>7. \A k \in DOMAIN chan' : chan'[k] <= published
      <3>1. /\ DOMAIN chan' = 1 .. Len(chan) - 1 /\ Len(chan) \in Nat \ {0}
            /\ \A k \in 1 .. Len(chan) - 1 : chan'[k] = chan[k + 1]
        BY <1>0, <2>1, TailFacts
      <3>2. \A k \in 1 .. Len(chan) - 1 : k + 1 \in 1 .. Len(chan)
        BY <3>1
      <3> QED
        BY <1>0, <3>1, <3>2 DEF InSequence
    <2> QED
      BY <2>1, <2>4, <2>5, <2>6, <2>7 DEF InSequence
  <1>8. CASE SubscribeFails \/ RecvNone \/ Shutdown
    <2>1. wire' = <<>> /\ chan' = <<>> /\ UNCHANGED <<published, offered>>
      BY <1>8 DEF SubscribeFails, RecvNone, Shutdown, DropSession
    <2> QED
      BY <2>1, EmptyFacts DEF InSequence
  <1>9. CASE \/ DrainEnds \/ Connect \/ Sent \/ Signal
             \/ UNCHANGED <<behavior, connVars, drainVars, loopVars>>
    BY <1>9 DEF DrainEnds, Connect, Sent, Signal, InSequence, connVars, drainVars, loopVars
  <1> QED
    BY <1>1, <1>2, <1>4, <1>5, <1>6, <1>7, <1>8, <1>9
       DEF ListenSteps, ListenNext, ServerNext, DrainNext, LoopNext

LEMMA NothingVanishesKept ==
    ASSUME ListenTypeOK, SessionShape, NothingVanishes, ListenSteps PROVE NothingVanishes'
  <1> USE NumbersFacts DEF NothingVanishes
  <1>0. /\ wire \in Seq({Ready} \cup Numbers) /\ chan \in Seq(Numbers)
        /\ offered \in Seq(Numbers) /\ DOMAIN wire = 1 .. Len(wire)
    BY DEF ListenTypeOK
  <1>b. behavior' = behavior
    BY DEF ListenSteps, ListenNext, ServerNext, DrainNext, LoopNext, Publish, LinkBreaks,
           DrainReply, Drain, DrainFull, DrainEnds, Connect, Subscribe, SubscribeFails, Recv,
           Sent, RecvNone, Signal, Shutdown
  <1>1. CASE \E c \in Elems(Channels) : Publish(c)
    <2>1. /\ published + 1 \in Numbers
          /\ \/ wire' = Append(wire, published + 1) /\ arrived' = arrived \cup {published + 1}
             \/ UNCHANGED <<wire, arrived>>
          /\ UNCHANGED <<chan, offered, dropped, phase>>
      BY <1>1, ListenAssumption DEF Publish, ListenTypeOK, Numbers, drainVars, loopVars
    <2>2. Elems(Append(wire, published + 1)) = Elems(wire) \cup {published + 1}
      <3>1. published + 1 \in {Ready} \cup Numbers
        BY <2>1
      <3> QED
        BY <1>0, <3>1, AppendFacts
    <2> QED
      BY <1>b, <2>1, <2>2
  <1>2. CASE LinkBreaks
    <2>1. PICK k \in 0 .. Len(wire) :
            /\ wire' = SubSeq(wire, 1, k)
            /\ arrived' = arrived \ {wire[j] : j \in k + 1 .. Len(wire)}
      BY <1>2 DEF LinkBreaks
    <2>2. UNCHANGED <<chan, offered, dropped, phase>>
      BY <1>2 DEF LinkBreaks, drainVars, loopVars
    <2>3. ASSUME NEW n \in arrived', n \in Elems(wire) PROVE n \in Elems(wire')
      <3>1. PICK j \in 1 .. Len(wire) : n = wire[j]
        BY <1>0, <2>3 DEF Elems
      <3>2. j <= k
        BY <1>0, <2>1, <2>3, <3>1
      <3>3. j \in DOMAIN wire' /\ wire'[j] = wire[j]
        BY <1>0, <2>1, <3>1, <3>2
      <3> QED
        BY <3>1, <3>3 DEF Elems
    <2> QED
      BY <1>b, <2>1, <2>2, <2>3
  <1>3. CASE DrainReply
    <2>1. /\ wire # <<>> /\ wire' = Tail(wire) /\ Head(wire) = Ready /\ drainer = "running"
          /\ UNCHANGED <<arrived, chan, offered, dropped>>
      BY <1>3 DEF DrainReply, drainVars
    <2>2. Elems(wire) = {Ready} \cup Elems(wire')
      BY <1>0, <2>1, TailFacts
    <2>3. Ready \notin arrived /\ phase # "ended"
      BY <2>1 DEF ListenTypeOK, SessionShape
    <2> QED
      BY <1>b, <2>1, <2>2, <2>3
  <1>4. CASE Drain
    <2>1. /\ wire # <<>> /\ wire' = Tail(wire) /\ Head(wire) # Ready
          /\ chan' = Append(chan, Head(wire)) /\ UNCHANGED <<arrived, offered, dropped, phase>>
      BY <1>4 DEF Drain, loopVars
    <2>2. Elems(wire) = {Head(wire)} \cup Elems(wire') /\ Head(wire) \in Numbers
      BY <1>0, <2>1, TailFacts
    <2>3. Elems(chan') = Elems(chan) \cup {Head(wire)}
      BY <1>0, <2>1, <2>2, AppendFacts
    <2> QED
      BY <1>b, <2>1, <2>2, <2>3
  <1>5. CASE DrainFull
    <2>1. /\ wire # <<>> /\ wire' = Tail(wire)
          /\ behavior # "block" => dropped' = dropped \cup {Head(wire)}
          /\ UNCHANGED <<arrived, offered, chan, phase>>
      BY <1>5 DEF DrainFull, loopVars
    <2>2. Elems(wire) = {Head(wire)} \cup Elems(wire')
      BY <1>0, <2>1, TailFacts
    <2> QED
      BY <1>b, <2>1, <2>2
  <1>6. CASE Subscribe
    <2>1. /\ wire' \in {wire, Append(wire, Ready)} /\ phase = "listen"
          /\ UNCHANGED <<arrived, chan, offered, dropped>>
      BY <1>6 DEF Subscribe
    <2>2. Elems(Append(wire, Ready)) = Elems(wire) \cup {Ready}
      BY <1>0, AppendFacts
    <2>3. Elems(wire) \subseteq Elems(wire')
      BY <2>1, <2>2
    <2> QED
      BY <1>b, <2>1, <2>3
  <1>7. CASE Recv
    <2>1. /\ chan # <<>> /\ chan' = Tail(chan) /\ phase = "loop"
          /\ offered' = Append(offered, Head(chan)) /\ UNCHANGED <<wire, arrived, dropped>>
      BY <1>7 DEF Recv, Taken, connVars
    <2>2. Elems(chan) = {Head(chan)} \cup Elems(chan') /\ Head(chan) \in Numbers
      BY <1>0, <2>1, TailFacts
    <2>3. Elems(offered') = Elems(offered) \cup {Head(chan)}
      BY <1>0, <2>1, <2>2, AppendFacts
    <2> QED
      BY <1>b, <2>1, <2>2, <2>3
  <1>8. CASE SubscribeFails
    BY <1>8, <1>b DEF SubscribeFails
  <1>9. CASE RecvNone
    <2>1. /\ wire = <<>> /\ chan = <<>> /\ phase = "loop"
          /\ wire' = <<>> /\ chan' = <<>> /\ UNCHANGED <<arrived, dropped, offered>>
      BY <1>9 DEF RecvNone, Closed, DropSession, SessionShape
    <2> QED
      BY <1>b, <2>1
  <1>10. CASE Shutdown
    BY <1>10 DEF Shutdown
  <1>11. CASE Connect
    BY <1>11, <1>b DEF Connect
  <1>12. CASE \/ DrainEnds \/ Sent \/ Signal
              \/ UNCHANGED <<behavior, connVars, drainVars, loopVars>>
    BY <1>12, <1>b DEF DrainEnds, Sent, Signal, connVars, drainVars, loopVars
  <1> QED
    BY <1>1, <1>2, <1>3, <1>4, <1>5, <1>6, <1>7, <1>8, <1>9, <1>10, <1>11, <1>12
       DEF ListenSteps, ListenNext, ServerNext, DrainNext, LoopNext

LEMMA ListenInvKept == ListenInv /\ ListenSteps => ListenInv'
  BY ListenTypesKept, SessionShapeKept, InSequenceKept, NothingVanishesKept DEF ListenInv

-----------------------------------------------------------------------------
(* The sink: what a step may change *)

LEMMA StepKinds ==
    ASSUME [Next]_vars
    PROVE  /\ ListenSteps
           /\ UNCHANGED <<kind, mode, exchanges>>
           /\ offered' = offered \/ Offer
  <1> USE DEF setupVars
  <1>1. CASE Other
    <2>1. ListenNext /\ UNCHANGED setupVars
      BY <1>1 DEF Other, ListenNext, LoopNext
    <2>2. offered' = offered
      BY <1>1 DEF Other, ServerNext, DrainNext, Publish, LinkBreaks, DrainReply, Drain, DrainFull,
             DrainEnds, Connect, Subscribe, SubscribeFails, RecvNone, Signal, loopVars
    <2> QED
      BY <2>1, <2>2 DEF ListenSteps
  <1>2. CASE Offer
    BY <1>2 DEF Offer, ListenSteps, ListenNext, LoopNext
  <1>3. CASE Return
    BY <1>3 DEF Return, Sent, ListenSteps, ListenNext, LoopNext
  <1>4. CASE Exit
    BY <1>4 DEF Exit, Shutdown, ListenSteps, ListenNext, LoopNext
  <1>5. CASE Indexing
    BY <1>5 DEF Indexing, ComposeFails, Push, PushFlush, PushPost, ListenSteps, listenVars, loopVars
  <1>6. CASE Patient \/ Limited
    BY <1>6 DEF Patient, Limited, WebhookAccepts, WebhookFails, ShellSucceeds, ShellFails,
           KafkaDelivers, KafkaFails, Publishes, CannotPublish, Quiet, Trouble, ListenSteps,
           listenVars, loopVars
  <1>7. CASE BrokerTakes \/ AmqpBreaks \/ Tick \/ FlusherPost
    BY <1>7 DEF BrokerTakes, AmqpBreaks, Tick, FlusherPost, ListenSteps, listenVars, loopVars
  <1>8. CASE UNCHANGED vars
    BY <1>8 DEF vars, ListenSteps, listenVars, loopVars
  <1> QED
    BY <1>1, <1>2, <1>3, <1>4, <1>5, <1>6, <1>7, <1>8 DEF Next

\* The notification in hand is the last and the largest of those offered.
LEMMA HandFacts ==
    ASSUME ListenTypeOK, InSequence, offered # <<>>
    PROVE  /\ InHand \in Numbers /\ InHand \in Nat
           /\ InHand \in Elems(offered)
           /\ \A n \in Elems(offered) : n \in Nat /\ n <= InHand
  <1>1. /\ offered \in Seq(Numbers) /\ DOMAIN offered = 1 .. Len(offered)
        /\ Len(offered) \in DOMAIN offered /\ Len(offered) \in Nat
    BY DEF ListenTypeOK
  <1>2. \A k \in DOMAIN offered : offered[k] \in Numbers /\ offered[k] \in Nat /\ offered[k] # Ready
    BY <1>1, NumbersFacts
  <1>3. \A k \in DOMAIN offered : k < Len(offered) \/ k = Len(offered)
    BY <1>1
  <1>4. \A k \in DOMAIN offered : offered[k] <= InHand
    BY <1>1, <1>2, <1>3 DEF InHand, InSequence, Rising
  <1> QED
    BY <1>1, <1>2, <1>4 DEF InHand, Elems

\* The notification offered next is none of those offered before.
LEMMA OfferFacts ==
    ASSUME ListenTypeOK, InSequence, Offer
    PROVE  /\ InHand' \in Numbers
           /\ offered' # <<>>
           /\ Elems(offered') = Elems(offered) \cup {InHand'}
           /\ InHand' \notin Elems(offered)
  <1>1. /\ offered \in Seq(Numbers) /\ chan \in Seq(Numbers) /\ chan # <<>>
        /\ offered' = Append(offered, Head(chan))
    BY DEF Offer, Recv, Taken, ListenTypeOK
  <1>2. /\ Head(chan) \in Numbers /\ Head(chan) = chan[1] /\ 1 \in DOMAIN chan
        /\ Head(chan) # Ready /\ Head(chan) \in Nat
    BY <1>1, TailFacts, NumbersFacts
  <1>3. /\ offered' # <<>> /\ InHand' = Head(chan)
        /\ Elems(offered') = Elems(offered) \cup {Head(chan)}
    BY <1>1, <1>2, AppendFacts DEF InHand
  <1>4. \A k \in DOMAIN offered : offered[k] < Head(chan)
    BY <1>2 DEF InSequence, Before
  <1>5. Head(chan) \notin Elems(offered)
    <2>1. \A k \in DOMAIN offered : offered[k] # Head(chan)
      <3>1. \A k \in DOMAIN offered : offered[k] \in Nat
        BY <1>1, NumbersFacts
      <3> QED
        BY <1>2, <1>4, <3>1
    <2> QED
      BY <2>1 DEF Elems
  <1> QED
    BY <1>2, <1>3, <1>5

\* What a delivery of some copies does to the sequence of deliveries.
LEMMA DeliverFacts ==
    ASSUME reached \in Seq(Numbers \X {"default", "hint"}), NEW n \in Numbers, NEW c \in Nat,
           Deliver(n, c)
    PROVE  /\ reached' \in Seq(Numbers \X {"default", "hint"})
           /\ Len(reached) \in Nat
           /\ DOMAIN reached = 1 .. Len(reached)
           /\ DOMAIN reached' = 1 .. Len(reached) + c
           /\ \A k \in DOMAIN reached : reached'[k] = reached[k]
           /\ \A k \in DOMAIN reached' \ DOMAIN reached : reached'[k] = <<n, Destination(n)>>
  <1> DEFINE more == [k \in 1 .. c |-> <<n, Destination(n)>>]
  <1>1. more \in Seq(Numbers \X {"default", "hint"}) /\ Len(more) = c
    <2>1. <<n, Destination(n)>> \in Numbers \X {"default", "hint"}
      BY DEF Destination
    <2> QED
      BY <2>1
  <1>2. reached' = reached \o more
    BY DEF Deliver
  <1>3. /\ reached \o more \in Seq(Numbers \X {"default", "hint"})
        /\ Len(reached \o more) = Len(reached) + c
        /\ \A k \in 1 .. Len(reached) + c :
             (reached \o more)[k] = IF k <= Len(reached) THEN reached[k] ELSE more[k - Len(reached)]
    BY <1>1, ConcatProperties
  <1>4. Len(reached) \in Nat /\ DOMAIN reached = 1 .. Len(reached)
        /\ DOMAIN reached' = 1 .. Len(reached) + c
    BY <1>2, <1>3
  <1>5. ASSUME NEW k \in DOMAIN reached' \ DOMAIN reached
        PROVE  reached'[k] = <<n, Destination(n)>>
    <2>1. k - Len(reached) \in 1 .. c /\ ~(k <= Len(reached)) /\ k \in 1 .. Len(reached) + c
      BY <1>4, <1>5
    <2>2. reached'[k] = more[k - Len(reached)]
      BY <1>2, <1>3, <2>1
    <2> QED
      BY <2>1, <2>2
  <1>6. \A k \in DOMAIN reached : reached'[k] = reached[k]
    BY <1>2, <1>3, <1>4
  <1> QED
    BY <1>2, <1>3, <1>4, <1>5, <1>6

\* How many copies there are then.
LEMMA CopiesFacts ==
    ASSUME reached \in Seq(Numbers \X {"default", "hint"}), NEW m
    PROVE  IsFiniteSet(CopiesOf(m)) /\ Cardinality(CopiesOf(m)) \in Nat
  <1>1. DOMAIN reached = 1 .. Len(reached) /\ Len(reached) \in Nat
    OBVIOUS
  <1>2. IsFiniteSet(DOMAIN reached)
    BY <1>1, FS_Interval
  <1>3. CopiesOf(m) \in SUBSET DOMAIN reached
    BY DEF CopiesOf
  <1> QED
    BY <1>2, <1>3, FS_Subset, FS_CardinalityType

LEMMA DeliverCopies ==
    ASSUME reached \in Seq(Numbers \X {"default", "hint"}), NEW n \in Numbers, NEW c \in Nat,
           Deliver(n, c), NEW m, NEW then,
           then = {k \in DOMAIN reached' : reached'[k][1] = m}
    PROVE  Cardinality(then) = IF m = n THEN Cardinality(CopiesOf(m)) + c
                                        ELSE Cardinality(CopiesOf(m))
  <1>1. /\ Len(reached) \in Nat
        /\ DOMAIN reached = 1 .. Len(reached)
        /\ DOMAIN reached' = 1 .. Len(reached) + c
        /\ \A k \in DOMAIN reached : reached'[k] = reached[k]
        /\ \A k \in DOMAIN reached' \ DOMAIN reached : reached'[k] = <<n, Destination(n)>>
    BY DeliverFacts
  <1> DEFINE new == Len(reached) + 1 .. Len(reached) + c
  <1>2. /\ IsFiniteSet(CopiesOf(m)) /\ Cardinality(CopiesOf(m)) \in Nat
    BY CopiesFacts
  <1>i. IsFiniteSet(new) /\ Cardinality(new) = c
    <2>1. /\ Len(reached) + 1 \in Int /\ Len(reached) + c \in Int
          /\ c = IF Len(reached) + 1 > Len(reached) + c THEN 0
                 ELSE (Len(reached) + c) - (Len(reached) + 1) + 1
      BY <1>1
    <2> QED
      BY <2>1, FS_Interval
  <1>3. /\ DOMAIN reached' = DOMAIN reached \cup new
        /\ DOMAIN reached \cap new = {}
    BY <1>1
  <1> HIDE DEF new
  <1>4. CASE m = n
    <2>1. \A k \in new : k \in DOMAIN reached' /\ reached'[k][1] = m
      BY <1>1, <1>3, <1>4
    <2>2. then = CopiesOf(m) \cup new
      BY <1>1, <1>3, <2>1 DEF CopiesOf
    <2>3. CopiesOf(m) \cap new = {}
      BY <1>3 DEF CopiesOf
    <2>4. Cardinality(CopiesOf(m) \cup new)
            = Cardinality(CopiesOf(m)) + Cardinality(new) - Cardinality(CopiesOf(m) \cap new)
      BY <1>2, <1>i, FS_Union
    <2>5. Cardinality(CopiesOf(m) \cap new) = 0
      BY <2>3, FS_EmptySet
    <2>6. Cardinality(CopiesOf(m) \cup new) = Cardinality(CopiesOf(m)) + c
      BY <1>2, <1>i, <2>4, <2>5
    <2> QED
      BY <1>4, <2>2, <2>6
  <1>5. CASE m # n
    <2>1. then = CopiesOf(m)
      BY <1>1, <1>3, <1>5 DEF CopiesOf
    <2> QED
      BY <1>5, <2>1
  <1> QED
    BY <1>4, <1>5

-----------------------------------------------------------------------------
(* The sink: types, and what it works on *)

LEMMA DeliveryInitially == Init => DeliveryInv
  <1> SUFFICES ASSUME Init PROVE DeliveryInv
    OBVIOUS
  <1>0. /\ DOMAIN received = {} /\ lines = <<>> /\ batch = [t \in Tasks |-> <<>>]
        /\ refused = {} /\ pipe = <<>> /\ reached = <<>> /\ accepted = {} /\ push = "none"
    BY DEF Init, BulkInit, EmptyBag, SetToBag
  <1>1. DeliveryTypeOK
    BY <1>0, ListenDeliveryAssumption DEF Init, DeliveryTypeOK
  <1>2. BulkTypeOK
    BY <1>0 DEF BulkTypeOK
  <1>3. SinkShape
    BY <1>0 DEF Init, ListenInit, SinkShape, Tasks
  <1>4. DeliveryOrder
    <2>1. \A n : CopiesOf(n) = {}
      BY <1>0 DEF CopiesOf
    <2>2. 0 <= Most
      BY ListenDeliveryAssumption DEF Most
    <2> QED
      <3>1. \A n : Cardinality(CopiesOf(n)) = 0
        BY <2>1, FS_EmptySet
      <3>2. Rising(pipe) /\ DOMAIN pipe = {} /\ DOMAIN reached = {}
        BY <1>0, EmptyFacts
      <3> QED
        BY <1>0, <2>2, <3>1, <3>2 DEF DeliveryOrder
  <1>5. BulkApart
    BY <1>0, EmptyFacts DEF BulkApart, Apart
  <1>6. BulkFresh
    BY <1>0, EmptyFacts DEF BulkFresh, Places, InFlight
  <1>7. AcceptedReached
    BY <1>0 DEF AcceptedReached
  <1> QED
    BY <1>1, <1>2, <1>3, <1>4, <1>5, <1>6, <1>7 DEF DeliveryInv

LEMMA DeliveryTypesKept ==
    ASSUME ListenTypeOK, InSequence, DeliveryTypeOK, SinkShape, [Next]_vars
    PROVE  DeliveryTypeOK'
  <1> USE DEF DeliveryTypeOK
  <1>0. UNCHANGED <<kind, mode>>
    BY StepKinds
  <1>h. push # "none" => InHand \in Numbers
    BY HandFacts DEF SinkShape
  <1>d. ASSUME NEW n \in Numbers, NEW c \in {0, 1, 2}, Deliver(n, c)
        PROVE  reached' \in Seq(Numbers \X {"default", "hint"})
    BY <1>d, DeliverFacts
  <1>1. CASE Other \/ Offer \/ Return \/ UNCHANGED vars
    BY <1>0, <1>1, ListenDeliveryAssumption
       DEF Other, Offer, Return, sendVars, farVars, chanVars, vars
  <1>2. CASE Exit
    BY <1>0, <1>2 DEF Exit, CloseChannel, sendVars, Elems
  <1>3. CASE Patient
    <2>1. push = "call" /\ UNCHANGED chanVars
      BY <1>3 DEF Patient, WebhookAccepts, WebhookFails, ShellSucceeds, ShellFails, Calling, Quiet,
             Trouble
    <2>2. /\ \E c \in {0, 1, 2} : Deliver(InHand, c)
          /\ push' \in {push, "done"} /\ accepted' \in {accepted, accepted \cup {InHand}}
          /\ attempt' \in Nat /\ attempt' <= Retries
      BY <1>3, ListenDeliveryAssumption DEF Patient, WebhookAccepts, WebhookFails, ShellSucceeds,
             ShellFails, ReturnOk, ReturnError, MayRetry
    <2> QED
      BY <1>0, <1>h, <1>d, <2>1, <2>2 DEF chanVars
  <1>4. CASE KafkaDelivers \/ KafkaFails
    <2>1. push = "call" /\ UNCHANGED chanVars
      BY <1>4 DEF KafkaDelivers, KafkaFails, Calling, Quiet, Trouble
    <2>2. /\ \E c \in {0, 1, 2} : Deliver(InHand, c)
          /\ push' = "done" /\ accepted' \in {accepted, accepted \cup {InHand}}
          /\ UNCHANGED attempt
      BY <1>4 DEF KafkaDelivers, KafkaFails, ReturnOk, ReturnError
    <2> QED
      BY <1>0, <1>h, <1>d, <2>1, <2>2 DEF chanVars
  <1>5. CASE Publishes \/ CannotPublish
    <2>1. push = "call" => Append(pipe, InHand) \in Seq(Numbers)
      BY <1>h
    <2> QED
      BY <1>0, <1>h, <1>5, <2>1 DEF Publishes, CannotPublish, Calling, Quiet, Refused, ReturnOk,
         ReturnError, chanVars
  <1>6. CASE BrokerTakes
    <2>1. /\ pipe # <<>> /\ Head(pipe) \in Numbers /\ Tail(pipe) \in Seq(Numbers)
      BY <1>6, TailFacts DEF BrokerTakes
    <2>2. CASE Destination(Head(pipe)) \in exchanges
      BY <1>0, <1>d, <1>6, <2>1, <2>2 DEF BrokerTakes, sendVars
    <2>3. CASE Destination(Head(pipe)) \notin exchanges
      BY <1>0, <1>6, <2>3 DEF BrokerTakes, sendVars, CloseChannel, Elems
    <2> QED
      BY <2>2, <2>3
  <1>7. CASE AmqpBreaks
    BY <1>0, <1>7 DEF AmqpBreaks, CloseChannel, Elems, sendVars
  <1>8. CASE Indexing \/ Tick \/ FlusherPost
    <2>1. push # "none" \/ UNCHANGED sendVars
      BY <1>8 DEF Indexing, ComposeFails, Push, PushFlush, PushPost, Calling, Tick, FlusherPost
    <2>2. /\ UNCHANGED farVars
          /\ push' \in {push, "flush", "post", "done"}
          /\ accepted' \in {accepted, accepted \cup {InHand}} /\ (push = "none" => UNCHANGED accepted)
          /\ UNCHANGED attempt
      BY <1>8, <2>1 DEF Indexing, ComposeFails, Push, PushFlush, PushPost, Tick, FlusherPost,
         ReturnOk, ReturnError, sendVars
    <2> QED
      BY <1>0, <1>h, <2>1, <2>2 DEF farVars, chanVars
  <1> QED
    BY <1>1, <1>2, <1>3, <1>4, <1>5, <1>6, <1>7, <1>8 DEF Next, Limited

LEMMA SinkShapeKept ==
    ASSUME ListenTypeOK, SessionShape, BulkTypeOK, SinkShape, [Next]_vars
    PROVE  SinkShape'
  <1> USE DEF SinkShape
  <1>0. kind' = kind
    BY StepKinds
  <1>t. /\ batch \in [Tasks -> Seq(Numbers)] /\ "pusher" \in Tasks /\ "flusher" \in Tasks
    BY DEF BulkTypeOK, Tasks
  <1>1. CASE Other
    <2>1. UNCHANGED <<push, batch, lines, pipe>>
      BY <1>1 DEF Other, bulkVars, sendVars, farVars, chanVars
    <2>2. offered' = offered
      BY <1>1 DEF Other, ServerNext, DrainNext, Publish, LinkBreaks, DrainReply, Drain, DrainFull,
             DrainEnds, Connect, Subscribe, SubscribeFails, RecvNone, Signal, loopVars
    <2>3. phase' = "sending" <=> phase = "sending"
      <3>1. CASE DrainReply
        <4>1. Ready \in Elems(wire)
          BY <3>1, TailFacts DEF DrainReply, ListenTypeOK
        <4> QED
          BY <3>1, <4>1 DEF DrainReply, SessionShape
      <3>2. CASE ~DrainReply
        BY <1>1, <3>2 DEF Other, ServerNext, DrainNext, Publish, LinkBreaks, Drain, DrainFull,
             DrainEnds, Connect, Subscribe, SubscribeFails, RecvNone, Signal, loopVars
      <3> QED
        BY <3>1, <3>2
    <2> QED
      BY <1>0, <2>1, <2>2, <2>3
  <1>2. CASE Offer
    <2>1. offered' # <<>>
      BY <1>2, TailFacts, AppendFacts DEF Offer, Recv, Taken, ListenTypeOK
    <2> QED
      BY <1>0, <1>2, <2>1 DEF Offer, Recv, bulkVars, farVars, chanVars
  <1>3. CASE Return
    BY <1>0, <1>3 DEF Return, Sent, bulkVars, farVars, chanVars
  <1>4. CASE Exit
    BY <1>0, <1>4, <1>t DEF Exit, Shutdown, Watching, BulkExit, CloseChannel, sendVars
  <1>5. CASE Patient \/ KafkaDelivers \/ KafkaFails
    <2>1. /\ push = "call" /\ push' \in {"call", "done"}
          /\ UNCHANGED <<phase, offered, lines, batch, pipe>>
      BY <1>5 DEF Patient, WebhookAccepts, WebhookFails, ShellSucceeds, ShellFails, KafkaDelivers,
             KafkaFails, Calling, ReturnOk, ReturnError, Quiet, Trouble, listenVars, loopVars,
             bulkVars, chanVars
    <2> QED
      BY <1>0, <2>1
  <1>6. CASE Publishes \/ CannotPublish
    <2>1. /\ push = "call" /\ push' = "done" /\ kind = "rabbitmq"
          /\ UNCHANGED <<phase, offered, lines, batch>>
      BY <1>6 DEF Publishes, CannotPublish, Calling, Refused, ReturnOk, ReturnError, Quiet,
             listenVars, loopVars, bulkVars
    <2> QED
      BY <1>0, <2>1
  <1>7. CASE BrokerTakes \/ AmqpBreaks
    <2>1. /\ pipe' # <<>> => pipe # <<>>
          /\ UNCHANGED <<push, phase, offered, lines, batch>>
      BY <1>7 DEF BrokerTakes, AmqpBreaks, CloseChannel, sendVars, listenVars, loopVars, bulkVars
    <2> QED
      BY <1>0, <2>1
  <1>8. CASE ComposeFails \/ Push
    <2>1. /\ push = "call" /\ push' \in {"flush", "done"} /\ kind = "elasticsearch"
          /\ UNCHANGED <<phase, offered, batch, pipe>>
      BY <1>8 DEF ComposeFails, Push, PushDoc, Calling, ReturnOk, ReturnError, listenVars,
             loopVars, bulkVars, farVars, chanVars
    <2> QED
      BY <1>0, <2>1
  <1>9. CASE PushFlush \/ PushPost
    <2>1. /\ push \in {"flush", "post"} /\ push' \in {"post", "done"}
          /\ push' # "post" => batch'["pusher"] = <<>>
          /\ lines' # <<>> => lines # <<>>
          /\ UNCHANGED <<phase, offered, pipe>>
      BY <1>9, <1>t DEF PushFlush, PushPost, TakeBatch, Kept, FindNothing, PostOk, PostFails,
             ReturnOk, ReturnError, listenVars, loopVars, bulkVars, farVars, chanVars
    <2> QED
      BY <1>0, <2>1
  <1>10. CASE Tick \/ FlusherPost
    <2>1. /\ batch'["pusher"] = batch["pusher"]
          /\ lines' # <<>> => lines # <<>>
          /\ UNCHANGED <<phase, offered, pipe, push>>
      BY <1>10, <1>t DEF Tick, FlusherPost, TakeBatch, Kept, PostOk, PostFails,
             listenVars, loopVars, bulkVars, farVars, chanVars, sendVars
    <2> QED
      BY <1>0, <2>1
  <1>11. CASE UNCHANGED vars
    BY <1>11 DEF vars, listenVars, loopVars, bulkVars, farVars, chanVars, sendVars, setupVars
  <1> QED
    BY <1>1, <1>2, <1>3, <1>4, <1>5, <1>6, <1>7, <1>8, <1>9, <1>10, <1>11
       DEF Next, Limited, Indexing

-----------------------------------------------------------------------------
(* The order and the number of the deliveries *)

\* A step that neither delivers nor publishes keeps the order, unless it begins a call.
LEMMA OrderUntouched ==
    ASSUME DeliveryOrder, UNCHANGED <<kind, mode, offered, reached>>,
           pipe' \in {pipe, <<>>}, push' = "call" => push = "call" /\ UNCHANGED attempt
    PROVE  DeliveryOrder'
  <1>1. /\ \A n : CopiesOf(n)' = CopiesOf(n)
        /\ CopiesOf(InHand)' = CopiesOf(InHand)
        /\ Most' = Most /\ InHand' = InHand
        /\ \A n : Destination(n)' = Destination(n)
    BY DEF CopiesOf, Most, InHand, Destination
  <1>2. Rising(<<>>) /\ DOMAIN <<>> = {} /\ Elems(<<>>) = {}
    BY EmptyFacts
  <1>3. CASE pipe' = pipe
    BY <1>1, <1>3 DEF DeliveryOrder
  <1>4. CASE pipe' = <<>>
    BY <1>1, <1>2, <1>4 DEF DeliveryOrder
  <1> QED
    BY <1>3, <1>4

\* Copies of the notification in hand go behind everything delivered before.
LEMMA OrderDelivered ==
    ASSUME ListenTypeOK, InSequence, DeliveryTypeOK, SinkShape, DeliveryOrder,
           push = "call", kind # "rabbitmq", UNCHANGED <<kind, mode, offered, pipe>>,
           NEW c \in {0, 1, 2}, Deliver(InHand, c),
           c = 2 => kind = "kafka",
           push' = "call" => kind = "webhook" /\ attempt' = attempt + 1
    PROVE  DeliveryOrder'
  <1>1. /\ InHand \in Numbers /\ InHand \in Nat /\ InHand \in Elems(offered)
        /\ \A n \in Elems(offered) : n \in Nat /\ n <= InHand
    BY HandFacts DEF SinkShape
  <1>2. /\ Len(reached) \in Nat
        /\ DOMAIN reached = 1 .. Len(reached)
        /\ DOMAIN reached' = 1 .. Len(reached) + c
        /\ \A k \in DOMAIN reached : reached'[k] = reached[k]
        /\ \A k \in DOMAIN reached' \ DOMAIN reached : reached'[k] = <<InHand, Destination(InHand)>>
    BY <1>1, DeliverFacts DEF DeliveryTypeOK
  <1>3. /\ Most' = Most /\ InHand' = InHand /\ pipe = <<>>
        /\ \A n : Destination(n)' = Destination(n)
    BY DEF Most, InHand, Destination, SinkShape
  <1>4. \A j, k \in DOMAIN reached' : j < k => reached'[j][1] <= reached'[k][1]
    <2> SUFFICES ASSUME NEW j \in DOMAIN reached', NEW k \in DOMAIN reached', j < k
                 PROVE  reached'[j][1] <= reached'[k][1]
      OBVIOUS
    <2>1. CASE k \in DOMAIN reached
      <3>1. j \in DOMAIN reached
        BY <1>2, <2>1
      <3> QED
        BY <1>2, <2>1, <3>1 DEF DeliveryOrder
    <2>2. CASE k \notin DOMAIN reached /\ j \in DOMAIN reached
      <3>1. reached'[k][1] = InHand /\ reached'[j] = reached[j]
        BY <1>2, <2>2
      <3>2. reached[j][1] \in Elems(offered)
        BY <2>2 DEF DeliveryOrder
      <3>3. reached[j][1] <= InHand
        BY <1>1, <3>2
      <3> QED
        BY <3>1, <3>3
    <2>3. CASE k \notin DOMAIN reached /\ j \notin DOMAIN reached
      BY <1>1, <1>2, <2>3
    <2> QED
      BY <2>1, <2>2, <2>3
  <1>5. \A k \in DOMAIN reached' : /\ reached'[k][1] \in Elems(offered)
                                   /\ reached'[k][2] = Destination(reached'[k][1])
    BY <1>1, <1>2 DEF DeliveryOrder
  <1>6. \A n \in Numbers : /\ Cardinality(CopiesOf(n)) \in Nat
                           /\ Cardinality(CopiesOf(n)') = IF n = InHand THEN Cardinality(CopiesOf(n)) + c
                                                          ELSE Cardinality(CopiesOf(n))
    <2> SUFFICES ASSUME NEW n \in Numbers
                 PROVE  /\ Cardinality(CopiesOf(n)) \in Nat
                        /\ Cardinality(CopiesOf(n)') = IF n = InHand THEN Cardinality(CopiesOf(n)) + c
                                                       ELSE Cardinality(CopiesOf(n))
      OBVIOUS
    <2>1. CopiesOf(n)' = {k \in DOMAIN reached' : reached'[k][1] = n}
      BY DEF CopiesOf
    <2> QED
      BY <1>1, <2>1, CopiesFacts, DeliverCopies DEF DeliveryTypeOK
  <1>7. Cardinality(CopiesOf(InHand)) <= IF kind = "webhook" THEN attempt ELSE 0
    BY DEF DeliveryOrder
  <1>8. /\ attempt \in Nat /\ attempt <= Retries /\ Retries \in Nat
        /\ kind = "webhook" => Most = Retries + 1
        /\ kind = "kafka" => Most = 2
        /\ kind # "webhook" /\ kind # "kafka" => Most = 1
    BY ListenDeliveryAssumption DEF DeliveryTypeOK, Most
  <1>9. Cardinality(CopiesOf(InHand)) + c <= Most
    BY <1>1, <1>6, <1>7, <1>8
  <1>10. \A n \in Numbers : Cardinality(CopiesOf(n)') <= Most'
    BY <1>3, <1>6, <1>9 DEF DeliveryOrder
  <1>11. push' = "call" => Cardinality(CopiesOf(InHand)') <= attempt'
    <2>1. CopiesOf(InHand)' = {k \in DOMAIN reached' : reached'[k][1] = InHand}
      BY <1>3 DEF CopiesOf
    <2>2. push' = "call" => c <= 1 /\ attempt' = attempt + 1 /\ kind = "webhook"
      OBVIOUS
    <2>3. Cardinality(CopiesOf(InHand)') = Cardinality(CopiesOf(InHand)) + c
      BY <1>1, <2>1, DeliverCopies DEF DeliveryTypeOK
    <2> QED
      BY <1>1, <1>6, <1>7, <1>8, <2>2, <2>3
  <1>12. Rising(pipe') /\ DOMAIN pipe' = {} /\ Elems(pipe') = {}
    BY <1>3, EmptyFacts
  <1> QED
    BY <1>3, <1>4, <1>5, <1>10, <1>11, <1>12 DEF DeliveryOrder

\* A publish goes behind what waits in the pipe.
LEMMA OrderPublished ==
    ASSUME ListenTypeOK, InSequence, DeliveryTypeOK, SinkShape, DeliveryOrder, Publishes
    PROVE  DeliveryOrder'
  <1>0. /\ push = "call" /\ push' = "done" /\ kind = "rabbitmq"
        /\ pipe' = Append(pipe, InHand)
        /\ UNCHANGED <<kind, mode, offered, reached>>
    BY DEF Publishes, Calling, ReturnOk, setupVars, listenVars, loopVars
  <1>1. /\ InHand \in Numbers /\ InHand \in Nat /\ InHand \in Elems(offered)
        /\ \A n \in Elems(offered) : n \in Nat /\ n <= InHand
    BY <1>0, HandFacts DEF SinkShape
  <1>2. /\ pipe \in Seq(Numbers) /\ Len(pipe) \in Nat /\ DOMAIN pipe = 1 .. Len(pipe)
        /\ DOMAIN pipe' = 1 .. Len(pipe) + 1
        /\ \A k \in DOMAIN pipe : pipe'[k] = pipe[k]
        /\ pipe'[Len(pipe) + 1] = InHand
    BY <1>0, <1>1, AppendFacts DEF DeliveryTypeOK
  <1>3. \A k \in DOMAIN pipe : pipe[k] < InHand
    <2> SUFFICES ASSUME NEW k \in DOMAIN pipe PROVE pipe[k] < InHand
      OBVIOUS
    <2>1. pipe[k] \in Elems(offered) /\ pipe[k] # InHand
      BY <1>0 DEF DeliveryOrder, Elems
    <2>2. pipe[k] \in Nat /\ pipe[k] <= InHand
      BY <1>1, <2>1
    <2> QED
      BY <1>1, <2>1, <2>2
  <1>4. \A j \in DOMAIN reached : reached[j][1] < InHand
    <2> SUFFICES ASSUME NEW j \in DOMAIN reached PROVE reached[j][1] < InHand
      OBVIOUS
    <2>1. Cardinality(CopiesOf(InHand)) = 0
      BY <1>0, CopiesFacts DEF DeliveryOrder, DeliveryTypeOK
    <2>2. CopiesOf(InHand) = {}
      BY <2>1, CopiesFacts, FS_EmptySet DEF DeliveryTypeOK
    <2>3. reached[j][1] \in Elems(offered) /\ reached[j][1] # InHand
      BY <2>2 DEF DeliveryOrder, CopiesOf
    <2>4. reached[j][1] \in Nat /\ reached[j][1] <= InHand
      BY <1>1, <2>3
    <2> QED
      BY <1>1, <2>3, <2>4
  <1>5. Rising(pipe')
    BY <1>0, <1>1, <1>2, <1>3, OrderAppend, NumbersFacts DEF DeliveryOrder
  <1>6. \A k \in DOMAIN pipe' : pipe'[k] \in Elems(offered)
    BY <1>1, <1>2 DEF DeliveryOrder
  <1>7. \A j \in DOMAIN reached, k \in DOMAIN pipe' : reached[j][1] < pipe'[k]
    BY <1>2, <1>4 DEF DeliveryOrder
  <1>8. /\ \A n : CopiesOf(n)' = CopiesOf(n) /\ Destination(n)' = Destination(n)
        /\ Most' = Most
    BY <1>0 DEF CopiesOf, Most, Destination
  <1> QED
    BY <1>0, <1>5, <1>6, <1>7, <1>8 DEF DeliveryOrder

\* The broker takes messages in the order they were published.
LEMMA OrderTaken ==
    ASSUME ListenTypeOK, InSequence, DeliveryTypeOK, SinkShape, DeliveryOrder, BrokerTakes
    PROVE  DeliveryOrder'
  <1>0. /\ pipe # <<>> /\ kind = "rabbitmq" /\ UNCHANGED <<kind, mode, offered, push, attempt>>
    BY DEF BrokerTakes, SinkShape, setupVars, sendVars, listenVars, loopVars
  <1>1. CASE Destination(Head(pipe)) \notin exchanges
    BY <1>0, <1>1, OrderUntouched DEF BrokerTakes, CloseChannel
  <1>2. CASE Destination(Head(pipe)) \in exchanges
    <2> DEFINE n == Head(pipe)
    <2>1. Deliver(n, 1) /\ pipe' = Tail(pipe)
      BY <1>2 DEF BrokerTakes
    <2>2. /\ n \in Numbers /\ n \in Nat /\ n = pipe[1] /\ 1 \in DOMAIN pipe
          /\ pipe \in Seq(Numbers) /\ Len(pipe) \in Nat \ {0} /\ DOMAIN pipe = 1 .. Len(pipe)
          /\ DOMAIN Tail(pipe) = 1 .. Len(pipe) - 1
          /\ \A k \in 1 .. Len(pipe) - 1 : Tail(pipe)[k] = pipe[k + 1]
          /\ Elems(pipe) = {n} \cup Elems(Tail(pipe))
      BY <1>0, TailFacts, NumbersFacts DEF DeliveryTypeOK
    <2>3. /\ Rising(pipe') /\ \A k \in DOMAIN pipe' : n < pipe'[k] \/ pipe'[k] = Ready
      BY <1>0, <2>1, <2>2, OrderTail, NumbersFacts DEF DeliveryOrder
    <2>4. \A k \in 1 .. Len(pipe) - 1 : k + 1 \in 1 .. Len(pipe) /\ pipe[k + 1] # Ready
      BY <2>2, NumbersFacts
    <2> HIDE DEF n
    <2>5. /\ Len(reached) \in Nat
          /\ DOMAIN reached = 1 .. Len(reached)
          /\ DOMAIN reached' = 1 .. Len(reached) + 1
          /\ \A k \in DOMAIN reached : reached'[k] = reached[k]
          /\ reached'[Len(reached) + 1] = <<n, Destination(n)>>
      BY <2>1, <2>2, DeliverFacts DEF DeliveryTypeOK
    <2>6. \A k \in DOMAIN reached : reached[k][1] < n /\ reached[k][1] \in Nat
      BY <2>2, NumbersFacts DEF DeliveryOrder, DeliveryTypeOK
    <2>7. \A j, k \in DOMAIN reached' : j < k => reached'[j][1] <= reached'[k][1]
      <3> SUFFICES ASSUME NEW j \in DOMAIN reached', NEW k \in DOMAIN reached', j < k
                   PROVE  reached'[j][1] <= reached'[k][1]
        OBVIOUS
      <3>1. j \in DOMAIN reached /\ (k \in DOMAIN reached \/ k = Len(reached) + 1)
        BY <2>5
      <3>2. CASE k \in DOMAIN reached
        BY <2>5, <3>1, <3>2 DEF DeliveryOrder
      <3>3. CASE k = Len(reached) + 1
        <4>1. reached'[k][1] = n /\ reached'[j] = reached[j] /\ reached[j][1] < n
          BY <2>5, <2>6, <3>1, <3>3
        <4> QED
          BY <2>2, <2>6, <3>1, <4>1
      <3> QED
        BY <3>1, <3>2, <3>3
    <2>8. \A k \in DOMAIN reached' : /\ reached'[k][1] \in Elems(offered)
                                     /\ reached'[k][2] = Destination(reached'[k][1])
      <3>1. n \in Elems(offered)
        BY <2>2 DEF DeliveryOrder
      <3>2. \A k \in DOMAIN reached' : k \in DOMAIN reached \/ k = Len(reached) + 1
        BY <2>5
      <3> QED
        BY <2>5, <3>1, <3>2 DEF DeliveryOrder
    <2>9. Cardinality(CopiesOf(n)) = 0
      <3>1. CopiesOf(n) = {}
        BY <2>2, <2>6 DEF CopiesOf
      <3> QED
        BY <3>1, FS_EmptySet
    <2>10. \A m \in Numbers : Cardinality(CopiesOf(m)') = IF m = n THEN 1 ELSE Cardinality(CopiesOf(m))
      <3> SUFFICES ASSUME NEW m \in Numbers
                   PROVE  Cardinality(CopiesOf(m)')
                            = IF m = n THEN 1 ELSE Cardinality(CopiesOf(m))
        OBVIOUS
      <3>1. CopiesOf(m)' = {k \in DOMAIN reached' : reached'[k][1] = m}
        BY DEF CopiesOf
      <3>2. Cardinality(CopiesOf(m)')
              = IF m = n THEN Cardinality(CopiesOf(m)) + 1 ELSE Cardinality(CopiesOf(m))
        BY <2>1, <2>2, <3>1, DeliverCopies DEF DeliveryTypeOK
      <3> QED
        BY <2>9, <3>2
    <2>11. \A m \in Numbers : Cardinality(CopiesOf(m)') <= Most'
      <3>1. Most' = Most /\ Most = 1
        BY <1>0 DEF Most
      <3> QED
        BY <2>10, <3>1 DEF DeliveryOrder
    <2>12. push' = "call" => /\ Cardinality(CopiesOf(InHand)') <= 0
                             /\ InHand' \notin Elems(pipe')
      <3> SUFFICES ASSUME push' = "call"
                   PROVE  Cardinality(CopiesOf(InHand)') <= 0 /\ InHand' \notin Elems(pipe')
        OBVIOUS
      <3>1. /\ InHand' = InHand /\ InHand \in Numbers /\ push = "call"
            /\ InHand \notin Elems(pipe) /\ Cardinality(CopiesOf(InHand)) <= 0
        BY <1>0, HandFacts DEF InHand, DeliveryOrder, SinkShape
      <3>2. InHand # n /\ InHand \notin Elems(pipe')
        BY <2>1, <2>2, <3>1
      <3>3. CopiesOf(InHand)' = {k \in DOMAIN reached' : reached'[k][1] = InHand}
        BY <3>1 DEF CopiesOf
      <3>4. Cardinality(CopiesOf(InHand)') = Cardinality(CopiesOf(InHand))
        BY <2>1, <2>2, <3>1, <3>2, <3>3, DeliverCopies DEF DeliveryTypeOK
      <3> QED
        BY <3>1, <3>2, <3>4
    <2>13. \A k \in DOMAIN pipe' : pipe'[k] \in Elems(offered)
      BY <2>1, <2>2, <2>4 DEF DeliveryOrder
    <2>14. \A j \in DOMAIN reached', k \in DOMAIN pipe' : reached'[j][1] < pipe'[k]
      <3> SUFFICES ASSUME NEW j \in DOMAIN reached', NEW k \in DOMAIN pipe'
                   PROVE  reached'[j][1] < pipe'[k]
        OBVIOUS
      <3>1. j \in DOMAIN reached \/ j = Len(reached) + 1
        BY <2>5
      <3>2. pipe'[k] = pipe[k + 1] /\ k + 1 \in DOMAIN pipe /\ n < pipe'[k]
        BY <2>1, <2>2, <2>3, <2>4
      <3> QED
        BY <2>5, <3>1, <3>2 DEF DeliveryOrder
    <2>15. \A m : Destination(m)' = Destination(m)
      BY <1>0 DEF Destination
    <2> QED
      BY <1>0, <2>3, <2>7, <2>8, <2>11, <2>12, <2>13, <2>14, <2>15 DEF DeliveryOrder
  <1> QED
    BY <1>1, <1>2

\* A new call begins with nothing of its notification delivered or published.
LEMMA OrderOffered ==
    ASSUME ListenTypeOK, InSequence, DeliveryOrder, Offer
    PROVE  DeliveryOrder'
  <1>1. /\ push' = "call" /\ attempt' = 0 /\ UNCHANGED <<kind, mode, reached, pipe>>
    BY DEF Offer, setupVars, farVars, chanVars
  <1>2. /\ Elems(offered') = Elems(offered) \cup {InHand'}
        /\ InHand' \notin Elems(offered)
    BY OfferFacts
  <1>3. /\ \A n : CopiesOf(n)' = CopiesOf(n) /\ Destination(n)' = Destination(n)
        /\ Most' = Most
    BY <1>1 DEF CopiesOf, Most, Destination
  <1>4. CopiesOf(InHand)' = {}
    BY <1>1, <1>2 DEF CopiesOf, DeliveryOrder
  <1>5. Cardinality(CopiesOf(InHand)') = 0
    BY <1>4, FS_EmptySet
  <1>6. InHand' \notin Elems(pipe')
    BY <1>1, <1>2 DEF DeliveryOrder, Elems
  <1> QED
    BY <1>1, <1>2, <1>3, <1>5, <1>6 DEF DeliveryOrder

LEMMA DeliveryOrderKept ==
    ASSUME ListenTypeOK, InSequence, DeliveryTypeOK, SinkShape, DeliveryOrder, [Next]_vars
    PROVE  DeliveryOrder'
  <1>0. UNCHANGED <<kind, mode>>
    BY StepKinds
  <1>1. CASE Offer
    BY <1>1, OrderOffered
  <1>2. CASE Patient \/ KafkaDelivers \/ KafkaFails
    <2>1. /\ push = "call" /\ kind # "rabbitmq" /\ UNCHANGED <<offered, pipe>>
          /\ push' = "call" => kind = "webhook" /\ attempt' = attempt + 1
      BY <1>2 DEF Patient, WebhookAccepts, WebhookFails, ShellSucceeds, ShellFails, KafkaDelivers,
             KafkaFails, Calling, ReturnOk, ReturnError, Quiet, Trouble, listenVars, loopVars,
             chanVars
    <2>2. \E c \in {0, 1, 2} : Deliver(InHand, c) /\ (c = 2 => kind = "kafka")
      BY <1>2 DEF Patient, WebhookAccepts, WebhookFails, ShellSucceeds, ShellFails, KafkaDelivers,
             KafkaFails, Calling
    <2> QED
      BY <1>0, <2>1, <2>2, OrderDelivered
  <1>3. CASE Publishes
    BY <1>3, OrderPublished
  <1>4. CASE BrokerTakes
    BY <1>4, OrderTaken
  <1>5. CASE ~Offer /\ ~Patient /\ ~KafkaDelivers /\ ~KafkaFails /\ ~Publishes /\ ~BrokerTakes
    <2>1. offered' = offered
      BY <1>5, StepKinds
    <2>2. /\ reached' = reached /\ pipe' \in {pipe, <<>>}
          /\ push' = "call" => push = "call" /\ UNCHANGED attempt
      <3>1. CASE Other \/ Tick \/ FlusherPost \/ UNCHANGED vars
        BY <3>1 DEF Other, Tick, FlusherPost, vars, sendVars, farVars, chanVars
      <3>2. CASE Return \/ CannotPublish
        BY <3>2 DEF Return, CannotPublish, Refused, ReturnError, Quiet, farVars, chanVars
      <3>3. CASE Exit \/ AmqpBreaks
        BY <3>3 DEF Exit, AmqpBreaks, CloseChannel, sendVars
      <3>4. CASE Indexing
        BY <3>4 DEF Indexing, ComposeFails, Push, PushFlush, PushPost, ReturnOk, ReturnError,
           farVars, chanVars
      <3> QED
        BY <1>5, <3>1, <3>2, <3>3, <3>4 DEF Next, Limited
    <2> QED
      BY <1>0, <2>1, <2>2, OrderUntouched
  <1> QED
    BY <1>1, <1>2, <1>3, <1>4, <1>5

-----------------------------------------------------------------------------
(* The bulk buffer *)

\* The bag of a batch without duplicates has each of its documents once.
LEMMA OnceBag ==
    ASSUME NEW s \in Seq(Numbers), Once(s)
    PROVE  DOMAIN BagOf(s) = DocsOf(s) /\ \A d \in DocsOf(s) : BagOf(s)[d] = 1
  <1>1. ASSUME NEW d \in DocsOf(s) PROVE Cardinality({k \in DOMAIN s : s[k] = d}) = 1
    <2>1. PICK j \in DOMAIN s : s[j] = d
      BY <1>1 DEF DocsOf
    <2>2. {k \in DOMAIN s : s[k] = d} = {j}
      BY <2>1 DEF Once
    <2> QED
      BY <2>2, FS_Singleton
  <1> QED
    BY <1>1 DEF BagOf

\* What adding it to a bag that has none of its documents makes.
LEMMA PlusBag ==
    ASSUME NEW s \in Seq(Numbers), Once(s), NEW B, \A d \in DOMAIN B : B[d] = 1,
           Apart(DOMAIN B, DocsOf(s))
    PROVE  /\ DOMAIN (B (+) BagOf(s)) = DOMAIN B \cup DocsOf(s)
           /\ \A d \in DOMAIN B \cup DocsOf(s) : (B (+) BagOf(s))[d] = 1
  <1> DEFINE T == BagOf(s)
  <1>1. DOMAIN T = DocsOf(s) /\ \A d \in DocsOf(s) : T[d] = 1
    BY OnceBag
  <1> HIDE DEF T
  <1>2. B (+) T = [e \in DOMAIN B \cup DOMAIN T |->
                     (IF e \in DOMAIN B THEN B[e] ELSE 0) + (IF e \in DOMAIN T THEN T[e] ELSE 0)]
    BY DEF (+)
  <1>3. DOMAIN (B (+) T) = DOMAIN B \cup DocsOf(s)
    BY <1>1, <1>2
  <1>4. ASSUME NEW d \in DOMAIN B \cup DocsOf(s) PROVE (B (+) T)[d] = 1
    <2>1. d \in DOMAIN B <=> d \notin DocsOf(s)
      BY <1>4 DEF Apart
    <2> QED
      BY <1>1, <1>2, <1>4, <2>1
  <1> QED
    BY <1>3, <1>4 DEF T

BulkInv == BulkTypeOK /\ BulkApart

\* A new document joins the buffer.
LEMMA BulkPush ==
    ASSUME BulkInv, NEW d \in Numbers, d \notin Places, PushDoc(d)
    PROVE  BulkInv' /\ Places' = Places \cup {d}
  <1> USE DEF BulkInv, BulkTypeOK, BulkApart, Apart
  <1>1. lines' = Append(lines, d) /\ UNCHANGED <<batch, received, refused>>
    BY DEF PushDoc
  <1>2. /\ lines' \in Seq(Numbers) /\ DOMAIN lines = 1 .. Len(lines) /\ Len(lines) \in Nat
        /\ DOMAIN lines' = 1 .. Len(lines) + 1
        /\ \A k \in DOMAIN lines : lines'[k] = lines[k]
        /\ lines'[Len(lines) + 1] = d
        /\ DocsOf(lines') = DocsOf(lines) \cup {d}
    BY <1>1, AppendFacts
  <1>3. Once(lines')
    <2>1. \A k \in DOMAIN lines : lines[k] # d
      BY DEF Places, DocsOf
    <2>2. \A k \in DOMAIN lines' : k \in DOMAIN lines \/ k = Len(lines) + 1
      BY <1>2
    <2> QED
      BY <1>2, <2>1, <2>2 DEF Once
  <1>4. /\ d \notin DOMAIN received
        /\ \A t \in Tasks : d \notin DocsOf(batch[t])
    BY DEF Places, InFlight
  <1>5. Places' = Places \cup {d}
    BY <1>1, <1>2 DEF Places, InFlight
  <1>6. BulkTypeOK'
    BY <1>1, <1>2
  <1>7. BulkApart'
    BY <1>1, <1>2, <1>3, <1>4
  <1> QED
    BY <1>5, <1>6, <1>7

\* A task takes everything; a POST ends; the process ends: documents only move.
LEMMA BulkTake ==
    ASSUME BulkInv, NEW t \in Tasks, batch[t] = <<>>, TakeBatch(t)
    PROVE  BulkInv' /\ Places' = Places
  <1> USE DEF BulkInv, BulkTypeOK, BulkApart, Apart
  <1>1. /\ batch' = [batch EXCEPT ![t] = lines] /\ lines' = <<>>
        /\ UNCHANGED <<received, refused>>
    BY DEF TakeBatch, Kept
  <1>2. /\ batch'[t] = lines /\ \A u \in Tasks \ {t} : batch'[u] = batch[u]
        /\ batch' \in [Tasks -> Seq(Numbers)]
    BY <1>1
  <1>3. DocsOf(lines') = {} /\ Once(lines') /\ DocsOf(batch[t]) = {}
    BY <1>1, EmptyFacts
  <1>4. InFlight' = InFlight \cup DocsOf(lines)
    BY <1>2, <1>3 DEF InFlight
  <1>5. Places' = Places
    BY <1>1, <1>3, <1>4 DEF Places
  <1>6. BulkTypeOK'
    BY <1>1, <1>2
  <1>7. BulkApart'
    BY <1>1, <1>2, <1>3
  <1> QED
    BY <1>5, <1>6, <1>7

LEMMA BulkPosted ==
    ASSUME BulkInv, NEW t \in Tasks, PostOk(t) \/ PostFails(t)
    PROVE  BulkInv' /\ Places' = Places
  <1> USE DEF BulkInv, BulkTypeOK, BulkApart
  <1> DEFINE more == received (+) BagOf(batch[t])
  <1>0. /\ DOMAIN more = DOMAIN received \cup DocsOf(batch[t])
        /\ \A d \in DOMAIN received \cup DocsOf(batch[t]) : more[d] = 1
    BY PlusBag
  <1>1. /\ batch' = [batch EXCEPT ![t] = <<>>] /\ lines' = lines
        /\ \/ received' = more /\ refused' \in {refused, refused \cup DocsOf(batch[t])}
           \/ received' = received /\ refused' = refused \cup DocsOf(batch[t])
    BY DEF PostOk, PostFails
  <1> HIDE DEF more
  <1>2. /\ batch'[t] = <<>> /\ \A u \in Tasks \ {t} : batch'[u] = batch[u]
        /\ batch' \in [Tasks -> Seq(Numbers)]
    BY <1>1
  <1>3. DocsOf(batch'[t]) = {} /\ Once(batch'[t])
    BY <1>2, EmptyFacts
  <1>4. DocsOf(batch[t]) \subseteq Numbers
    BY DEF DocsOf
  <1>5. /\ DOMAIN received' \in {DOMAIN received, DOMAIN received \cup DocsOf(batch[t])}
        /\ \A d \in DOMAIN received' : received'[d] = 1
        /\ DOMAIN received \cup refused \cup DocsOf(batch[t]) = DOMAIN received' \cup refused'
    BY <1>0, <1>1
  <1>6. InFlight = InFlight' \cup DocsOf(batch[t])
    BY <1>2, <1>3 DEF InFlight
  <1>7. Places' = Places
    BY <1>1, <1>5, <1>6 DEF Places
  <1>8. BulkTypeOK'
    BY <1>1, <1>2, <1>4, <1>5
  <1>9. BulkApart'
    BY <1>1, <1>2, <1>3, <1>5 DEF Apart
  <1> QED
    BY <1>7, <1>8, <1>9

LEMMA BulkExits ==
    ASSUME BulkInv, BulkExit
    PROVE  BulkInv' /\ Places' = Places
  <1> USE DEF BulkInv, BulkTypeOK, BulkApart
  <1> DEFINE more == received (+) BagOf(lines)
  <1>0. /\ DOMAIN more = DOMAIN received \cup DocsOf(lines)
        /\ \A d \in DOMAIN received \cup DocsOf(lines) : more[d] = 1
    BY PlusBag
  <1>1. /\ received' \in {received, more}
        /\ lines' = <<>> /\ batch' = [t \in Tasks |-> <<>>]
        /\ refused' = refused \cup DocsOf(lines) \cup InFlight
    BY DEF BulkExit
  <1> HIDE DEF more
  <1>2. /\ DOMAIN received' \in {DOMAIN received, DOMAIN received \cup DocsOf(lines)}
        /\ \A d \in DOMAIN received' : received'[d] = 1
    BY <1>0, <1>1
  <1>3. /\ DocsOf(lines') = {} /\ Once(lines')
        /\ \A t \in Tasks : batch'[t] = <<>> /\ DocsOf(batch'[t]) = {} /\ Once(batch'[t])
    BY <1>1, EmptyFacts
  <1>4. DocsOf(lines) \subseteq Numbers /\ InFlight \subseteq Numbers
    BY DEF DocsOf, InFlight
  <1>5. InFlight' = {}
    BY <1>3 DEF InFlight
  <1>6. Places' = Places
    BY <1>1, <1>2, <1>3, <1>5 DEF Places
  <1>7. BulkTypeOK'
    BY <1>1, <1>2, <1>3, <1>4
  <1>8. BulkApart'
    BY <1>1, <1>2, <1>3 DEF Apart
  <1> QED
    BY <1>6, <1>7, <1>8

\* A step of the sink that begins no call and takes none into the buffer.
LEMMA FreshKept ==
    ASSUME BulkFresh, Places' = Places, offered' = offered,
           push' = "call" => push = "call",
           push' \in {"flush", "post"} => push \in {"flush", "post"}
    PROVE  BulkFresh'
  <1>1. InHand' = InHand
    BY DEF InHand
  <1> QED
    BY <1>1 DEF BulkFresh

LEMMA BulkKept ==
    ASSUME ListenTypeOK, InSequence, BulkInv, SinkShape, BulkFresh, [Next]_vars
    PROVE  BulkInv' /\ BulkFresh' /\ Places \subseteq Places'
  <1>t. "pusher" \in Tasks /\ "flusher" \in Tasks
    BY DEF Tasks
  <1>u. UNCHANGED bulkVars => BulkInv' /\ Places' = Places
    BY DEF bulkVars, BulkInv, BulkTypeOK, BulkApart, Places, InFlight
  <1>1. CASE Offer
    <2>1. UNCHANGED bulkVars /\ push' = "call"
      BY <1>1 DEF Offer
    <2>2. BulkFresh'
      BY <1>1, <1>u, <2>1, OfferFacts DEF BulkFresh
    <2> QED
      BY <1>u, <2>1, <2>2
  <1>2. CASE Push
    <2>1. /\ push = "call" /\ push' \in {"flush", "done"} /\ PushDoc(InHand)
          /\ UNCHANGED offered
      BY <1>2 DEF Push, Calling, ReturnOk, listenVars, loopVars
    <2>2. InHand \in Numbers /\ InHand \in Elems(offered) /\ InHand \notin Places
      BY <2>1, HandFacts DEF SinkShape, BulkFresh
    <2>3. BulkInv' /\ Places' = Places \cup {InHand}
      BY <2>1, <2>2, BulkPush
    <2>4. InHand' = InHand
      BY <2>1 DEF InHand
    <2> QED
      BY <2>1, <2>2, <2>3, <2>4 DEF BulkFresh
  <1>3. CASE ~Offer /\ ~Push
    <2>1. offered' = offered
      BY <1>3, StepKinds
    <2>2. BulkInv' /\ Places' = Places
      <3>1. CASE PushFlush
        <4>1. batch["pusher"] = <<>>
          BY <3>1 DEF PushFlush, SinkShape
        <4> QED
          BY <1>t, <1>u, <3>1, <4>1, BulkTake DEF PushFlush, FindNothing
      <3>2. CASE PushPost \/ FlusherPost
        BY <1>t, <3>2, BulkPosted DEF PushPost, FlusherPost
      <3>3. CASE Tick
        BY <1>t, <3>3, BulkTake DEF Tick, MayTick
      <3>4. CASE Exit
        BY <3>4, BulkExits DEF Exit
      <3>5. CASE ~PushFlush /\ ~PushPost /\ ~FlusherPost /\ ~Tick /\ ~Exit
        <4>1. UNCHANGED bulkVars
          BY <1>3, <3>5 DEF Next, Other, Return, Indexing, ComposeFails, Patient, WebhookAccepts,
             WebhookFails, ShellSucceeds, ShellFails, Limited, KafkaDelivers, KafkaFails,
             Publishes, CannotPublish, BrokerTakes, AmqpBreaks, Quiet, Trouble, vars
        <4> QED
          BY <1>u, <4>1
      <3> QED
        BY <3>1, <3>2, <3>3, <3>4, <3>5
    <2>3. /\ push' = "call" => push = "call"
          /\ push' \in {"flush", "post"} => push \in {"flush", "post"}
      <3>1. CASE Other \/ Return \/ Exit \/ BrokerTakes \/ AmqpBreaks \/ Tick \/ FlusherPost
        BY <3>1 DEF Other, Return, Exit, BrokerTakes, AmqpBreaks, Tick, FlusherPost, sendVars
      <3>2. CASE ComposeFails \/ PushFlush \/ PushPost
        BY <3>2 DEF ComposeFails, PushFlush, PushPost, ReturnOk, ReturnError
      <3>3. CASE Patient
        BY <3>3 DEF Patient, WebhookAccepts, WebhookFails, ShellSucceeds, ShellFails, Calling,
           ReturnOk, ReturnError
      <3>4. CASE Limited
        BY <3>4 DEF Limited, KafkaDelivers, KafkaFails, Publishes, CannotPublish, Refused,
           ReturnOk, ReturnError
      <3>5. CASE UNCHANGED vars
        BY <3>5 DEF vars, sendVars
      <3> QED
        BY <1>3, <3>1, <3>2, <3>3, <3>4, <3>5 DEF Next, Indexing
    <2> QED
      BY <2>1, <2>2, <2>3, FreshKept
  <1> QED
    BY <1>1, <1>2, <1>3

-----------------------------------------------------------------------------
(* What an accepted notification stands for *)

\* Where a notification is that the sink has accepted.
Held(n) == \/ \E k \in DOMAIN reached : reached[k][1] = n
           \/ kind = "elasticsearch" /\ n \in Places
           \/ kind = "rabbitmq" /\ n \in Elems(pipe) \cup gone

LEMMA AcceptedHeld == AcceptedReached <=> \A n \in accepted : Held(n)
  BY DEF AcceptedReached, Held, Places

\* The notification delivered is held, and so is everything held before.
LEMMA HeldDelivered ==
    ASSUME DeliveryTypeOK, NEW n \in Numbers, NEW c \in {0, 1, 2}, Deliver(n, c)
    PROVE  /\ \A k \in DOMAIN reached : k \in DOMAIN reached' /\ reached'[k] = reached[k]
           /\ c > 0 => \E k \in DOMAIN reached' : reached'[k][1] = n
  <1>1. /\ Len(reached) \in Nat
        /\ DOMAIN reached = 1 .. Len(reached)
        /\ DOMAIN reached' = 1 .. Len(reached) + c
        /\ \A k \in DOMAIN reached : reached'[k] = reached[k]
        /\ \A k \in DOMAIN reached' \ DOMAIN reached : reached'[k] = <<n, Destination(n)>>
    BY DeliverFacts DEF DeliveryTypeOK
  <1>2. \A k \in DOMAIN reached : k \in DOMAIN reached'
    BY <1>1
  <1>3. ASSUME c > 0 PROVE \E k \in DOMAIN reached' : reached'[k][1] = n
    <2>1. Len(reached) + 1 \in DOMAIN reached' \ DOMAIN reached
      BY <1>1, <1>3
    <2> QED
      BY <1>1, <2>1
  <1> QED
    BY <1>1, <1>2, <1>3

\* Nothing held is let go.
LEMMA HeldKept ==
    ASSUME ListenTypeOK, InSequence, DeliveryTypeOK, SinkShape, Places \subseteq Places',
           [Next]_vars
    PROVE  \A n : Held(n) => Held(n)'
  <1>0. kind' = kind
    BY StepKinds
  <1>1. CASE Patient \/ KafkaDelivers \/ KafkaFails
    <2>1. /\ push = "call" /\ UNCHANGED <<pipe, gone>>
          /\ \E c \in {0, 1, 2} : Deliver(InHand, c)
      BY <1>1 DEF Patient, WebhookAccepts, WebhookFails, ShellSucceeds, ShellFails,
             KafkaDelivers, KafkaFails, Calling, Quiet, Trouble, chanVars
    <2>2. InHand \in Numbers
      BY <2>1, HandFacts DEF SinkShape
    <2>3. \A k \in DOMAIN reached : k \in DOMAIN reached' /\ reached'[k] = reached[k]
      BY <2>1, <2>2, HeldDelivered
    <2> QED
      BY <1>0, <2>1, <2>3 DEF Held
  <1>2. CASE BrokerTakes /\ Destination(Head(pipe)) \in exchanges
    <2>1. /\ pipe # <<>> /\ Deliver(Head(pipe), 1) /\ pipe' = Tail(pipe) /\ gone' = gone
      BY <1>2 DEF BrokerTakes
    <2>2. Head(pipe) \in Numbers /\ Elems(pipe) = {Head(pipe)} \cup Elems(pipe')
      BY <2>1, TailFacts DEF DeliveryTypeOK
    <2>3. /\ \A k \in DOMAIN reached : k \in DOMAIN reached' /\ reached'[k] = reached[k]
          /\ \E k \in DOMAIN reached' : reached'[k][1] = Head(pipe)
      BY <2>1, <2>2, HeldDelivered
    <2> QED
      BY <1>0, <2>1, <2>2, <2>3 DEF Held
  <1>3. CASE \/ BrokerTakes /\ Destination(Head(pipe)) \notin exchanges
             \/ AmqpBreaks \/ Exit
    <2>1. CloseChannel /\ UNCHANGED reached
      BY <1>3 DEF BrokerTakes, AmqpBreaks, Exit
    <2> QED
      BY <1>0, <2>1 DEF Held, CloseChannel
  <1>4. CASE Publishes
    <2>1. /\ pipe' = Append(pipe, InHand) /\ UNCHANGED <<gone, reached>> /\ push = "call"
      BY <1>4 DEF Publishes, Calling
    <2>2. InHand \in Numbers
      BY <2>1, HandFacts DEF SinkShape
    <2>3. Elems(pipe') = Elems(pipe) \cup {InHand}
      BY <2>1, <2>2, AppendFacts DEF DeliveryTypeOK
    <2> QED
      BY <1>0, <2>1, <2>3 DEF Held
  <1>5. CASE ~Patient /\ ~KafkaDelivers /\ ~KafkaFails /\ ~Publishes
             /\ ~BrokerTakes /\ ~AmqpBreaks /\ ~Exit
    <2>1. UNCHANGED <<pipe, gone, reached>>
      BY <1>5 DEF Next, Other, Offer, Return, Indexing, ComposeFails, Push, PushFlush, PushPost,
             Limited, CannotPublish, Tick, FlusherPost, Quiet, vars, farVars, chanVars
    <2> QED
      BY <1>0, <2>1 DEF Held
  <1> QED
    BY <1>1, <1>2, <1>3, <1>4, <1>5

LEMMA AcceptedKept ==
    ASSUME ListenTypeOK, InSequence, DeliveryTypeOK, BulkInv, SinkShape, BulkFresh,
           AcceptedReached, [Next]_vars
    PROVE  AcceptedReached'
  <1>1. /\ Places \subseteq Places'
        /\ \A n : Held(n) => Held(n)'
    BY BulkKept, HeldKept
  <1>2. kind' = kind
    BY StepKinds
  <1>h. push # "none" => InHand \in Numbers
    BY HandFacts DEF SinkShape
  <1> SUFFICES \A n \in accepted' : Held(n)'
    BY DEF AcceptedReached, Held, Places
  <1>3. \A n \in accepted : Held(n)'
    BY <1>1, AcceptedHeld
  <1>4. CASE accepted' = accepted
    BY <1>3, <1>4
  <1>5. CASE accepted' # accepted
    <2>1. accepted' = accepted \cup {InHand} /\ push # "none"
      BY <1>5 DEF Next, Other, Offer, Return, Exit, BrokerTakes, AmqpBreaks, Tick, FlusherPost,
         Indexing, ComposeFails, Push, PushFlush, PushPost, Patient, WebhookAccepts, WebhookFails,
         ShellSucceeds, ShellFails, Limited, KafkaDelivers, KafkaFails, Publishes, CannotPublish,
         Refused, ReturnOk, ReturnError, Calling, sendVars, vars
    <2>2. \A n : n = InHand => Held(n)'
      <3>1. CASE WebhookAccepts \/ ShellSucceeds \/ KafkaDelivers
        <4>1. \E c \in {0, 1, 2} : c > 0 /\ Deliver(InHand, c)
          BY <3>1 DEF WebhookAccepts, ShellSucceeds, KafkaDelivers
        <4>2. \E k \in DOMAIN reached' : reached'[k][1] = InHand
          BY <1>h, <2>1, <4>1, HeldDelivered
        <4> QED
          BY <4>2 DEF Held
      <3>2. CASE Publishes
        <4>1. pipe' = Append(pipe, InHand) /\ kind = "rabbitmq"
          BY <3>2 DEF Publishes, Calling
        <4>2. InHand \in Elems(pipe')
          BY <1>h, <2>1, <4>1, AppendFacts DEF DeliveryTypeOK
        <4> QED
          BY <1>2, <4>1, <4>2 DEF Held
      <3>3. CASE Push
        <4>1. PushDoc(InHand) /\ kind = "elasticsearch"
          BY <3>3 DEF Push, Calling
        <4>2. InHand \in DocsOf(lines')
          BY <1>h, <2>1, <4>1, AppendFacts DEF PushDoc, BulkInv, BulkTypeOK
        <4> QED
          BY <1>2, <4>1, <4>2 DEF Held, Places
      <3>4. CASE PushFlush \/ PushPost
        <4>1. push \in {"flush", "post"} /\ kind = "elasticsearch"
          BY <3>4 DEF PushFlush, PushPost, SinkShape
        <4> QED
          BY <1>1, <1>2, <4>1 DEF Held, BulkFresh
      <3> QED
        BY <1>5, <3>1, <3>2, <3>3, <3>4
           DEF Next, Other, Offer, Return, Exit, BrokerTakes, AmqpBreaks, Tick, FlusherPost,
               Indexing, ComposeFails, Patient, WebhookFails, ShellFails, Limited, KafkaFails,
               CannotPublish, Refused, ReturnError, ReturnOk, MayRetry, Quiet, sendVars, vars
    <2> QED
      BY <1>3, <2>1, <2>2
  <1> QED
    BY <1>4, <1>5

-----------------------------------------------------------------------------
(* The theorems *)

LEMMA InvariantStep == ASSUME IInv, [Next]_vars PROVE IInv'
  <1>1. ListenInv'
    BY StepKinds, ListenInvKept DEF IInv
  <1>2. DeliveryInv'
    BY DeliveryTypesKept, SinkShapeKept, DeliveryOrderKept, BulkKept, AcceptedKept
       DEF IInv, ListenInv, DeliveryInv, BulkInv
  <1> QED
    BY <1>1, <1>2 DEF IInv

\* Every reachable state of `pgx listen` satisfies the inductive invariant: its types,
\* the shape of the session and of the sink, and where each notification may be.
THEOREM ListenInvariant == Spec => []IInv
  <1>1. Init => IInv
    BY ListenInitially, DeliveryInitially DEF Init, IInv
  <1>2. IInv /\ [Next]_vars => IInv'
    BY InvariantStep
  <1> QED
    BY <1>1, <1>2, PTL DEF Spec

\* However many channels, notifications and lost connections there are, the session
\* loses none of what reached it while the run lasts, unless its channel was full.
THEOREM ListenLosesNothing == Spec => []NothingVanishes
  <1>1. IInv => NothingVanishes
    BY DEF IInv, ListenInv
  <1> QED
    BY <1>1, ListenInvariant, PTL

\* For any number of retries, receivers see notifications in the order of their
\* commits, no more often than their sink retries, and where their hints say.
THEOREM ListenInOrder == Spec => []DeliveredInOrder
  <1>1. ASSUME IInv PROVE DeliveredInOrder
    <2>1. /\ DeliveryOrder
          /\ \A n \in Elems(offered) : n \in Numbers
      BY <1>1 DEF IInv, ListenInv, ListenTypeOK, DeliveryInv, Elems
    <2>2. ASSUME NEW n \in Elems(offered)
          PROVE  /\ Cardinality(CopiesOf(n)) <= Most
                 /\ \A k \in CopiesOf(n) :
                      (reached[k][2] = "hint") <=> (mode = "contract" /\ Payload[n] = "hinted")
      BY <2>1, <2>2 DEF DeliveryOrder, CopiesOf, Destination
    <2> QED
      BY <2>1, <2>2 DEF DeliveredInOrder, DeliveryOrder, CopiesOf, Most
  <1> QED
    BY <1>1, ListenInvariant, PTL

\* For every sink, a send that returned Ok has delivered, or left its notification
\* where the sink's kind may still lose it.
THEOREM ListenAcceptedReached == Spec => []AcceptedReached
  <1>1. IInv => AcceptedReached
    BY DEF IInv, DeliveryInv
  <1> QED
    BY <1>1, ListenInvariant, PTL

\* Two tasks flush one buffer and the lock is released before the POST; still, for
\* any size of the buffer, no document is posted twice.
THEOREM ListenPostsOnce == Spec => []PostedOnce
  <1>1. ASSUME IInv PROVE PostedOnce
    <2>1. BulkTypeOK /\ BulkApart
      BY <1>1 DEF IInv, DeliveryInv
    <2> DEFINE A == received (+) BagOf(lines)
               B == A (+) BagOf(batch["pusher"])
    <2>2. /\ lines \in Seq(Numbers) /\ Once(lines)
          /\ batch["pusher"] \in Seq(Numbers) /\ Once(batch["pusher"])
          /\ batch["flusher"] \in Seq(Numbers) /\ Once(batch["flusher"])
          /\ Apart(DocsOf(batch["pusher"]), DocsOf(batch["flusher"]))
          /\ \A t \in {"pusher", "flusher"} : /\ Apart(DOMAIN received, DocsOf(batch[t]))
                                              /\ Apart(DocsOf(lines), DocsOf(batch[t]))
      BY <2>1 DEF BulkTypeOK, BulkApart, Tasks
    <2>3. /\ DOMAIN A = DOMAIN received \cup DocsOf(lines)
          /\ \A d \in DOMAIN received \cup DocsOf(lines) : A[d] = 1
      BY <2>1, <2>2, PlusBag DEF BulkApart
    <2> HIDE DEF A
    <2>4. Apart(DOMAIN A, DocsOf(batch["pusher"])) /\ \A d \in DOMAIN A : A[d] = 1
      BY <2>2, <2>3 DEF Apart
    <2>5. /\ DOMAIN B = DOMAIN A \cup DocsOf(batch["pusher"])
          /\ \A d \in DOMAIN A \cup DocsOf(batch["pusher"]) : B[d] = 1
      BY <2>2, <2>4, PlusBag
    <2> HIDE DEF B
    <2>6. Apart(DOMAIN B, DocsOf(batch["flusher"])) /\ \A d \in DOMAIN B : B[d] = 1
      BY <2>2, <2>3, <2>5 DEF Apart
    <2>7. LET C == B (+) BagOf(batch["flusher"])
          IN  \A d \in DOMAIN C : C[d] = 1
      BY <2>2, <2>6, PlusBag
    <2> QED
      BY <2>7 DEF PostedOnce, Copies, A, B
  <1> QED
    BY <1>1, ListenInvariant, PTL
=============================================================================
