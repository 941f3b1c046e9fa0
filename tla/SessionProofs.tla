----------------------------- MODULE SessionProofs -----------------------------
(***************************************************************************)
(* What holds of the sessions of a command: of the session-loop that runs  *)
(* them, for every retry budget, every delay and every number of sessions  *)
(* and outages; and of a row on its way through them, for every set of     *)
(* tables, history of columns, tuple and command line.                     *)
(***************************************************************************)
EXTENDS SessionLoop, RowPipeline, FiniteSetTheorems, TLAPS

-----------------------------------------------------------------------------
(* The session-loop *)


\* The word is not empty.
LEMMA WordNat == Word \in Nat \ {0}
  BY ParametersAssumption DEF Word

\* The bounds are numbers.
LEMMA BoundsNat == MaxSessions \in Nat /\ MaxOutages \in Nat
  BY ParametersAssumption

\* The scaled base is a number.
LEMMA ScaledNat == ASSUME NEW attempt \in Nat \ {0} PROVE Scaled(attempt) \in Nat
  <1>1. Lesser(attempt - 1, Width - 2) \in 0 .. Width
    BY ParametersAssumption DEF Lesser
  <1>2. 2 ^ Lesser(attempt - 1, Width - 2) \in Nat
    BY <1>1, ParametersAssumption
  <1>3. BaseMs \in Nat
    BY WordNat, ParametersAssumption
  <1>4. \A n \in Nat : BaseMs * n \in Nat
    BY <1>3
  <1> QED
    BY <1>2, <1>4, WordNat DEF Scaled, Lesser

\* A delay is a number of milliseconds that never exceeds the cap.
LEMMA DelayCapped ==
    ASSUME NEW attempt \in Nat \ {0}, NEW d \in Delays(attempt)
    PROVE  d \in Nat /\ d <= MaxMs
  <1>1. PICK n : d = Lesser(n % Word, MaxMs) /\ n \in Int
    <2> DEFINE base == Lesser(Scaled(attempt), MaxMs)
               jitter == base \div 5
    <2>1. base \in Nat
      BY WordNat, ScaledNat, ParametersAssumption DEF Lesser
    <2>2. jitter \in Nat
      BY <2>1
    <2>3. PICK r \in 0 .. 2 * jitter : d = Lesser((base - jitter + r) % Word, MaxMs)
      BY DEF Delays
    <2> HIDE DEF base, jitter
    <2>4. r \in Int
      BY <2>2
    <2> QED
      BY <2>1, <2>2, <2>3, <2>4
  <1>2. n % Word \in Nat
    BY <1>1, WordNat
  <1> QED
    BY <1>1, <1>2, WordNat, ParametersAssumption DEF Lesser

\* The exponent of attempt n never reaches the width of the word.
LEMMA ShiftRange ==
    ASSUME NEW attempt \in Nat \ {0}
    PROVE  /\ Lesser(attempt - 1, Width - 2) \in 0 .. Width
           /\ 2 ^ Lesser(attempt - 1, Width - 2) \in Nat \ {0}
  <1>1. Lesser(attempt - 1, Width - 2) \in 0 .. Width
    BY ParametersAssumption DEF Lesser
  <1> QED
    BY <1>1, ParametersAssumption

\* A product with a larger factor is larger.
LEMMA ProductGrows ==
    \A b, x, y \in Nat : x <= y => b * x <= b * y /\ b * x \in Nat /\ b * y \in Nat
  OBVIOUS

\* The scaled base grows from one attempt to the next, and is not nil.
LEMMA ScaledGrows ==
    ASSUME NEW attempt \in Nat \ {0}
    PROVE  /\ Scaled(attempt) <= Scaled(attempt + 1)
           /\ BaseMs > 0 => Scaled(attempt) > 0
  <1> DEFINE n == Lesser(attempt - 1, Width - 2)
             m == Lesser((attempt + 1) - 1, Width - 2)
  <1>1. n \in 0 .. Width /\ 2 ^ n \in Nat \ {0} /\ m \in 0 .. Width /\ 2 ^ m \in Nat \ {0}
    BY ShiftRange
  <1>2. m = n \/ (m = n + 1 /\ n < Width)
    BY ParametersAssumption DEF Lesser
  <1>3. 2 ^ n <= 2 ^ m
    <2>1. CASE m = n
      BY <1>1, <2>1
    <2>2. CASE m = n + 1 /\ n < Width
      <3>1. 2 ^ (n + 1) = 2 * 2 ^ n
        BY <1>1, <2>2, ParametersAssumption
      <3>2. 2 ^ m = 2 * 2 ^ n
        BY <2>2, <3>1
      <3> QED
        BY <1>1, <3>2
    <2> QED
      BY <1>2, <2>1, <2>2
  <1>4. BaseMs \in Nat /\ BaseMs <= Word - 1 /\ Word \in Nat
    BY WordNat, ParametersAssumption
  <1>5. Scaled(attempt) = Lesser(BaseMs * 2 ^ n, Word - 1)
        /\ Scaled(attempt + 1) = Lesser(BaseMs * 2 ^ m, Word - 1)
    BY DEF Scaled
  <1> HIDE DEF n, m
  <1>6. BaseMs * 2 ^ n <= BaseMs * 2 ^ m /\ BaseMs * 2 ^ n \in Nat /\ BaseMs * 2 ^ m \in Nat
    BY <1>1, <1>3, <1>4, ProductGrows
  <1>7. BaseMs * 1 <= BaseMs * 2 ^ n
    BY <1>1, <1>4, ProductGrows
  <1>8. Scaled(attempt) <= Scaled(attempt + 1)
    BY <1>4, <1>5, <1>6 DEF Lesser
  <1>9. BaseMs > 0 => Scaled(attempt) > 0
    BY <1>4, <1>5, <1>6, <1>7 DEF Lesser
  <1> QED
    BY <1>8, <1>9

\* The delay before its jitter.
Capped(attempt) == Lesser(Scaled(attempt), MaxMs)

LEMMA CappedNat ==
    ASSUME NEW attempt \in Nat \ {0} PROVE Capped(attempt) \in Nat /\ Capped(attempt) <= MaxMs
  BY WordNat, ScaledNat, ParametersAssumption DEF Capped, Lesser

\* The jitter moves a delay by a fifth at most, in either direction.
LEMMA JitterBounded ==
    ASSUME 6 * MaxMs < 5 * Word, NEW attempt \in Nat \ {0}, NEW d \in Delays(attempt)
    PROVE  d \in Nat /\ 4 * Capped(attempt) <= 5 * d /\ 5 * d <= 6 * Capped(attempt)
  <1>1. ASSUME NEW b \in Nat, NEW j \in Nat, j = b \div 5, b <= MaxMs, NEW r \in 0 .. 2 * j,
               d = Lesser((b - j + r) % Word, MaxMs)
        PROVE  d \in Nat /\ 4 * b <= 5 * d /\ 5 * d <= 6 * b
    <2>1. 5 * j <= b
      BY <1>1
    <2>2. Word \in Nat \ {0} /\ MaxMs \in Nat
      BY WordNat, ParametersAssumption
    <2>3. b - j + r \in Nat /\ 5 * (b - j + r) <= 6 * b /\ 4 * b <= 5 * (b - j + r)
      BY <1>1, <2>1
    <2>4. b - j + r < Word
      BY <1>1, <2>2, <2>3
    <2>5. \A n, w \in Nat : n < w => n % w = n
      OBVIOUS
    <2>6. (b - j + r) % Word = b - j + r
      BY <2>2, <2>3, <2>4, <2>5
    <2>7. d = Lesser(b - j + r, MaxMs)
      BY <1>1, <2>6
    <2> QED
      BY <1>1, <2>2, <2>3, <2>7 DEF Lesser
  <1> DEFINE b == Capped(attempt)
             j == b \div 5
  <1>2. b \in Nat /\ b <= MaxMs
    BY CappedNat
  <1>3. j \in Nat
    BY <1>2
  <1>4. PICK r \in 0 .. 2 * j : d = Lesser((b - j + r) % Word, MaxMs)
    BY DEF Delays, Capped
  <1> HIDE DEF b
  <1> QED
    BY <1>1, <1>2, <1>3, <1>4 DEF b

\* From one attempt to the next no delay falls below two thirds.
LEMMA DelaysGrow ==
    ASSUME 6 * MaxMs < 5 * Word, NEW attempt \in Nat \ {0},
           NEW d \in Delays(attempt), NEW e \in Delays(attempt + 1)
    PROVE  3 * e >= 2 * d
  <1>1. Capped(attempt) <= Capped(attempt + 1)
    BY ScaledGrows, ScaledNat, WordNat, ParametersAssumption DEF Capped, Lesser
  <1>2. Capped(attempt) \in Nat /\ Capped(attempt + 1) \in Nat
    BY CappedNat
  <1>3. d \in Nat /\ 5 * d <= 6 * Capped(attempt)
    BY JitterBounded
  <1>4. e \in Nat /\ 4 * Capped(attempt + 1) <= 5 * e
    BY JitterBounded
  <1> QED
    BY <1>1, <1>2, <1>3, <1>4

\* The invariant holds at first.
LEMMA InitLoopInv == Init => LoopInv
  <1> SUFFICES ASSUME Init PROVE LoopInv
    OBVIOUS
  <1>1. TypeOK
    <2>1. outages \in 0 .. MaxOutages
      BY BoundsNat DEF Init
    <2>2. sessions \in 0 .. MaxSessions
      BY BoundsNat DEF Init
    <2> QED
      BY <2>1, <2>2 DEF Init, TypeOK
  <1>2. FailuresCounted
    BY DEF Init, FailuresCounted, Counted
  <1>3. LateCounted
    BY DEF Init, LateCounted
  <1>4. DelayFollows
    BY DEF Init, DelayFollows
  <1> QED
    BY <1>1, <1>2, <1>3, <1>4 DEF LoopInv

\* Every step keeps types.
LEMMA NextTypeOK == TypeOK /\ [Next]_vars => TypeOK'
  <1> SUFFICES ASSUME TypeOK, [Next]_vars PROVE TypeOK'
    OBVIOUS
  <1>1. CASE Signal
    BY <1>1 DEF Signal, TypeOK
  <1>2. CASE ServerChanges
    BY <1>2, BoundsNat DEF ServerChanges, TypeOK
  <1>3. CASE GiveUp \/ ShutdownInBackoff
    BY <1>3 DEF GiveUp, ShutdownInBackoff, End, TypeOK
  <1>4. CASE BackOff
    <2>1. delay' \in Nat
      BY <1>4, DelayCapped DEF BackOff, TypeOK
    <2> QED
      BY <1>4, <2>1 DEF BackOff, TypeOK
  <1>5. CASE StartSession
    <2>1. sessions' \in 0 .. MaxSessions
      BY <1>5, BoundsNat DEF StartSession, TypeOK
    <2>2. late' \in Nat
      BY <1>5 DEF StartSession, TypeOK
    <2> QED
      BY <1>5, <2>1, <2>2 DEF StartSession, TypeOK
  <1>6. CASE Connect
    BY <1>6 DEF Connect, TypeOK
  <1>7. CASE ConnectFails
    BY <1>7 DEF ConnectFails, Reconnect, TypeOK
  <1>8. CASE Advance
    BY <1>8 DEF Advance, TypeOK
  <1>9. CASE ConnectionDrops \/ SessionFails
    <2>1. outages' \in 0 .. MaxOutages
      BY <1>9, BoundsNat DEF ConnectionDrops, SessionFails, TypeOK
    <2>2. failures' \in Nat /\ phase' = "top"
      BY <1>9 DEF ConnectionDrops, SessionFails, EndsByError, Reconnect, ReconnectAfterHealthy, TypeOK
    <2> QED
      BY <1>9, <2>1, <2>2 DEF ConnectionDrops, SessionFails, EndsByError, TypeOK
  <1>10. CASE SessionFatal \/ SessionShutdown
    BY <1>10 DEF SessionFatal, SessionShutdown, End, TypeOK
  <1>11. CASE UNCHANGED vars
    BY <1>11 DEF vars, TypeOK
  <1> QED
    BY <1>1, <1>2, <1>3, <1>4, <1>5, <1>6, <1>7, <1>8, <1>9, <1>10, <1>11
       DEF Next, Loop, Session

\* The counter counts refusals, and the drop of a healthy session once.
LEMMA NextCounted == TypeOK /\ FailuresCounted /\ [Next]_vars => FailuresCounted'
  <1> SUFFICES ASSUME TypeOK, FailuresCounted, [Next]_vars, command' # "replicate"
               PROVE  FailuresCounted'
    BY DEF FailuresCounted
  <1>0. failures \in Nat /\ refused \in Nat /\ Counted \in Nat /\ MaxAttempts[command] \in Nat
    BY ParametersAssumption DEF TypeOK, Counted
  <1>a. /\ command # "replicate" /\ command' = command
        /\ UNCHANGED <<refused, connected>> => UNCHANGED Counted
    BY DEF Next, Loop, Session, Signal, ServerChanges, GiveUp, BackOff, ShutdownInBackoff,
           StartSession, Connect, ConnectFails, Advance, ConnectionDrops, SessionFails,
           EndsByError, SessionFatal, SessionShutdown, vars, Counted
  <1>1. CASE Signal \/ ServerChanges
    BY <1>1, <1>a DEF Signal, ServerChanges, FailuresCounted
  <1>2. CASE GiveUp
    BY <1>2, <1>a DEF GiveUp, Exhausted, End, FailuresCounted
  <1>3. CASE BackOff
    BY <1>3, <1>a DEF BackOff, FailuresCounted
  <1>4. CASE ShutdownInBackoff \/ SessionFatal \/ SessionShutdown
    BY <1>4, <1>a DEF ShutdownInBackoff, SessionFatal, SessionShutdown, End,
                      FailuresCounted
  <1>5. CASE StartSession
    BY <1>5, <1>a DEF StartSession, MayStart, FailuresCounted
  <1>6. CASE Connect
    BY <1>6, <1>a DEF Connect, FailuresCounted
  <1>7. CASE ConnectFails
    <2>1. Counted' = Counted + 1
      BY <1>7, <1>0 DEF ConnectFails, Counted
    <2> QED
      BY <1>7, <1>0, <1>a, <2>1 DEF ConnectFails, Reconnect, FailuresCounted
  <1>8. CASE Advance
    BY <1>8, <1>a DEF Advance
  <1>9. CASE ConnectionDrops \/ SessionFails
    <2>1. failures' = 1 /\ phase' = "top" /\ connected /\ UNCHANGED <<refused, connected, result>>
      BY <1>9, <1>a DEF ConnectionDrops, SessionFails, EndsByError, ReconnectAfterHealthy, FailuresCounted
    <2>2. Counted' >= 1
      BY <2>1, <1>0 DEF Counted
    <2>3. result' = "none"
      BY <1>9, <1>a, <2>1 DEF ConnectionDrops, SessionFails, EndsByError, FailuresCounted
    <2> QED
      BY <2>1, <2>2, <2>3 DEF FailuresCounted
  <1>10. CASE UNCHANGED vars
    BY <1>10, <1>a DEF vars, FailuresCounted
  <1> QED
    BY <1>1, <1>2, <1>3, <1>4, <1>5, <1>6, <1>7, <1>8, <1>9, <1>10
       DEF Next, Loop, Session

\* Once the signal is there only the first session can start.
LEMMA NextLate == TypeOK /\ LateCounted /\ [Next]_vars => LateCounted'
  <1> SUFFICES ASSUME TypeOK, LateCounted, [Next]_vars PROVE LateCounted'
    OBVIOUS
  <1>0. late \in Nat /\ failures \in Nat /\ sessions \in Nat
    BY ParametersAssumption DEF TypeOK
  <1>1. CASE Signal \/ ServerChanges
    BY <1>1 DEF Signal, ServerChanges, LateCounted
  <1>2. CASE GiveUp \/ BackOff \/ ShutdownInBackoff
    BY <1>2 DEF GiveUp, BackOff, ShutdownInBackoff, End, LateCounted
  <1>3. CASE StartSession
    BY <1>3, <1>0 DEF StartSession, MayStart, LateCounted
  <1>4. CASE Connect \/ Advance \/ SessionFatal \/ SessionShutdown
    BY <1>4 DEF Connect, Advance, SessionFatal, SessionShutdown, End, LateCounted
  <1>5. CASE ConnectFails
    BY <1>5, <1>0 DEF ConnectFails, Reconnect, LateCounted
  <1>6. CASE ConnectionDrops \/ SessionFails
    BY <1>6, <1>0 DEF ConnectionDrops, SessionFails, EndsByError, Reconnect, ReconnectAfterHealthy, LateCounted
  <1>7. CASE UNCHANGED vars
    BY <1>7 DEF vars, LateCounted
  <1> QED
    BY <1>1, <1>2, <1>3, <1>4, <1>5, <1>6, <1>7 DEF Next, Loop, Session

\* The delay stays that of the last failure a session followed.
LEMMA NextDelay == TypeOK /\ DelayFollows /\ [Next]_vars => DelayFollows'
  <1> SUFFICES ASSUME TypeOK, DelayFollows, [Next]_vars PROVE DelayFollows'
    OBVIOUS
  <1>0. failures \in Nat
    BY DEF TypeOK
  <1>1. CASE Signal \/ ServerChanges
    BY <1>1 DEF Signal, ServerChanges, DelayFollows, Delays
  <1>2. CASE GiveUp \/ ShutdownInBackoff \/ SessionFatal \/ SessionShutdown
    BY <1>2 DEF GiveUp, ShutdownInBackoff, SessionFatal, SessionShutdown, End, DelayFollows
  <1>3. CASE BackOff
    BY <1>3 DEF BackOff, DelayFollows, Delays
  <1>4. CASE StartSession
    BY <1>4, <1>0 DEF StartSession, MayStart, DelayFollows, Delays
  <1>5. CASE Connect \/ Advance
    BY <1>5 DEF Connect, Advance, DelayFollows, Delays
  <1>6. CASE ConnectFails \/ ConnectionDrops \/ SessionFails
    <2>1. /\ UNCHANGED delay /\ phase' = "top"
          /\ failures' = failures + 1 \/ failures' = 1
          /\ phase \in {"connecting", "connected"}
      BY <1>6 DEF ConnectFails, ConnectionDrops, SessionFails, EndsByError, Reconnect, ReconnectAfterHealthy
    <2>2. failures' > 1 => failures > 0 /\ failures' - 1 = failures
      BY <1>0, <2>1
    <2>3. failures' > 1 => delay' \in Delays(failures' - 1)
      BY <2>1, <2>2 DEF DelayFollows
    <2> QED
      BY <2>1, <2>3 DEF DelayFollows, Delays
  <1>7. CASE UNCHANGED vars
    BY <1>7 DEF vars, DelayFollows, Delays
  <1> QED
    BY <1>1, <1>2, <1>3, <1>4, <1>5, <1>6, <1>7 DEF Next, Loop, Session

\* The inductive invariant of the session-loop.
THEOREM LoopInvariant == Spec => []LoopInv
  <1>1. LoopInv /\ [Next]_vars => LoopInv'
    BY NextTypeOK, NextCounted, NextLate, NextDelay DEF LoopInv
  <1> QED
    BY InitLoopInv, <1>1, PTL DEF Spec

\* The session-loop of listen and consume never gives up before the allowed
\* number of connections in a row was refused, the last drop counting as one.
THEOREM GiveUpSound == Spec => []GivesUpForRefusals
  <1>1. LoopInv => GivesUpForRefusals
    <2> SUFFICES ASSUME TypeOK, FailuresCounted, command # "replicate", result = "gave_up"
                 PROVE  refused >= IF connected THEN MaxAttempts[command] - 1 ELSE MaxAttempts[command]
      BY DEF LoopInv, GivesUpForRefusals
    <2>1. failures >= MaxAttempts[command] /\ failures <= Counted /\ failures \in Nat
          /\ refused \in Nat /\ MaxAttempts[command] \in Nat
      BY ParametersAssumption DEF FailuresCounted, TypeOK
    <2> QED
      BY <2>1 DEF Counted
  <1> QED
    BY <1>1, LoopInvariant, PTL

\* After the signal no session starts but the first.
THEOREM SignalStopsSessions == Spec => []OnlyFirstSessionLate
  <1>1. LoopInv => OnlyFirstSessionLate
    BY DEF LoopInv, LateCounted, OnlyFirstSessionLate
  <1> QED
    BY <1>1, LoopInvariant, PTL

\* Jitter never defeats the backoff: within the cap, never nil, and from one
\* failure to the next no lower than two thirds.
THEOREM BackoffSound == Spec => BackoffHolds
  <1> DEFINE Sound == /\ 6 * MaxMs < 5 * Word
                      /\ phase = "top" /\ phase' = "backoff"
                      => /\ delay' <= MaxMs
                         /\ BaseMs > 0 /\ MaxMs > 0 => delay' > 0
                         /\ failures > 1 => 3 * delay' >= 2 * delay
  <1>1. LoopInv /\ [Next]_vars => [Sound]_vars
    <2> SUFFICES ASSUME TypeOK, DelayFollows, Next, 6 * MaxMs < 5 * Word,
                        phase = "top", phase' = "backoff"
                 PROVE  /\ delay' <= MaxMs
                        /\ BaseMs > 0 /\ MaxMs > 0 => delay' > 0
                        /\ failures > 1 => 3 * delay' >= 2 * delay
      BY DEF LoopInv
    <2>1. BackOff
      BY DEF Next, Loop, Session, Signal, ServerChanges, GiveUp, BackOff, ShutdownInBackoff,
             StartSession, Connect, ConnectFails, Advance, ConnectionDrops, SessionFails,
             EndsByError, SessionFatal, SessionShutdown, End, Reconnect, ReconnectAfterHealthy
    <2>2. failures \in Nat \ {0} /\ delay' \in Delays(failures)
      BY <2>1 DEF BackOff, TypeOK
    <2>3. delay' \in Nat /\ delay' <= MaxMs
      BY <2>2, DelayCapped
    <2>4. ASSUME BaseMs > 0, MaxMs > 0 PROVE delay' > 0
      <3>1. Capped(failures) > 0
        BY <2>2, <2>4, ScaledGrows, ScaledNat, WordNat, ParametersAssumption DEF Capped, Lesser
      <3>2. 4 * Capped(failures) <= 5 * delay' /\ Capped(failures) \in Nat
        BY <2>2, JitterBounded, CappedNat
      <3> QED
        BY <2>3, <3>1, <3>2
    <2>5. ASSUME failures > 1 PROVE 3 * delay' >= 2 * delay
      <3>1. failures - 1 \in Nat \ {0} /\ (failures - 1) + 1 = failures
        BY <2>2, <2>5
      <3>2. delay \in Delays(failures - 1)
        BY <2>5 DEF DelayFollows
      <3>3. delay' \in Delays((failures - 1) + 1)
        BY <2>2, <3>1
      <3> QED
        BY <3>1, <3>2, <3>3, DelaysGrow
    <2> QED
      BY <2>3, <2>4, <2>5
  <1>2. BackoffHolds <=> [][Sound]_vars
    BY DEF BackoffHolds
  <1> QED
    BY <1>1, <1>2, LoopInvariant, PTL DEF Spec

-----------------------------------------------------------------------------
(* Sequences *)

\* A sequence is one of its own elements.
LEMMA OwnElements == ASSUME NEW S, NEW s \in Seq(S) PROVE s \in Seq(Range(s))
  <1>1. /\ s \in [1 .. Len(s) -> S] /\ Len(s) \in Nat /\ DOMAIN s = 1 .. Len(s)
    OBVIOUS
  <1>2. \A i \in 1 .. Len(s) : s[i] \in Range(s)
    BY <1>1 DEF Range
  <1> QED
    BY <1>1, <1>2

\* Two sequences one after the other.
LEMMA JoinedType ==
    ASSUME NEW s, NEW t, s \in Seq(Range(s)), t \in Seq(Range(t))
    PROVE  s \o t \in Seq(Range(s \o t))
  <1> DEFINE S == Range(s) \cup Range(t)
  <1>1. s \in Seq(S) /\ t \in Seq(S)
    OBVIOUS
  <1>2. s \o t \in Seq(S)
    BY <1>1
  <1> QED
    BY <1>2, OwnElements

LEMMA Joined ==
    ASSUME NEW s, NEW t, s \in Seq(Range(s)), t \in Seq(Range(t))
    PROVE  /\ Len(s) \in Nat /\ Len(t) \in Nat /\ Len(s \o t) = Len(s) + Len(t)
           /\ DOMAIN (s \o t) = 1 .. Len(s) + Len(t)
           /\ \A i \in 1 .. Len(s) : (s \o t)[i] = s[i]
           /\ \A i \in 1 .. Len(t) : (s \o t)[Len(s) + i] = t[i]
  OBVIOUS

\* A sequence of one.
LEMMA Single ==
    ASSUME NEW x
    PROVE  /\ <<x>> \in Seq(Range(<<x>>)) /\ Len(<<x>>) = 1 /\ <<x>>[1] = x
           /\ DOMAIN <<x>> = 1 .. 1
  <1>1. <<x>> \in Seq({x})
    OBVIOUS
  <1>2. <<x>> \in Seq(Range(<<x>>))
    BY <1>1, OwnElements
  <1>3. Len(<<x>>) = 1 /\ <<x>>[1] = x /\ DOMAIN <<x>> = 1 .. 1
    OBVIOUS
  <1> QED
    BY <1>2, <1>3

\* The empty sequence.
LEMMA Empty == <<>> \in Seq(Range(<<>>)) /\ Len(<<>>) = 0 /\ DOMAIN <<>> = {}
  <1>1. <<>> \in Seq({})
    OBVIOUS
  <1> QED
    BY <1>1, OwnElements

\* A sequence without its head.
LEMMA Behind ==
    ASSUME NEW s, s \in Seq(Range(s)), s # <<>>
    PROVE  /\ Tail(s) \in Seq(Range(Tail(s))) /\ Head(s) = s[1]
           /\ Len(s) \in Nat \ {0} /\ Len(Tail(s)) = Len(s) - 1
           /\ DOMAIN s = 1 .. Len(s) /\ DOMAIN Tail(s) = 1 .. Len(s) - 1
           /\ \A i \in 1 .. Len(s) - 1 : Tail(s)[i] = s[i + 1]
  <1>1. Tail(s) \in Seq(Range(s))
    OBVIOUS
  <1>2. Tail(s) \in Seq(Range(Tail(s)))
    BY <1>1, OwnElements
  <1> QED
    BY <1>2

\* One more element.
LEMMA Appended ==
    ASSUME NEW s, NEW x, s \in Seq(Range(s))
    PROVE  /\ Append(s, x) \in Seq(Range(Append(s, x)))
           /\ Len(s) \in Nat /\ Len(Append(s, x)) = Len(s) + 1
           /\ DOMAIN s = 1 .. Len(s) /\ DOMAIN Append(s, x) = 1 .. Len(s) + 1
           /\ \A i \in 1 .. Len(s) : Append(s, x)[i] = s[i]
           /\ Append(s, x)[Len(s) + 1] = x
  <1>1. Append(s, x) \in Seq(Range(s) \cup {x})
    OBVIOUS
  <1>2. Append(s, x) \in Seq(Range(Append(s, x)))
    BY <1>1, OwnElements
  <1> QED
    BY <1>2

-----------------------------------------------------------------------------
(* Columns and changes *)

\* A column list is a sequence of names of their own, and not empty.
LEMMA ColumnFacts ==
    ASSUME NEW t \in Tables, NEW cols \in Range(Shapes[t])
    PROVE  /\ cols \in Seq(STRING) /\ cols # NotDescribed /\ IsInjective(cols)
           /\ DOMAIN cols = 1 .. Len(cols) /\ Len(cols) \in Nat
  <1>1. Shapes[t] \in Seq(Seq(STRING) \ {<<>>})
    BY PipelineAssumption
  <1>2. cols \in Seq(STRING) \ {<<>>}
    BY <1>1 DEF Range
  <1> QED
    BY <1>2, PipelineAssumption DEF NotDescribed

\* A change of a row is of one table, with columns the table had.
LEMMA RowChangeFacts ==
    ASSUME NEW c \in RowChanges
    PROVE  /\ c.rel \in Tables /\ c.op \in DOMAIN Cells /\ c.op # "truncate"
           /\ DOMAIN c.cols = {c.rel} /\ c.cols[c.rel] \in Range(Shapes[c.rel])
           /\ Fits(c.old, c.cols[c.rel]) /\ Fits(c.new, c.cols[c.rel])
  <1> DEFINE Made(t, op, cols) == {RowChange(t, op, cols, d) : d \in Tuples(op, cols)}
             Of(t, op) == UNION {Made(t, op, cols) : cols \in Range(Shapes[t])}
  <1>1. PICK t \in Tables, op \in DOMAIN Cells : c \in Of(t, op)
    <2>1. RowChanges = UNION {Of(t, op) : t \in Tables, op \in DOMAIN Cells}
      BY DEF RowChanges
    <2> HIDE DEF Of
    <2> QED
      BY <2>1
  <1>2. PICK cols \in Range(Shapes[t]) : c \in Made(t, op, cols)
    BY <1>1
  <1>3. PICK d \in Tuples(op, cols) : c = RowChange(t, op, cols, d)
    BY <1>2
  <1> QED
    BY <1>3, PipelineAssumption DEF RowChange, Tuples

\* Every logged change is of tables, each with columns the table had.
LEMMA ChangeFacts ==
    ASSUME WalInv, NEW p \in DOMAIN wal
    PROVE  /\ DOMAIN wal[p].cols \subseteq Tables
           /\ \A t \in DOMAIN wal[p].cols : wal[p].cols[t] \in Range(Shapes[t])
           /\ wal[p].op # "truncate" => wal[p] \in RowChanges
  <1>1. CASE wal[p] \in RowChanges
    BY <1>1, RowChangeFacts
  <1>2. CASE ~(wal[p] \in RowChanges)
    BY <1>2, PipelineAssumption DEF WalInv
  <1> QED
    BY <1>1, <1>2

\* What travels is a description or a change, by its tag.
LEMMA Tags ==
    ASSUME NEW p, NEW t, NEW cols
    PROVE  Message(p).tag # "R" /\ Message(p).at = p /\ Relation(t, cols).tag = "R"
           /\ Relation(t, cols).rel = t /\ Relation(t, cols).cols = cols
  BY DEF Message, Relation

\* The positions on the way are positions of the WAL.
LEMMA Numbers ==
    ASSUME PipelineTypeOK
    PROVE  /\ sent \in Nat /\ handled \in Nat /\ Len(wal) \in Nat /\ DOMAIN wal = 1 .. Len(wal)
           /\ handled <= sent /\ sent <= Len(wal)
           /\ Len(wire) \in Nat /\ DOMAIN wire = 1 .. Len(wire)
           /\ Len(delivered) \in Nat /\ DOMAIN delivered = 1 .. Len(delivered)
  BY DEF PipelineTypeOK
-----------------------------------------------------------------------------
(* What the session will know *)

KnowsNext(n, t, cols) ==
    \/ rel_cache'[t] = cols /\ \A j \in 1 .. n : wire'[j].tag = "R" => wire'[j].rel # t
    \/ \E i \in 1 .. n :
         /\ wire'[i] = Relation(t, cols)
         /\ \A j \in i + 1 .. n : wire'[j].tag = "R" => wire'[j].rel # t

\* What comes behind n messages is nothing to what they tell.
LEMMA KnowsKept ==
    ASSUME NEW n \in Nat, NEW t, NEW cols, Knows(n, t, cols), UNCHANGED rel_cache,
           \A j \in 1 .. n : wire'[j] = wire[j]
    PROVE  KnowsNext(n, t, cols)
  BY DEF Knows, KnowsNext

\* More messages that do not describe t.
LEMMA KnowsLonger ==
    ASSUME NEW n \in Nat, NEW m \in Nat, NEW t, NEW cols, n <= m, KnowsNext(n, t, cols),
           \A j \in n + 1 .. m : wire'[j].tag = "R" => wire'[j].rel # t
    PROVE  KnowsNext(m, t, cols)
  <1>1. \A j \in 1 .. m : j \in 1 .. n \/ j \in n + 1 .. m
    OBVIOUS
  <1>2. \A i \in 1 .. n : \A j \in i + 1 .. m : j \in i + 1 .. n \/ j \in n + 1 .. m
    OBVIOUS
  <1>3. \A i \in 1 .. n : i \in 1 .. m
    OBVIOUS
  <1> QED
    BY <1>1, <1>2, <1>3 DEF KnowsNext

\* What the session knows when it has taken its next message is the same, with
\* one message less to take.
LEMMA KnowsBehind ==
    ASSUME PipelineTypeOK, wire # <<>>, wire' = Tail(wire),
           \/ IsChange(1) /\ UNCHANGED rel_cache
           \/ \E r \in Tables : \E c : wire[1] = Relation(r, c)
                                       /\ rel_cache' = [rel_cache EXCEPT ![r] = c],
           NEW n \in 1 .. Len(wire), NEW t \in Tables, NEW cols, Knows(n, t, cols)
    PROVE  KnowsNext(n - 1, t, cols)
  <1>0. /\ Len(wire) \in Nat
        /\ \A j \in 1 .. n - 1 : j + 1 \in 1 .. n /\ wire'[j] = wire[j + 1]
    BY Behind DEF PipelineTypeOK
  <1>1. rel_cache \in [Tables -> Seq(STRING)]
    BY DEF PipelineTypeOK
  <1>2. CASE rel_cache[t] = cols /\ \A j \in 1 .. n : wire[j].tag = "R" => wire[j].rel # t
    <2>1. 1 \in 1 .. n
      OBVIOUS
    <2>2. ASSUME UNCHANGED rel_cache PROVE rel_cache'[t] = cols
      BY <1>2, <2>2
    <2>3. ASSUME NEW r \in Tables, NEW c, wire[1] = Relation(r, c),
                 rel_cache' = [rel_cache EXCEPT ![r] = c]
          PROVE  rel_cache'[t] = cols
      <3>1. wire[1].tag = "R" /\ wire[1].rel = r
        BY <2>3 DEF Relation
      <3>2. r # t
        BY <1>2, <2>1, <3>1
      <3> QED
        BY <1>1, <1>2, <2>3, <3>2
    <2>4. rel_cache'[t] = cols
      BY <2>2, <2>3
    <2> QED
      BY <1>0, <1>2, <2>4 DEF KnowsNext
  <1>3. ASSUME NEW i \in 1 .. n, wire[i] = Relation(t, cols),
               \A j \in i + 1 .. n : wire[j].tag = "R" => wire[j].rel # t
        PROVE  KnowsNext(n - 1, t, cols)
    <2>1. CASE i = 1
      <3>1. rel_cache'[t] = cols
        <4>1. /\ wire[1].tag = "R" /\ wire[1].rel = t /\ wire[1].cols = cols
          BY <1>3, <2>1 DEF Relation
        <4>2. PICK r, c : /\ r \in Tables /\ wire[1] = Relation(r, c)
                          /\ rel_cache' = [rel_cache EXCEPT ![r] = c]
          BY <4>1 DEF IsChange
        <4>3. r = t /\ c = cols
          BY <4>1, <4>2 DEF Relation
        <4> QED
          BY <1>1, <4>2, <4>3
      <3>2. \A j \in 1 .. n - 1 : j + 1 \in i + 1 .. n
        BY <1>0, <2>1
      <3> QED
        BY <1>0, <1>3, <3>1, <3>2 DEF KnowsNext
    <2>2. CASE i # 1
      <3>1. i - 1 \in 1 .. n - 1 /\ wire'[i - 1] = Relation(t, cols)
        BY <1>0, <1>3, <2>2
      <3>2. \A j \in (i - 1) + 1 .. n - 1 : j \in 1 .. n - 1 /\ j + 1 \in i + 1 .. n
        BY <1>0, <2>2
      <3> QED
        BY <1>0, <1>3, <3>1, <3>2 DEF KnowsNext
    <2> QED
      BY <2>1, <2>2
  <1> QED
    BY <1>2, <1>3 DEF Knows

-----------------------------------------------------------------------------
(* Sending *)

\* A function on 1 .. n is a sequence.
LEMMA Listed ==
    ASSUME NEW n \in Nat, NEW S, NEW f \in [1 .. n -> S]
    PROVE  f \in Seq(Range(f)) /\ Len(f) = n
  <1>1. f \in Seq(S) /\ Len(f) = n
    OBVIOUS
  <1> QED
    BY <1>1, OwnElements

\* Some messages, and one more, at the end of what is on the way.
IsJoined(w, s, r, x) ==
    /\ w \in Seq(Range(w)) /\ Len(w) = Len(s) + Len(r) + 1
    /\ DOMAIN w = 1 .. Len(s) + Len(r) + 1
    /\ \A i \in 1 .. Len(s) : w[i] = s[i]
    /\ \A k \in 1 .. Len(r) : w[Len(s) + k] = r[k]
    /\ w[Len(s) + Len(r) + 1] = x

LEMMA JoinedThree ==
    ASSUME NEW s, NEW r, NEW x, NEW w, s \in Seq(Range(s)), r \in Seq(Range(r)),
           w = s \o r \o <<x>>
    PROVE  IsJoined(w, s, r, x)
  <1>0. PICK v : v = <<x>>
    OBVIOUS
  <1>1. PICK u : u = s \o r
    OBVIOUS
  <1>2. u \in Seq(Range(u))
    BY <1>1, JoinedType
  <1>3. /\ Len(s) \in Nat /\ Len(r) \in Nat
        /\ Len(u) = Len(s) + Len(r)
        /\ \A i \in 1 .. Len(s) : u[i] = s[i]
        /\ \A k \in 1 .. Len(r) : u[Len(s) + k] = r[k]
    BY <1>1, Joined
  <1>4. v \in Seq(Range(v)) /\ Len(v) = 1 /\ v[1] = x
    BY <1>0, Single
  <1>5. w = u \o v
    BY <1>0, <1>1
  <1>6. w \in Seq(Range(w))
    <2>1. u \o v \in Seq(Range(u \o v))
      BY ONLY <1>2, <1>4, JoinedType
    <2> QED
      BY ONLY <1>5, <2>1
  <1>7. /\ Len(w) = Len(u) + Len(v)
        /\ DOMAIN w = 1 .. Len(u) + Len(v)
        /\ \A i \in 1 .. Len(u) : w[i] = u[i]
        /\ \A i \in 1 .. Len(v) : w[Len(u) + i] = v[i]
    <2>1. v \in Seq(Range(v))
      BY <1>4
    <2> QED
      BY ONLY <1>2, <2>1, <1>5, Joined
  <1>8. 1 \in 1 .. Len(v)
    BY <1>4
  <1>9. /\ Len(w) = Len(s) + Len(r) + 1 /\ w[Len(s) + Len(r) + 1] = x
    BY <1>3, <1>4, <1>7, <1>8
  <1>10. \A i \in 1 .. Len(s) : i \in 1 .. Len(u) /\ w[i] = s[i]
    BY <1>3, <1>7
  <1>11. \A k \in 1 .. Len(r) : Len(s) + k \in 1 .. Len(u) /\ w[Len(s) + k] = r[k]
    BY <1>3, <1>7
  <1>12. DOMAIN w = 1 .. Len(s) + Len(r) + 1
    BY <1>3, <1>4, <1>7
  <1> QED
    BY <1>6, <1>9, <1>10, <1>11, <1>12 DEF IsJoined

\* What SendChange puts on the wire: descriptions of the n tables that are news,
\* then the change.
Sends(n, news) ==
    LET cols == wal[sent + 1].cols IN
    /\ wire' \in Seq(Range(wire'))
    /\ Len(wire') = Len(wire) + n + 1
    /\ DOMAIN wire' = 1 .. Len(wire) + n + 1
    /\ \A i \in 1 .. Len(wire) : wire'[i] = wire[i]
    /\ wire'[Len(wire) + n + 1] = Message(sent + 1)
    /\ \A k \in 1 .. n :
         /\ news[k] \in DOMAIN cols
         /\ described[news[k]] # cols[news[k]]
         /\ wire'[Len(wire) + k] = Relation(news[k], cols[news[k]])
    /\ \A j, k \in 1 .. n : news[j] = news[k] => j = k
    /\ \A t \in DOMAIN cols : described[t] # cols[t] => \E k \in 1 .. n : news[k] = t

LEMMA SendFacts ==
    ASSUME PipelineTypeOK, WalInv, SendChange
    PROVE  sent + 1 \in DOMAIN wal /\ \E n \in Nat : \E news : Sends(n, news)
  <1> DEFINE cols == wal[sent + 1].cols
             ts == {t \in DOMAIN cols : described[t] # cols[t]}
             n == Cardinality(ts)
  <1>1. sent + 1 \in DOMAIN wal
    BY Numbers DEF SendChange
  <1>2. PICK news \in Orders(ts) :
          wire' = wire \o [k \in DOMAIN news |-> Relation(news[k], cols[news[k]])]
                       \o <<Message(sent + 1)>>
    BY DEF SendChange
  <1>3. n \in Nat
    <2>1. ts \subseteq Tables
      BY <1>1, ChangeFacts
    <2>2. IsFiniteSet(ts)
      <3> HIDE DEF ts
      <3> QED
        BY <2>1, PipelineAssumption, FS_Subset
    <2> HIDE DEF ts
    <2> QED
      BY <2>2, FS_CardinalityType
  <1> DEFINE R == [k \in DOMAIN news |-> Relation(news[k], cols[news[k]])]
  <1>4. /\ news \in [1 .. n -> ts] /\ Range(news) = ts
        /\ \A j, k \in 1 .. n : news[j] = news[k] => j = k
    BY <1>2 DEF Orders, IsInjective
  <1>5. R \in Seq(Range(R)) /\ Len(R) = n
    <2>1. R \in [1 .. n -> Range(R)]
      BY <1>4 DEF Range
    <2> HIDE DEF R, n
    <2> QED
      BY <1>3, <2>1, Listed
  <1>6. \A k \in 1 .. n : R[k] = Relation(news[k], cols[news[k]])
    BY <1>4
  <1>7. wire \in Seq(Range(wire))
    BY DEF PipelineTypeOK
  <1>8. /\ wire' \in Seq(Range(wire')) /\ Len(wire') = Len(wire) + n + 1
        /\ DOMAIN wire' = 1 .. Len(wire) + n + 1
        /\ \A i \in 1 .. Len(wire) : wire'[i] = wire[i]
        /\ \A k \in 1 .. n : wire'[Len(wire) + k] = R[k]
        /\ wire'[Len(wire) + n + 1] = Message(sent + 1)
    <2>1. PICK r : r = R
      OBVIOUS
    <2>2. wire' = wire \o r \o <<Message(sent + 1)>>
      BY <1>2, <2>1
    <2> HIDE DEF R, n
    <2>3. r \in Seq(Range(r)) /\ Len(r) = n
      BY <1>5, <2>1
    <2>4. IsJoined(wire', wire, r, Message(sent + 1))
      BY ONLY <1>7, <2>2, <2>3, JoinedThree
    <2> QED
      BY <2>1, <2>3, <2>4 DEF IsJoined
  <1>9. \A t \in DOMAIN cols : described[t] # cols[t] => \E k \in 1 .. n : news[k] = t
    BY <1>4 DEF Range
  <1>10. \A k \in 1 .. n : news[k] \in DOMAIN cols /\ described[news[k]] # cols[news[k]]
    BY <1>4
  <1>11. Sends(n, news)
    <2> HIDE DEF n, R
    <2> QED
      BY <1>4, <1>6, <1>8, <1>9, <1>10 DEF Sends
  <1> HIDE DEF n
  <1> QED
    BY <1>1, <1>3, <1>11
-----------------------------------------------------------------------------
(* The types and the WAL *)

\* A sequence with a sequence of at most one behind it.
LEMMA OneMore ==
    ASSUME NEW s, NEW x, s \in Seq(Range(s))
    PROVE  s \o <<x>> = Append(s, x) /\ s \o <<>> = s
  OBVIOUS

\* What a sink was given stays, and at most one thing is added.
LEMMA GivenMore ==
    ASSUME PipelineTypeOK, PipelineNext
    PROVE  delivered' = delivered \/ \E x : delivered' = Append(delivered, x)
  <1>0. delivered \in Seq(Range(delivered))
    BY DEF PipelineTypeOK
  <1>1. CASE HandleRelation
    <2>1. Announced(Head(wire)) = <<>> \/ \E x : Announced(Head(wire)) = <<x>>
      BY DEF Announced
    <2>2. delivered' = delivered \o Announced(Head(wire))
      BY <1>1 DEF HandleRelation
    <2> QED
      BY <1>0, <2>1, <2>2, OneMore
  <1>2. CASE HandleRow
    <2> DEFINE out == Outcome(Head(wire).at, Decoded(Head(wire)))
    <2>1. out = <<>> \/ \E x : out = <<x>>
      BY DEF Outcome
    <2>2. delivered' = delivered \o out
      BY <1>2 DEF HandleRow
    <2> HIDE DEF out
    <2> QED
      BY <1>0, <2>1, <2>2, OneMore
  <1>3. CASE HandleTruncate
    BY <1>3 DEF HandleTruncate
  <1>4. CASE ~(HandleRelation \/ HandleRow \/ HandleTruncate)
    BY <1>4 DEF PipelineNext, Change, Truncate, AlterTable, SendChange, NewSession, sessionVars
  <1> QED
    BY <1>1, <1>2, <1>3, <1>4

\* What the server can log is no matter of the state.
LEMMA SameRowChanges == RowChanges' = RowChanges
  BY DEF RowChanges, Tuples, Fits, RowChange

\* What a change of a row is made of.
LEMMA RowChangeOf ==
    ASSUME NEW t \in Tables, NEW op \in DOMAIN Cells, NEW cols \in Range(Shapes[t]),
           NEW c \in Tuples(op, cols)
    PROVE  RowChange(t, op, cols, c) \in RowChanges
  <1> DEFINE Made(r, o, s) == {RowChange(r, o, s, d) : d \in Tuples(o, s)}
             Of(r, o) == UNION {Made(r, o, s) : s \in Range(Shapes[r])}
  <1>1. RowChange(t, op, cols, c) \in Of(t, op)
    OBVIOUS
  <1>2. RowChanges = UNION {Of(r, o) : r \in Tables, o \in DOMAIN Cells}
    BY DEF RowChanges
  <1> HIDE DEF Of
  <1> QED
    BY <1>1, <1>2

\* A step keeps the WAL, or adds a change the server can log.
LEMMA WalStep ==
    ASSUME PipelineTypeOK, WalInv, PipelineNext
    PROVE  /\ WalInv'
           /\ wal' \in Seq(Range(wal'))
           /\ Len(wal') \in Nat /\ Len(wal) \in Nat /\ Len(wal') >= Len(wal)
           /\ \A p \in 1 .. Len(wal) : wal'[p] = wal[p]
  <1>0. wal \in Seq(Range(wal)) /\ DOMAIN wal = 1 .. Len(wal) /\ Len(wal) \in Nat
    BY Numbers DEF PipelineTypeOK
  <1> DEFINE Ok(c) ==
        \/ c \in RowChanges
        \/ /\ c.op = "truncate"
           /\ DOMAIN c.cols \in Truncates
           /\ \A t \in DOMAIN c.cols : c.cols[t] \in Range(Shapes[t])
  <1>1. \A t \in Tables : Columns(t) \in Range(Shapes[t])
    BY DEF PipelineTypeOK, Columns, Range
  <1>2. ASSUME NEW c, wal' = Append(wal, c), Ok(c)
        PROVE  /\ \A p \in DOMAIN wal' : Ok(wal'[p])
               /\ wal' \in Seq(Range(wal'))
               /\ Len(wal') = Len(wal) + 1
               /\ \A p \in 1 .. Len(wal) : wal'[p] = wal[p]
    <2>1. /\ wal' \in Seq(Range(wal')) /\ Len(wal') = Len(wal) + 1
          /\ DOMAIN wal' = 1 .. Len(wal) + 1
          /\ \A p \in 1 .. Len(wal) : wal'[p] = wal[p]
          /\ wal'[Len(wal) + 1] = c
      BY <1>0, <1>2, Appended
    <2>2. \A p \in DOMAIN wal : Ok(wal[p])
      BY DEF WalInv
    <2> HIDE DEF Ok
    <2> QED
      BY <1>0, <1>2, <2>1, <2>2
  <1>3. ASSUME NEW t \in Tables, NEW op \in DOMAIN Cells, Change(t, op)
        PROVE  \E c : wal' = Append(wal, c) /\ Ok(c)
    <2>1. PICK c \in Tuples(op, Columns(t)) : wal' = Append(wal, RowChange(t, op, Columns(t), c))
      BY <1>3 DEF Change
    <2>2. RowChange(t, op, Columns(t), c) \in RowChanges
      BY <1>1, <2>1, RowChangeOf
    <2> QED
      BY <2>1, <2>2
  <1>4. ASSUME NEW ts \in Truncates, Truncate(ts)
        PROVE  \E c : wal' = Append(wal, c) /\ Ok(c)
    <2> DEFINE c == [op |-> "truncate", cols |-> [r \in ts |-> Columns(r)]]
    <2>1. wal' = Append(wal, c)
      BY <1>4 DEF Truncate
    <2>2. Ok(c)
      BY <1>1, PipelineAssumption
    <2> QED
      BY <2>1, <2>2
  <1>5. ASSUME NEW c, wal' = Append(wal, c), Ok(c)
        PROVE  /\ WalInv'
               /\ wal' \in Seq(Range(wal'))
               /\ Len(wal') \in Nat /\ Len(wal) \in Nat /\ Len(wal') >= Len(wal)
               /\ \A p \in 1 .. Len(wal) : wal'[p] = wal[p]
    <2>1. WalInv'
      <3> SUFFICES ASSUME NEW p \in DOMAIN wal' PROVE Ok(wal'[p])
        BY SameRowChanges DEF WalInv
      <3> QED
        BY <1>2, <1>5
    <2> QED
      BY <1>0, <1>2, <1>5, <2>1
  <1>6. CASE UNCHANGED wal
    <2>1. WalInv'
      BY <1>6, SameRowChanges DEF WalInv
    <2> QED
      BY <1>0, <1>6, <2>1
  <1> HIDE DEF Ok
  <1> QED
    BY <1>3, <1>4, <1>5, <1>6
    DEF PipelineNext, AlterTable, SendChange, HandleRelation, HandleRow, HandleTruncate,
        NewSession, serverVars
\* A step keeps the types.
LEMMA PipelineTypeStep ==
    ASSUME PipelineTypeOK, WalInv, WireInv, PipelineNext
    PROVE  PipelineTypeOK'
  <1>1. delivered' \in Seq(Range(delivered'))
    <2>1. delivered \in Seq(Range(delivered))
      BY DEF PipelineTypeOK
    <2>2. \A x : delivered' = Append(delivered, x) => delivered' \in Seq(Range(delivered'))
      BY <2>1, Appended
    <2> QED
      BY <2>1, <2>2, GivenMore
  <1>2. /\ wal' \in Seq(Range(wal'))
        /\ Len(wal') \in Nat /\ Len(wal) \in Nat /\ Len(wal') >= Len(wal)
    BY WalStep
  <1>3. config' = config
    BY DEF PipelineNext, Change, Truncate, AlterTable, SendChange, HandleRelation, HandleRow,
           HandleTruncate, NewSession, configVars
  <1> DEFINE Rest ==
        /\ shape' \in [Tables -> Nat]
        /\ \A t \in Tables : shape'[t] \in DOMAIN Shapes[t]
        /\ wire' \in Seq(Range(wire'))
        /\ sent' \in 0 .. Len(wal')
        /\ handled' \in 0 .. sent'
        /\ drops' \in 0 .. MaxDrops
        /\ described' \in [Tables -> Seq(STRING)]
        /\ rel_cache' \in [Tables -> Seq(STRING)]
  <1>4. ASSUME NEW t \in Tables, NEW op \in DOMAIN Cells, Change(t, op) PROVE Rest
    BY <1>2, <1>4, Numbers DEF Change, PipelineTypeOK, sessionVars
  <1>5. ASSUME NEW ts \in Truncates, Truncate(ts) PROVE Rest
    BY <1>2, <1>5, Numbers DEF Truncate, PipelineTypeOK, sessionVars
  <1>6. ASSUME NEW t \in Tables, AlterTable(t) PROVE Rest
    <2>1. Shapes[t] \in Seq(Seq(STRING) \ {<<>>})
      BY PipelineAssumption
    <2>2. shape[t] + 1 \in DOMAIN Shapes[t] /\ shape[t] + 1 \in Nat
      BY <1>6, <2>1 DEF AlterTable, PipelineTypeOK
    <2> QED
      BY <1>2, <1>6, <2>2 DEF AlterTable, PipelineTypeOK, sessionVars
  <1>7. ASSUME SendChange PROVE Rest
    <2>1. sent + 1 \in DOMAIN wal /\ wire' \in Seq(Range(wire'))
      BY <1>7, SendFacts DEF Sends
    <2> DEFINE cols == wal[sent + 1].cols
    <2>2. \A t \in DOMAIN cols : cols[t] \in Seq(STRING)
      BY <2>1, ChangeFacts, ColumnFacts
    <2>3. described' = [t \in Tables |-> IF t \in DOMAIN cols THEN cols[t] ELSE described[t]]
      BY <1>7 DEF SendChange
    <2> HIDE DEF cols
    <2>4. described' \in [Tables -> Seq(STRING)]
      BY <2>2, <2>3 DEF PipelineTypeOK
    <2>5. sent' = sent + 1 /\ UNCHANGED <<shape, wal, rel_cache, handled, drops>>
      BY <1>7 DEF SendChange
    <2> QED
      BY <1>2, <2>1, <2>4, <2>5, Numbers DEF PipelineTypeOK
  <1>8. ASSUME wire # <<>>, wire' = Tail(wire) PROVE wire' \in Seq(Range(wire'))
    BY <1>8, Behind DEF PipelineTypeOK
  <1>9. ASSUME HandleRelation PROVE Rest
    <2> DEFINE m == wire[1]
    <2>1. Head(wire) = m /\ 1 \in DOMAIN wire
      BY <1>9, Behind DEF HandleRelation, PipelineTypeOK
    <2>2. m.cols \in Seq(STRING)
      BY <1>9, <2>1 DEF HandleRelation, WireInv, IsChange
    <2>3. rel_cache' = [rel_cache EXCEPT ![m.rel] = m.cols]
      BY <1>9, <2>1 DEF HandleRelation, Remembered
    <2> HIDE DEF m
    <2>4. rel_cache' \in [Tables -> Seq(STRING)]
      BY <2>2, <2>3 DEF PipelineTypeOK
    <2>5. wire # <<>> /\ wire' = Tail(wire) /\ UNCHANGED <<shape, sent, described, handled, drops>>
      BY <1>9 DEF HandleRelation, serverVars
    <2> QED
      BY <1>2, <1>8, <2>4, <2>5, Numbers DEF PipelineTypeOK
  <1>10. ASSUME HandleRow \/ HandleTruncate PROVE Rest
    <2>1. /\ wire # <<>> /\ wire' = Tail(wire) /\ handled' = handled + 1
          /\ UNCHANGED <<shape, sent, described, rel_cache, drops>>
      BY <1>10 DEF HandleRow, HandleTruncate, serverVars
    <2>2. handled + 1 <= sent
      <3>1. Head(wire) = wire[1] /\ 1 \in DOMAIN wire
        BY <2>1, Behind DEF PipelineTypeOK
      <3>2. IsChange(1)
        BY <1>10, <3>1 DEF HandleRow, HandleTruncate, IsChange
      <3>3. wire[1].at \in handled + 1 .. sent
        BY <3>1, <3>2 DEF WireInv
      <3> QED
        BY <3>3, Numbers
    <2> QED
      BY <1>2, <1>8, <2>1, <2>2, Numbers DEF PipelineTypeOK
  <1>11. ASSUME NewSession PROVE Rest
    <2>1. NotDescribed \in Seq(STRING)
      BY DEF NotDescribed
    <2>2. wire' \in Seq(Range(wire'))
      BY <1>11, Empty DEF NewSession
    <2>3. drops' \in 0 .. MaxDrops
      BY <1>11, PipelineAssumption DEF NewSession, PipelineTypeOK
    <2>4. /\ sent' = handled /\ UNCHANGED <<shape, handled>>
          /\ rel_cache' = [t \in Tables |-> NotDescribed]
          /\ described' = [t \in Tables |-> NotDescribed]
      BY <1>11 DEF NewSession
    <2> QED
      BY <1>2, <2>1, <2>2, <2>3, <2>4, Numbers DEF PipelineTypeOK
  <1>12. Rest
    <2> HIDE DEF Rest
    <2> QED
      BY <1>4, <1>5, <1>6, <1>7, <1>9, <1>10, <1>11 DEF PipelineNext
  <1> QED
    BY <1>1, <1>2, <1>3, <1>12 DEF PipelineTypeOK
-----------------------------------------------------------------------------
(* What is on the way *)

\* The message of a change after a step.
MessageNext(p) ==
    LET c == wal'[p] IN
    IF c.op = "truncate" THEN [tag |-> "T", at |-> p, rels |-> DOMAIN c.cols]
    ELSE [tag |-> "row", at |-> p, rel |-> c.rel, op |-> c.op, old |-> c.old, new |-> c.new]

\* The parts of WireInv after a step, for one message of the wire.
Carried(i) ==
    IF wire'[i].tag # "R"
    THEN /\ wire'[i].at \in handled' + 1 .. sent'
         /\ wire'[i] = MessageNext(wire'[i].at)
         /\ \A t \in DOMAIN wal'[wire'[i].at].cols : KnowsNext(i, t, wal'[wire'[i].at].cols[t])
    ELSE /\ wire'[i] = Relation(wire'[i].rel, wire'[i].cols)
         /\ wire'[i].rel \in Tables /\ wire'[i].cols \in Seq(STRING)

LEMMA WireNext ==
    ASSUME \A i \in DOMAIN wire' : Carried(i),
           \A i, j \in DOMAIN wire' :
             wire'[i].tag # "R" /\ wire'[j].tag # "R" /\ i < j => wire'[i].at < wire'[j].at,
           \A p \in handled' + 1 .. sent' : \E i \in DOMAIN wire' :
             wire'[i].tag # "R" /\ wire'[i].at = p,
           \A t \in Tables : KnowsNext(Len(wire'), t, described'[t])
    PROVE  WireInv'
  BY DEF WireInv, Carried, IsChange, Knows, KnowsNext, Relation, Message, MessageNext

\* A change that is on the way stays the same while the WAL grows.
LEMMA SameMessages ==
    ASSUME PipelineTypeOK, WalInv, PipelineNext, NEW p \in 1 .. sent
    PROVE  wal'[p] = wal[p] /\ MessageNext(p) = Message(p)
  <1>1. p \in 1 .. Len(wal)
    BY Numbers
  <1>2. wal'[p] = wal[p]
    BY <1>1, WalStep
  <1> QED
    BY <1>2 DEF Message, MessageNext

\* Nothing is sent or taken.
LEMMA WireKept ==
    ASSUME PipelineTypeOK, WalInv, WireInv, PipelineNext,
           UNCHANGED <<wire, sent, handled, rel_cache, described>>
    PROVE  WireInv'
  <1>1. \A i \in DOMAIN wire : Carried(i)
    <2> SUFFICES ASSUME NEW i \in DOMAIN wire PROVE Carried(i)
      OBVIOUS
    <2>1. CASE IsChange(i)
      <3> DEFINE p == wire[i].at
      <3>1. /\ p \in handled + 1 .. sent /\ wire[i] = Message(p)
            /\ \A t \in DOMAIN wal[p].cols : Knows(i, t, wal[p].cols[t])
        BY <2>1 DEF WireInv
      <3>2. p \in 1 .. sent
        BY <3>1, Numbers
      <3>3. wal'[p] = wal[p] /\ MessageNext(p) = Message(p)
        BY <3>2, SameMessages
      <3>4. wire'[i].at = p
        OBVIOUS
      <3> HIDE DEF p
      <3>5. \A t \in DOMAIN wal[p].cols : KnowsNext(i, t, wal[p].cols[t])
        BY <3>1 DEF Knows, KnowsNext
      <3> QED
        BY <2>1, <3>1, <3>3, <3>4, <3>5 DEF Carried, IsChange
    <2>2. CASE ~IsChange(i)
      BY <2>2 DEF WireInv, Carried, IsChange
    <2> QED
      BY <2>1, <2>2
  <1>2. \A t \in Tables : KnowsNext(Len(wire'), t, described'[t])
    BY DEF WireInv, Knows, KnowsNext
  <1>3. /\ \A i, j \in DOMAIN wire :
             wire[i].tag # "R" /\ wire[j].tag # "R" /\ i < j => wire[i].at < wire[j].at
        /\ \A p \in handled + 1 .. sent : \E i \in DOMAIN wire : wire[i].tag # "R" /\ wire[i].at = p
    BY DEF WireInv, IsChange
  <1> QED
    BY <1>1, <1>2, <1>3, WireNext
\* The first message of the wire: what it is, and that a change is the next one to
\* handle.
LEMMA FirstMessage ==
    ASSUME PipelineTypeOK, WireInv, wire # <<>>
    PROVE  /\ 1 \in DOMAIN wire /\ Head(wire) = wire[1]
           /\ IsChange(1) => /\ wire[1].at = handled + 1 /\ handled + 1 <= sent
                             /\ wire[1] = Message(handled + 1)
                             /\ \A t \in DOMAIN wal[handled + 1].cols :
                                  rel_cache[t] = wal[handled + 1].cols[t]
           /\ ~IsChange(1) => /\ wire[1] = Relation(wire[1].rel, wire[1].cols)
                              /\ wire[1].rel \in Tables /\ wire[1].cols \in Seq(STRING)
  <1>1. 1 \in DOMAIN wire /\ Head(wire) = wire[1] /\ DOMAIN wire = 1 .. Len(wire)
    BY Behind DEF PipelineTypeOK
  <1>2. ASSUME IsChange(1)
        PROVE  /\ wire[1].at = handled + 1 /\ handled + 1 <= sent
               /\ wire[1] = Message(handled + 1)
               /\ \A t \in DOMAIN wal[handled + 1].cols :
                    rel_cache[t] = wal[handled + 1].cols[t]
    <2>1. /\ wire[1].at \in handled + 1 .. sent /\ wire[1] = Message(wire[1].at)
          /\ \A t \in DOMAIN wal[wire[1].at].cols : Knows(1, t, wal[wire[1].at].cols[t])
      BY <1>1, <1>2 DEF WireInv
    <2>2. handled + 1 \in handled + 1 .. sent
      BY <2>1, Numbers
    <2>3. PICK i \in DOMAIN wire : IsChange(i) /\ wire[i].at = handled + 1
      BY <2>2 DEF WireInv
    <2>4. i = 1
      <3>1. CASE 1 < i
        <4>1. wire[1].at < handled + 1
          BY <1>1, <1>2, <2>3, <3>1 DEF WireInv
        <4> QED
          BY <2>1, <4>1, Numbers
      <3> QED
        BY <1>1, <3>1, Numbers
    <2>5. \A t, cols : Knows(1, t, cols) => rel_cache[t] = cols
      <3> SUFFICES ASSUME NEW t, NEW cols, NEW j \in 1 .. 1, wire[j] = Relation(t, cols)
                   PROVE  FALSE
        BY DEF Knows
      <3>1. j = 1
        OBVIOUS
      <3> QED
        BY <1>2, <3>1 DEF IsChange, Relation
    <2> QED
      BY <2>1, <2>2, <2>3, <2>4, <2>5, Numbers
  <1>3. ASSUME ~IsChange(1)
        PROVE  /\ wire[1] = Relation(wire[1].rel, wire[1].cols)
               /\ wire[1].rel \in Tables /\ wire[1].cols \in Seq(STRING)
    BY <1>1, <1>3 DEF WireInv
  <1> QED
    BY <1>1, <1>2, <1>3

\* What each of the three handlers takes off the wire.
LEMMA TakenFacts ==
    ASSUME PipelineTypeOK, WireInv, HandleRelation \/ HandleRow \/ HandleTruncate
    PROVE  /\ wire # <<>> /\ wire' = Tail(wire)
           /\ UNCHANGED <<wal, sent, described, config>>
           /\ \/ /\ HandleRow \/ HandleTruncate
                 /\ IsChange(1) /\ UNCHANGED rel_cache /\ handled' = handled + 1
              \/ /\ HandleRelation
                 /\ ~IsChange(1) /\ handled' = handled
                 /\ rel_cache' = [rel_cache EXCEPT ![wire[1].rel] = wire[1].cols]
  <1>1. wire # <<>> /\ Head(wire) = wire[1]
    <2>1. wire # <<>>
      BY DEF HandleRelation, HandleRow, HandleTruncate
    <2> QED
      BY <2>1, FirstMessage
  <1>2. CASE HandleRow \/ HandleTruncate
    BY <1>1, <1>2 DEF HandleRow, HandleTruncate, IsChange, serverVars, configVars
  <1>3. CASE HandleRelation
    BY <1>1, <1>3 DEF HandleRelation, Remembered, IsChange, serverVars, configVars
  <1> QED
    BY <1>2, <1>3

LEMMA WireTaken ==
    ASSUME PipelineTypeOK, WalInv, WireInv, PipelineNext,
           HandleRelation \/ HandleRow \/ HandleTruncate
    PROVE  WireInv'
  <1> DEFINE L == Len(wire)
  <1>0. /\ L \in Nat /\ DOMAIN wire = 1 .. L /\ DOMAIN wire' = 1 .. L - 1 /\ Len(wire') = L - 1
        /\ \A i \in 1 .. L - 1 : wire'[i] = wire[i + 1]
        /\ 1 \in DOMAIN wire /\ L >= 1
    <2>1. wire # <<>> /\ wire' = Tail(wire) /\ wire \in Seq(Range(wire))
      BY TakenFacts DEF PipelineTypeOK
    <2>2. /\ L \in Nat \ {0} /\ DOMAIN wire = 1 .. L
          /\ Len(Tail(wire)) = L - 1 /\ DOMAIN Tail(wire) = 1 .. L - 1
          /\ \A i \in 1 .. L - 1 : Tail(wire)[i] = wire[i + 1]
      BY ONLY <2>1, Behind
    <2> HIDE DEF L
    <2> QED
      BY <2>1, <2>2 DEF L
  <1>1. /\ UNCHANGED <<wal, sent, described>>
        /\ \/ IsChange(1) /\ UNCHANGED rel_cache
           \/ \E r \in Tables : \E c : wire[1] = Relation(r, c)
                                       /\ rel_cache' = [rel_cache EXCEPT ![r] = c]
    BY TakenFacts, FirstMessage
  <1>2. \A n \in 1 .. L, t \in Tables : \A cols : Knows(n, t, cols) => KnowsNext(n - 1, t, cols)
    <2> SUFFICES ASSUME NEW n \in 1 .. L, NEW t \in Tables, NEW cols, Knows(n, t, cols)
                 PROVE  KnowsNext(n - 1, t, cols)
      OBVIOUS
    <2>1. wire # <<>> /\ wire' = Tail(wire)
      BY TakenFacts
    <2> QED
      BY <1>1, <2>1, KnowsBehind
  <1>3. handled \in Nat /\ sent \in Nat /\ handled' \in {handled, handled + 1}
    BY TakenFacts, Numbers
  <1>4. \A i \in 2 .. L : IsChange(i) => wire[i].at \in handled' + 1 .. sent
    <2> SUFFICES ASSUME NEW i \in 2 .. L, IsChange(i) PROVE wire[i].at \in handled' + 1 .. sent
      OBVIOUS
    <2>1. wire[i].at \in handled + 1 .. sent /\ i \in DOMAIN wire /\ 1 < i
      BY <1>0 DEF WireInv
    <2>2. CASE handled' = handled
      BY <2>1, <2>2
    <2>3. CASE IsChange(1) /\ handled' = handled + 1
      <3>1. wire[1].at = handled + 1
        BY <2>3, FirstMessage, TakenFacts
      <3>2. wire[1].at < wire[i].at
        BY <1>0, <2>1, <2>3 DEF WireInv
      <3> QED
        BY <1>3, <2>1, <2>3, <3>1, <3>2
    <2> QED
      BY <2>2, <2>3, TakenFacts
  <1>5. \A i \in DOMAIN wire' : Carried(i)
    <2> SUFFICES ASSUME NEW i \in 1 .. L - 1 PROVE Carried(i)
      BY <1>0
    <2>1. i + 1 \in 2 .. L /\ i + 1 \in DOMAIN wire /\ wire'[i] = wire[i + 1]
      BY <1>0
    <2>2. CASE IsChange(i + 1)
      <3> DEFINE p == wire[i + 1].at
      <3>1. /\ p \in handled + 1 .. sent /\ wire[i + 1] = Message(p)
            /\ \A t \in DOMAIN wal[p].cols : Knows(i + 1, t, wal[p].cols[t])
        BY <2>1, <2>2 DEF WireInv
      <3>2. p \in handled' + 1 .. sent'
        BY <1>1, <1>4, <2>1, <2>2
      <3>3. wire'[i].at = p /\ wire'[i].tag # "R"
        BY <2>1, <2>2 DEF IsChange
      <3>4. p \in DOMAIN wal
        BY <3>1, Numbers
      <3> HIDE DEF p
      <3>5. MessageNext(p) = Message(p) /\ wal'[p] = wal[p]
        BY <1>1 DEF Message, MessageNext
      <3>6. \A t \in DOMAIN wal[p].cols : KnowsNext(i, t, wal[p].cols[t])
        <4> SUFFICES ASSUME NEW t \in DOMAIN wal[p].cols
                     PROVE  KnowsNext((i + 1) - 1, t, wal[p].cols[t])
          OBVIOUS
        <4>1. t \in Tables
          BY <3>4, ChangeFacts
        <4>2. i + 1 \in 1 .. L
          BY <1>0, <2>1
        <4> QED
          BY <1>2, <3>1, <4>1, <4>2
      <3> QED
        BY <2>1, <3>1, <3>2, <3>3, <3>5, <3>6 DEF Carried
    <2>3. CASE ~IsChange(i + 1)
      BY <2>1, <2>3 DEF WireInv, Carried, IsChange
    <2> QED
      BY <2>2, <2>3
  <1>6. \A i, j \in DOMAIN wire' :
             wire'[i].tag # "R" /\ wire'[j].tag # "R" /\ i < j => wire'[i].at < wire'[j].at
    <2> SUFFICES ASSUME NEW i \in 1 .. L - 1, NEW j \in 1 .. L - 1,
                        wire'[i].tag # "R", wire'[j].tag # "R", i < j
                 PROVE  wire'[i].at < wire'[j].at
      BY <1>0
    <2>1. /\ i + 1 \in DOMAIN wire /\ j + 1 \in DOMAIN wire /\ i + 1 < j + 1
          /\ wire'[i] = wire[i + 1] /\ wire'[j] = wire[j + 1]
      BY <1>0
    <2>2. IsChange(i + 1) /\ IsChange(j + 1)
      BY <2>1 DEF IsChange
    <2> QED
      BY <2>1, <2>2 DEF WireInv
  <1>7. \A p \in handled' + 1 .. sent' : \E i \in DOMAIN wire' :
             wire'[i].tag # "R" /\ wire'[i].at = p
    <2> SUFFICES ASSUME NEW p \in handled' + 1 .. sent
                 PROVE  \E i \in DOMAIN wire' : wire'[i].tag # "R" /\ wire'[i].at = p
      BY <1>1
    <2>1. p \in handled + 1 .. sent
      <3>1. CASE handled' = handled
        BY <3>1
      <3>2. CASE handled' = handled + 1
        BY <1>3, <3>2
      <3> QED
        BY <1>3, <3>1, <3>2
    <2>2. PICK i \in DOMAIN wire : IsChange(i) /\ wire[i].at = p
      BY <2>1 DEF WireInv
    <2>3. i # 1
      <3> SUFFICES ASSUME i = 1 PROVE FALSE
        OBVIOUS
      <3>1. handled' = handled + 1 /\ p = handled + 1
        BY <2>2, TakenFacts, FirstMessage
      <3> QED
        BY <1>3, <3>1
    <2>4. i - 1 \in 1 .. L - 1 /\ wire'[i - 1] = wire[i]
      BY <1>0, <2>3
    <2> QED
      BY <1>0, <2>2, <2>4 DEF IsChange
  <1>8. \A t \in Tables : KnowsNext(Len(wire'), t, described'[t])
    <2> SUFFICES ASSUME NEW t \in Tables PROVE KnowsNext(L - 1, t, described[t])
      BY <1>0, <1>1
    <2>1. Knows(L, t, described[t]) /\ L \in 1 .. L
      BY <1>0 DEF WireInv
    <2> HIDE DEF L
    <2> QED
      BY <1>2, <2>1
  <1> QED
    BY <1>5, <1>6, <1>7, <1>8, WireNext
\* What the session will know, the walsender has described: after SendChange, too.
LEMMA Learned ==
    ASSUME PipelineTypeOK, WalInv, WireInv, SendChange,
           NEW n \in Nat, NEW news, Sends(n, news), NEW t \in Tables
    PROVE  KnowsNext(Len(wire) + n + 1, t, described'[t])
  <1> DEFINE L == Len(wire)
             cols == wal[sent + 1].cols
  <1>1. /\ L \in Nat
        /\ described' = [r \in Tables |-> IF r \in DOMAIN cols THEN cols[r] ELSE described[r]]
        /\ UNCHANGED rel_cache
    BY Numbers DEF SendChange
  <1>2. /\ \A i \in 1 .. L : wire'[i] = wire[i]
        /\ wire'[L + n + 1] = Message(sent + 1)
        /\ \A k \in 1 .. n :
             /\ news[k] \in DOMAIN cols
             /\ described[news[k]] # cols[news[k]]
             /\ wire'[L + k] = Relation(news[k], cols[news[k]])
        /\ \A j, k \in 1 .. n : news[j] = news[k] => j = k
        /\ \A r \in DOMAIN cols : described[r] # cols[r] => \E k \in 1 .. n : news[k] = r
    BY DEF Sends
  <1>3. wire'[L + n + 1].tag # "R"
    BY <1>2, Tags
  <1>4. \A k \in 1 .. n : wire'[L + k].rel = news[k]
    BY <1>2, Tags
  <1> HIDE DEF L, cols
  <1>5. CASE t \in DOMAIN cols /\ described[t] # cols[t]
    <2>1. PICK k \in 1 .. n : news[k] = t
      BY <1>2, <1>5
    <2>2. L + k \in 1 .. L + n + 1 /\ wire'[L + k] = Relation(t, cols[t])
      BY <1>1, <1>2, <2>1
    <2>3. ASSUME NEW j \in (L + k) + 1 .. L + n + 1, wire'[j].tag = "R"
          PROVE  wire'[j].rel # t
      <3>1. j # L + n + 1
        BY <1>3, <2>3
      <3>2. j - L \in 1 .. n /\ j - L # k /\ j = L + (j - L)
        BY <1>1, <3>1
      <3>3. wire'[j].rel = news[j - L]
        BY <1>4, <3>2
      <3> QED
        BY <1>2, <2>1, <3>2, <3>3
    <2>4. described'[t] = cols[t]
      BY <1>1, <1>5
    <2> QED
      BY <2>2, <2>3, <2>4 DEF KnowsNext, L
  <1>6. CASE ~(t \in DOMAIN cols /\ described[t] # cols[t])
    <2>1. described'[t] = described[t]
      BY <1>1, <1>6
    <2>2. Knows(L, t, described[t])
      BY DEF WireInv, L
    <2>3. KnowsNext(L, t, described[t])
      BY <1>1, <1>2, <2>2, KnowsKept
    <2>4. ASSUME NEW j \in L + 1 .. L + n + 1, wire'[j].tag = "R"
          PROVE  wire'[j].rel # t
      <3>1. j # L + n + 1
        BY <1>3, <2>4
      <3>2. j - L \in 1 .. n /\ j = L + (j - L)
        BY <1>1, <3>1
      <3>3. wire'[j].rel = news[j - L]
        BY <1>4, <3>2
      <3> QED
        BY <1>2, <1>6, <3>2, <3>3
    <2>5. L + n + 1 \in Nat /\ L <= L + n + 1
      BY <1>1
    <2>6. KnowsNext(L + n + 1, t, described[t])
      BY <1>1, <2>3, <2>4, <2>5, KnowsLonger
    <2> QED
      BY <2>1, <2>6 DEF L
  <1> QED
    BY <1>5, <1>6

LEMMA WireSent ==
    ASSUME PipelineTypeOK, WalInv, WireInv, PipelineNext, SendChange
    PROVE  WireInv'
  <1>0. PICK n \in Nat : \E news : Sends(n, news)
    BY SendFacts
  <1>1. PICK news : Sends(n, news)
    BY <1>0
  <1> DEFINE L == Len(wire)
             cols == wal[sent + 1].cols
             M == L + n + 1
  <1>2. /\ sent + 1 \in DOMAIN wal /\ L \in Nat /\ DOMAIN wire = 1 .. L
        /\ sent \in Nat /\ handled \in Nat /\ handled <= sent
    BY SendFacts, Numbers
  <1>3. sent' = sent + 1 /\ UNCHANGED <<wal, rel_cache, handled>>
    BY DEF SendChange
  <1>4. /\ Len(wire') = M /\ DOMAIN wire' = 1 .. M
        /\ \A i \in 1 .. L : wire'[i] = wire[i]
        /\ wire'[M] = Message(sent + 1)
        /\ \A k \in 1 .. n :
             /\ news[k] \in DOMAIN cols
             /\ wire'[L + k] = Relation(news[k], cols[news[k]])
    BY <1>1 DEF Sends
  <1>5. \A t \in Tables : KnowsNext(M, t, described'[t])
    BY <1>1, Learned
  <1>6. \A t \in DOMAIN cols : t \in Tables /\ cols[t] \in Seq(STRING) /\ described'[t] = cols[t]
    <2>1. \A t \in DOMAIN cols : t \in Tables /\ cols[t] \in Seq(STRING)
      BY <1>2, ChangeFacts, ColumnFacts
    <2>2. described' = [t \in Tables |-> IF t \in DOMAIN cols THEN cols[t] ELSE described[t]]
      BY DEF SendChange
    <2> QED
      BY <2>1, <2>2
  <1>7. \A i \in 1 .. M : i \in 1 .. L \/ i - L \in 1 .. n \/ i = M
    BY <1>2
  <1>8. \A i \in 1 .. n : wire'[L + i].tag = "R"
    BY <1>4, Tags
  <1>9. wire'[M].at = sent + 1 /\ wire'[M].tag # "R" /\ M \in 1 .. M /\ L < M
    BY <1>2, <1>4, Tags
  <1>10. \A i \in 1 .. M : wire'[i].tag # "R" => i \in 1 .. L \/ i = M
    <2> SUFFICES ASSUME NEW i \in 1 .. M, i - L \in 1 .. n PROVE wire'[i].tag = "R"
      BY <1>7
    <2>1. L + (i - L) = i
      BY <1>2
    <2> QED
      BY <1>8, <2>1
  <1>11. \A i \in 1 .. L : /\ wire'[i] = wire[i] /\ i \in DOMAIN wire
                           /\ (wire'[i].tag # "R") <=> IsChange(i)
                           /\ IsChange(i) => wire[i].at \in handled + 1 .. sent
    <2> SUFFICES ASSUME NEW i \in 1 .. L
                 PROVE  /\ wire'[i] = wire[i] /\ i \in DOMAIN wire
                        /\ (wire'[i].tag # "R") <=> IsChange(i)
                        /\ IsChange(i) => wire[i].at \in handled + 1 .. sent
      OBVIOUS
    <2>1. wire'[i] = wire[i] /\ i \in DOMAIN wire
      BY <1>2, <1>4
    <2>2. IsChange(i) => wire[i].at \in handled + 1 .. sent
      BY <2>1 DEF WireInv
    <2> QED
      BY <2>1, <2>2 DEF IsChange
  <1>12. \A p : MessageNext(p) = Message(p)
    BY <1>3 DEF Message, MessageNext
  <1>13. \A i \in DOMAIN wire' : Carried(i)
    <2> SUFFICES ASSUME NEW i \in 1 .. M PROVE Carried(i)
      BY <1>4
    <2>1. CASE i \in 1 .. L /\ IsChange(i)
      <3> DEFINE p == wire[i].at
      <3>1. /\ p \in handled + 1 .. sent /\ wire[i] = Message(p)
            /\ \A t \in DOMAIN wal[p].cols : Knows(i, t, wal[p].cols[t])
        BY <1>11, <2>1 DEF WireInv
      <3>2. wire'[i] = wire[i] /\ wire'[i].at = p /\ wire'[i].tag # "R"
        BY <1>11, <2>1
      <3> HIDE DEF p
      <3>3. i \in Nat /\ \A j \in 1 .. i : wire'[j] = wire[j]
        BY <1>2, <1>4, <2>1
      <3>4. \A t \in DOMAIN wal[p].cols : KnowsNext(i, t, wal[p].cols[t])
        <4> SUFFICES ASSUME NEW t \in DOMAIN wal[p].cols PROVE KnowsNext(i, t, wal[p].cols[t])
          OBVIOUS
        <4> DEFINE c == wal[p].cols[t]
        <4>1. Knows(i, t, c)
          BY <3>1
        <4> HIDE DEF c
        <4>2. KnowsNext(i, t, c)
          BY <1>3, <3>3, <4>1, KnowsKept
        <4> QED
          BY <4>2 DEF c
      <3>5. p \in handled' + 1 .. sent'
        BY <1>2, <1>3, <3>1
      <3> QED
        BY <1>3, <1>12, <3>1, <3>2, <3>4, <3>5 DEF Carried
    <2>2. CASE i \in 1 .. L /\ ~IsChange(i)
      BY <1>11, <2>2 DEF Carried, WireInv
    <2>3. CASE i - L \in 1 .. n
      <3> DEFINE k == i - L
      <3>1. k \in 1 .. n /\ i = L + k
        BY <1>2, <2>3
      <3> HIDE DEF k, L, M
      <3>2. wire'[i] = Relation(news[k], cols[news[k]]) /\ news[k] \in DOMAIN cols
        BY <1>4, <3>1
      <3>3. news[k] \in Tables /\ cols[news[k]] \in Seq(STRING)
        BY <1>6, <3>2
      <3> HIDE DEF cols
      <3> QED
        BY <3>2, <3>3 DEF Carried, Relation
    <2>4. CASE i = M
      <3>1. sent + 1 \in handled' + 1 .. sent'
        BY <1>2, <1>3
      <3>2. \A t \in DOMAIN cols : KnowsNext(M, t, cols[t])
        BY <1>5, <1>6
      <3> HIDE DEF M
      <3> QED
        BY <1>3, <1>4, <1>9, <1>12, <2>4, <3>1, <3>2 DEF Carried
    <2> QED
      BY <1>7, <2>1, <2>2, <2>3, <2>4
  <1>14. \A i, j \in DOMAIN wire' :
             wire'[i].tag # "R" /\ wire'[j].tag # "R" /\ i < j => wire'[i].at < wire'[j].at
    <2> SUFFICES ASSUME NEW i \in 1 .. M, NEW j \in 1 .. M,
                        wire'[i].tag # "R", wire'[j].tag # "R", i < j
                 PROVE  wire'[i].at < wire'[j].at
      BY <1>4
    <2>1. i \in 1 .. L /\ (j \in 1 .. L \/ j = M)
      BY <1>2, <1>10
    <2>2. CASE j \in 1 .. L
      BY <1>11, <2>1, <2>2 DEF WireInv
    <2>3. CASE j = M
      <3>1. wire'[i].at \in handled + 1 .. sent
        BY <1>11, <2>1
      <3> QED
        BY <1>2, <1>9, <2>3, <3>1
    <2> QED
      BY <2>1, <2>2, <2>3
  <1>15. \A p \in handled' + 1 .. sent' : \E i \in DOMAIN wire' :
             wire'[i].tag # "R" /\ wire'[i].at = p
    <2> SUFFICES ASSUME NEW p \in handled + 1 .. sent + 1
                 PROVE  \E i \in 1 .. M : wire'[i].tag # "R" /\ wire'[i].at = p
      BY <1>3, <1>4
    <2>1. CASE p \in handled + 1 .. sent
      <3>1. PICK i \in DOMAIN wire : IsChange(i) /\ wire[i].at = p
        BY <2>1 DEF WireInv
      <3>2. i \in 1 .. M /\ i \in 1 .. L
        BY <1>2, <3>1
      <3> QED
        BY <1>11, <3>1, <3>2
    <2>2. CASE p = sent + 1
      BY <1>9, <2>2
    <2> QED
      BY <1>2, <2>1, <2>2
  <1> QED
    BY <1>4, <1>5, <1>13, <1>14, <1>15, WireNext

\* A step keeps the order on the way, and what the session will know.
LEMMA WireStep ==
    ASSUME PipelineTypeOK, WalInv, WireInv, PipelineNext
    PROVE  WireInv'
  <1>1. CASE NewSession
    <2>1. /\ wire' = <<>> /\ sent' = handled /\ handled' = handled
          /\ rel_cache' = [t \in Tables |-> NotDescribed]
          /\ described' = [t \in Tables |-> NotDescribed]
      BY <1>1 DEF NewSession
    <2>2. DOMAIN wire' = {} /\ Len(wire') = 0
      BY <2>1, Empty
    <2>3. handled' + 1 .. sent' = {}
      BY <2>1, Numbers
    <2>4. \A t \in Tables : KnowsNext(Len(wire'), t, described'[t])
      BY <2>1, <2>2 DEF KnowsNext
    <2> QED
      BY <2>2, <2>3, <2>4, WireNext
  <1>2. CASE UNCHANGED <<wire, sent, handled, rel_cache, described>>
    BY <1>2, WireKept
  <1> QED
    BY <1>1, <1>2, WireSent, WireTaken
    DEF PipelineNext, Change, Truncate, AlterTable, sessionVars
-----------------------------------------------------------------------------
(* What the sink is given *)

LastToldNext(n, t, cols) ==
    \E i \in 1 .. n :
        /\ delivered'[i] = Told(t, cols)
        /\ \A j \in i + 1 .. n : ~(delivered'[j].type = "relation" /\ delivered'[j].table = t)

\* What a step gives the sink.
LEMMA GivenStep ==
    ASSUME PipelineTypeOK, WireInv, PipelineNext
    PROVE  /\ config' = config
           /\ \/ delivered' = delivered /\ ~(HandleRelation /\ config.schema)
              \/ /\ HandleRelation /\ config.schema
                 /\ delivered' = Append(delivered, Told(wire[1].rel, wire[1].cols))
              \/ /\ HandleRow \/ HandleTruncate
                 /\ \E e : delivered' = Append(delivered, Given(handled + 1, e))
  <1>0. delivered \in Seq(Range(delivered))
    BY DEF PipelineTypeOK
  <1>1. CASE HandleRelation
    <2>1. Head(wire) = wire[1] /\ config' = config
      BY <1>1, TakenFacts, FirstMessage
    <2>2. delivered' = delivered \o Announced(wire[1])
      BY <1>1, <2>1 DEF HandleRelation
    <2>3. CASE config.schema
      <3>1. delivered' = delivered \o <<Told(wire[1].rel, wire[1].cols)>>
        BY <2>2, <2>3 DEF Announced
      <3> QED
        BY <1>0, <1>1, <2>1, <2>3, <3>1, OneMore
    <2>4. CASE ~config.schema
      <3>1. delivered' = delivered \o <<>>
        BY <2>2, <2>4 DEF Announced
      <3> QED
        BY <1>0, <2>1, <2>4, <3>1, OneMore
    <2> QED
      BY <2>3, <2>4
  <1>2. CASE HandleRow \/ HandleTruncate
    <2>1. Head(wire) = wire[1] /\ wire[1].at = handled + 1 /\ config' = config /\ ~HandleRelation
      <3>1. wire # <<>> /\ config' = config /\ Head(wire) = wire[1]
        BY <1>2, TakenFacts, FirstMessage
      <3>2. IsChange(1)
        BY <1>2, <3>1 DEF HandleRow, HandleTruncate, IsChange
      <3> QED
        BY <3>1, <3>2, FirstMessage DEF HandleRelation, IsChange
    <2>2. CASE HandleRow
      <3> DEFINE e == Decoded(wire[1])
      <3>1. delivered' = delivered \o Outcome(handled + 1, e)
        BY <2>1, <2>2 DEF HandleRow
      <3> HIDE DEF e
      <3>2. CASE should_forward(e)
        <4>1. delivered' = delivered \o <<Given(handled + 1, Transformed(e))>>
          BY <3>1, <3>2 DEF Outcome
        <4> QED
          BY <1>0, <1>2, <2>1, <4>1, OneMore
      <3>3. CASE ~should_forward(e)
        <4>1. delivered' = delivered \o <<>>
          BY <3>1, <3>3 DEF Outcome
        <4> QED
          BY <1>0, <2>1, <4>1, OneMore
      <3> QED
        BY <3>2, <3>3
    <2>3. CASE HandleTruncate
      BY <1>2, <2>1, <2>3 DEF HandleTruncate
    <2> QED
      BY <1>2, <2>2, <2>3
  <1>3. CASE ~(HandleRelation \/ HandleRow \/ HandleTruncate)
    BY <1>3 DEF PipelineNext, Change, Truncate, AlterTable, SendChange, NewSession, sessionVars,
                configVars
  <1> QED
    BY <1>1, <1>2, <1>3

\* The sink was last told the same columns while nothing is told of the table.
LEMMA ToldKept ==
    ASSUME NEW n \in Nat, NEW t, NEW cols, LastTold(n, t, cols),
           \A i \in 1 .. n : delivered'[i] = delivered[i]
    PROVE  LastToldNext(n, t, cols)
  BY DEF LastTold, LastToldNext

LEMMA ToldLonger ==
    ASSUME NEW n \in Nat, NEW t, NEW cols, LastToldNext(n, t, cols),
           ~(delivered'[n + 1].type = "relation" /\ delivered'[n + 1].table = t)
    PROVE  LastToldNext(n + 1, t, cols)
  <1>1. \A i \in 1 .. n : i \in 1 .. n + 1 /\ \A j \in i + 1 .. n + 1 : j \in i + 1 .. n \/ j = n + 1
    OBVIOUS
  <1> QED
    BY <1>1 DEF LastToldNext

\* What the session knows changes with a description, or is forgotten.
LEMMA CacheStep ==
    ASSUME PipelineTypeOK, WireInv, PipelineNext
    PROVE  \/ rel_cache' = rel_cache /\ ~HandleRelation
           \/ HandleRelation /\ rel_cache' = [rel_cache EXCEPT ![wire[1].rel] = wire[1].cols]
           \/ rel_cache' = [t \in Tables |-> NotDescribed] /\ ~HandleRelation
  <1>1. CASE HandleRelation
    <2>1. ~IsChange(1)
      BY <1>1, FirstMessage DEF HandleRelation, IsChange
    <2> QED
      BY <1>1, <2>1, TakenFacts
  <1>2. CASE ~HandleRelation
    BY <1>2 DEF PipelineNext, Change, Truncate, AlterTable, SendChange, HandleRow, HandleTruncate,
                NewSession, sessionVars
  <1> QED
    BY <1>1, <1>2

\* The positions handled never go back.
LEMMA HandledStep ==
    ASSUME PipelineTypeOK, WireInv, PipelineNext
    PROVE  /\ handled \in Nat /\ handled' \in Nat /\ handled' >= handled
           /\ HandleRow \/ HandleTruncate => handled' = handled + 1 /\ IsChange(1)
           /\ ~(HandleRow \/ HandleTruncate) => handled' = handled
  <1>1. handled \in Nat
    BY Numbers
  <1>2. CASE HandleRow \/ HandleTruncate
    <2>1. handled' = handled + 1
      BY <1>2 DEF HandleRow, HandleTruncate
    <2>2. IsChange(1)
      BY <1>2, FirstMessage DEF HandleRow, HandleTruncate, IsChange
    <2> QED
      BY <1>1, <1>2, <2>1, <2>2
  <1>3. CASE ~(HandleRow \/ HandleTruncate)
    <2>1. handled' = handled
      BY <1>3 DEF PipelineNext, Change, Truncate, AlterTable, SendChange, HandleRelation, NewSession,
                  sessionVars
    <2> QED
      BY <1>1, <1>3, <2>1
  <1> QED
    BY <1>2, <1>3
LEMMA DeliveredStep ==
    ASSUME PipelineTypeOK, WireInv, DeliveredInv, PipelineNext
    PROVE  DeliveredInv'
  <1> DEFINE D == Len(delivered)
             Ok(g, h) ==
               \/ g.type = "relation" /\ g = Told(g.table, g.cols)
               \/ /\ g.type = "change" /\ g = Given(g.at, g.event)
                  /\ g.at \in 1 .. h
  <1>0. delivered \in Seq(Range(delivered)) /\ D \in Nat /\ DOMAIN delivered = 1 .. D
    BY Numbers DEF PipelineTypeOK
  <1>1. \A i \in 1 .. D : Ok(delivered[i], handled')
    <2> SUFFICES ASSUME NEW i \in 1 .. D PROVE Ok(delivered[i], handled')
      OBVIOUS
    <2>1. Ok(delivered[i], handled)
      BY <1>0 DEF DeliveredInv
    <2> QED
      BY <2>1, HandledStep
  <1>2. SUFFICES \A i \in DOMAIN delivered' : Ok(delivered'[i], handled')
    BY DEF DeliveredInv, Told, Given
  <1>3. CASE delivered' = delivered
    BY <1>0, <1>1, <1>3
  <1>4. ASSUME NEW x, delivered' = Append(delivered, x), Ok(x, handled')
        PROVE  \A i \in DOMAIN delivered' : Ok(delivered'[i], handled')
    <2>1. /\ DOMAIN delivered' = 1 .. D + 1 /\ delivered'[D + 1] = x
          /\ \A i \in 1 .. D : delivered'[i] = delivered[i]
      BY <1>0, <1>4, Appended
    <2>2. \A i \in 1 .. D + 1 : i \in 1 .. D \/ i = D + 1
      BY <1>0
    <2> HIDE DEF Ok, D
    <2> QED
      BY <1>1, <1>4, <2>1, <2>2
  <1>5. ASSUME NEW e, HandleRow \/ HandleTruncate PROVE Ok(Given(handled + 1, e), handled')
    <2>1. handled + 1 \in 1 .. handled'
      BY <1>5, HandledStep
    <2> QED
      BY <2>1 DEF Given
  <1>6. \A t, cols : Ok(Told(t, cols), handled')
    BY DEF Told
  <1> HIDE DEF Ok, D
  <1> QED
    BY <1>3, <1>4, <1>5, <1>6, GivenStep

\* What the sink was given before a step it has after it.
LEMMA GivenBefore ==
    ASSUME PipelineTypeOK, WireInv, PipelineNext
    PROVE  /\ Len(delivered) \in Nat /\ DOMAIN delivered = 1 .. Len(delivered)
           /\ \A i \in 1 .. Len(delivered) : delivered'[i] = delivered[i]
           /\ \/ delivered' = delivered
              \/ /\ Len(delivered') = Len(delivered) + 1
                 /\ DOMAIN delivered' = 1 .. Len(delivered) + 1
  <1>0. delivered \in Seq(Range(delivered)) /\ Len(delivered) \in Nat
        /\ DOMAIN delivered = 1 .. Len(delivered)
    BY Numbers DEF PipelineTypeOK
  <1>1. CASE delivered' = delivered
    BY <1>0, <1>1
  <1>2. ASSUME NEW x, delivered' = Append(delivered, x)
        PROVE  /\ Len(delivered') = Len(delivered) + 1
               /\ DOMAIN delivered' = 1 .. Len(delivered) + 1
               /\ \A i \in 1 .. Len(delivered) : delivered'[i] = delivered[i]
    BY <1>0, <1>2, Appended
  <1> QED
    BY <1>0, <1>1, <1>2, GivenMore

LEMMA ToldStep ==
    ASSUME PipelineTypeOK, WalInv, WireInv, DeliveredInv, ToldInv, PipelineNext
    PROVE  ToldInv'
  <1> DEFINE D == Len(delivered)
  <1>0. D \in Nat /\ delivered \in Seq(Range(delivered)) /\ rel_cache \in [Tables -> Seq(STRING)]
    BY Numbers DEF PipelineTypeOK
  <1>1. SUFFICES ASSUME config'.schema, NEW t \in Tables, rel_cache'[t] # NotDescribed
                 PROVE  LastToldNext(Len(delivered'), t, rel_cache'[t])
    BY DEF ToldInv, LastTold, LastToldNext, Told
  <1>2. config.schema
    BY <1>1, GivenStep
  <1>3. \A i \in 1 .. D : delivered'[i] = delivered[i]
    BY GivenBefore
  <1>4. ASSUME rel_cache'[t] = rel_cache[t] PROVE LastToldNext(D, t, rel_cache'[t])
    <2>1. LastTold(D, t, rel_cache[t])
      BY <1>1, <1>2, <1>4 DEF ToldInv
    <2> DEFINE cols == rel_cache[t]
    <2> HIDE DEF D, cols
    <2>2. LastToldNext(D, t, cols)
      BY <1>0, <1>3, <2>1, ToldKept DEF cols
    <2> QED
      BY <1>4, <2>2 DEF cols
  <1>5. ASSUME NEW x, delivered' = Append(delivered, x)
        PROVE  delivered'[D + 1] = x /\ Len(delivered') = D + 1
    BY <1>0, <1>5, Appended
  <1>6. CASE HandleRelation
    <2> DEFINE r == wire[1].rel
    <2>1. /\ rel_cache' = [rel_cache EXCEPT ![r] = wire[1].cols]
          /\ delivered' = Append(delivered, Told(r, wire[1].cols))
          /\ r \in Tables
      <3>1. wire # <<>> /\ ~IsChange(1)
        BY <1>6, TakenFacts, HandledStep DEF HandleRelation, HandleRow, HandleTruncate
      <3> QED
        BY <1>2, <1>6, <3>1, GivenStep, CacheStep, FirstMessage
           DEF HandleRelation, HandleRow, HandleTruncate
    <2>2. delivered'[D + 1] = Told(r, wire[1].cols) /\ Len(delivered') = D + 1
      BY <1>5, <2>1
    <2> HIDE DEF r, D
    <2>3. CASE t = r
      <3>1. rel_cache'[t] = wire[1].cols
        BY <1>0, <2>1, <2>3
      <3>2. D + 1 \in 1 .. D + 1 /\ (D + 1) + 1 .. D + 1 = {}
        BY <1>0
      <3> QED
        BY <2>2, <2>3, <3>1, <3>2 DEF LastToldNext
    <2>4. CASE t # r
      <3>1. rel_cache'[t] = rel_cache[t]
        BY <1>0, <2>1, <2>4
      <3>2. ~(delivered'[D + 1].type = "relation" /\ delivered'[D + 1].table = t)
        BY <2>2, <2>4 DEF Told
      <3> QED
        BY <1>0, <1>4, <2>2, <3>1, <3>2, ToldLonger
    <2> QED
      BY <2>3, <2>4
  <1>7. CASE ~HandleRelation
    <2>1. rel_cache'[t] = rel_cache[t]
      BY <1>1, <1>7, CacheStep
    <2>2. CASE delivered' = delivered
      BY <1>4, <2>1, <2>2
    <2>3. ASSUME NEW e, delivered' = Append(delivered, Given(handled + 1, e))
          PROVE  LastToldNext(Len(delivered'), t, rel_cache'[t])
      <3>1. delivered'[D + 1] = Given(handled + 1, e) /\ Len(delivered') = D + 1
        BY <1>5, <2>3
      <3>2. delivered'[D + 1].type # "relation"
        BY <3>1 DEF Given
      <3> HIDE DEF D
      <3> QED
        BY <1>0, <1>4, <2>1, <3>1, <3>2, ToldLonger
    <2> QED
      BY <1>7, <2>2, <2>3, GivenStep
  <1> QED
    BY <1>6, <1>7

LEMMA SchemaStep ==
    ASSUME PipelineTypeOK, WalInv, WireInv, DeliveredInv, ToldInv, SchemaBeforeRow, PipelineNext
    PROVE  SchemaBeforeRow'
  <1> DEFINE D == Len(delivered)
  <1>0. D \in Nat /\ delivered \in Seq(Range(delivered)) /\ DOMAIN delivered = 1 .. D
    BY Numbers DEF PipelineTypeOK
  <1>1. SUFFICES ASSUME config'.schema, NEW i \in DOMAIN delivered', delivered'[i].type = "change",
                        NEW t \in DOMAIN wal'[delivered'[i].at].cols
                 PROVE  LastToldNext(i - 1, t, wal'[delivered'[i].at].cols[t])
    BY DEF SchemaBeforeRow, Deliveries, LastTold, LastToldNext, Told
  <1>2. config.schema
    BY <1>1, GivenStep
  <1>3. \A j \in 1 .. D : delivered'[j] = delivered[j]
    BY GivenBefore
  <1>4. CASE i \in 1 .. D
    <2> DEFINE p == delivered[i].at
    <2>1. delivered'[i] = delivered[i] /\ i \in Deliveries
      BY <1>0, <1>1, <1>3, <1>4 DEF Deliveries
    <2>2. p \in 1 .. handled
      BY <1>0, <1>1, <1>4, <2>1 DEF DeliveredInv
    <2>3. wal'[p] = wal[p]
      BY <2>2, WalStep, Numbers
    <2>4. LastTold(i - 1, t, wal[p].cols[t])
      BY <1>1, <1>2, <2>1, <2>3 DEF SchemaBeforeRow
    <2>5. i - 1 \in Nat /\ \A j \in 1 .. i - 1 : delivered'[j] = delivered[j]
      BY <1>0, <1>3, <1>4
    <2> DEFINE cols == wal[p].cols[t]
    <2>6. wal'[delivered'[i].at].cols[t] = cols
      BY <2>1, <2>3
    <2> HIDE DEF cols, p, D
    <2>7. LastToldNext(i - 1, t, cols)
      BY <2>4, <2>5, ToldKept DEF cols
    <2> QED
      BY <2>6, <2>7
  <1>5. CASE i \notin 1 .. D
    <2>1. i = D + 1 /\ delivered' # delivered
      BY <1>0, <1>1, <1>5, GivenBefore
    <2>2. \A x : delivered' = Append(delivered, x) => delivered'[i] = x
      BY <1>0, <2>1, Appended
    <2>3. (HandleRow \/ HandleTruncate) /\ delivered'[i].at = handled + 1
      <3>1. delivered' # Append(delivered, Told(wire[1].rel, wire[1].cols))
        <4>1. Told(wire[1].rel, wire[1].cols).type # "change"
          BY DEF Told
        <4> QED
          BY <1>1, <2>2, <4>1
      <3>2. \A e : Given(handled + 1, e).at = handled + 1
        BY DEF Given
      <3>3. PICK e : (HandleRow \/ HandleTruncate) /\ delivered' = Append(delivered, Given(handled + 1, e))
        BY <2>1, <3>1, GivenStep
      <3> QED
        BY <2>2, <3>2, <3>3
    <2> DEFINE p == handled + 1
    <2>4. /\ wire # <<>> /\ IsChange(1) /\ wal' = wal
      BY <2>3, HandledStep, TakenFacts
    <2>5. p <= sent /\ \A r \in DOMAIN wal[p].cols : rel_cache[r] = wal[p].cols[r]
      BY <2>4, FirstMessage
    <2>6. p \in DOMAIN wal
      BY <2>5, Numbers
    <2>7. t \in DOMAIN wal[p].cols
      BY <1>1, <2>3, <2>4
    <2>8. t \in Tables /\ wal[p].cols[t] # NotDescribed
      BY <2>6, <2>7, ChangeFacts, ColumnFacts
    <2>9. LastTold(D, t, wal[p].cols[t])
      BY <1>2, <2>5, <2>7, <2>8 DEF ToldInv
    <2> DEFINE cols == wal[p].cols[t]
    <2>10. wal'[delivered'[i].at].cols[t] = cols
      BY <2>3, <2>4
    <2> HIDE DEF cols, p, D
    <2>11. LastToldNext(D, t, cols)
      BY <1>0, <1>3, <2>9, ToldKept DEF cols
    <2>12. i - 1 = D
      BY <1>0, <2>1
    <2> QED
      BY <2>10, <2>11, <2>12
  <1> QED
    BY <1>4, <1>5

-----------------------------------------------------------------------------
(* The invariant *)

\* Every state of a session has the parts of the invariant: types, a WAL the
\* server can log, the changes not handled on the way in order and each behind the
\* descriptions it is decoded by, and what the sink was told.
THEOREM PipelineInvariant == PipelineSpec => []PipelineInv
  <1>1. PipelineInit => PipelineInv
    <2> SUFFICES ASSUME PipelineInit PROVE PipelineInv
      OBVIOUS
    <2>1. /\ wal = <<>> /\ wire = <<>> /\ delivered = <<>> /\ sent = 0 /\ handled = 0 /\ drops = 0
          /\ shape = [t \in Tables |-> 1]
          /\ described = [t \in Tables |-> NotDescribed]
          /\ rel_cache = [t \in Tables |-> NotDescribed]
          /\ config \in Configs
      BY DEF PipelineInit
    <2>2. NotDescribed \in Seq(STRING)
      BY DEF NotDescribed
    <2>3. \A t \in Tables : 1 \in DOMAIN Shapes[t]
      <3> SUFFICES ASSUME NEW t \in Tables PROVE 1 \in DOMAIN Shapes[t]
        OBVIOUS
      <3>1. Shapes[t] \in Seq(Seq(STRING) \ {<<>>}) \ {<<>>}
        BY PipelineAssumption
      <3> QED
        BY <3>1
    <2>4. PipelineTypeOK
      <3>1. /\ wal \in Seq(Range(wal)) /\ wire \in Seq(Range(wire)) /\ delivered \in Seq(Range(delivered))
            /\ Len(wal) = 0
        BY <2>1, Empty
      <3> QED
        BY <2>1, <2>2, <2>3, <3>1, PipelineAssumption DEF PipelineTypeOK
    <2>5. DOMAIN wal = {} /\ DOMAIN wire = {} /\ DOMAIN delivered = {} /\ Len(wire) = 0
      BY <2>1, Empty
    <2>6. WalInv /\ DeliveredInv /\ SchemaBeforeRow
      BY <2>5 DEF WalInv, DeliveredInv, SchemaBeforeRow, Deliveries
    <2>7. ToldInv
      BY <2>1 DEF ToldInv
    <2>8. WireInv
      BY <2>1, <2>5 DEF WireInv, Knows
    <2> QED
      BY <2>4, <2>6, <2>7, <2>8 DEF PipelineInv
  <1>2. PipelineInv /\ [PipelineNext]_pipelineVars => PipelineInv'
    <2> SUFFICES ASSUME PipelineInv, [PipelineNext]_pipelineVars PROVE PipelineInv'
      OBVIOUS
    <2>1. CASE PipelineNext
      BY <2>1, PipelineTypeStep, WalStep, WireStep, DeliveredStep, ToldStep, SchemaStep
         DEF PipelineInv
    <2>2. CASE UNCHANGED pipelineVars
      <3> USE <2>2 DEF pipelineVars, configVars, serverVars, sessionVars
      <3>1. PipelineTypeOK'
        BY DEF PipelineInv, PipelineTypeOK
      <3>2. WalInv'
        BY SameRowChanges DEF PipelineInv, WalInv
      <3>3. WireInv'
        BY DEF PipelineInv, WireInv, Knows, IsChange, Message, Relation
      <3>4. DeliveredInv'
        BY DEF PipelineInv, DeliveredInv, Told, Given
      <3>5. ToldInv' /\ SchemaBeforeRow'
        BY DEF PipelineInv, ToldInv, SchemaBeforeRow, Deliveries, LastTold, Told
      <3> QED
        BY <3>1, <3>2, <3>3, <3>4, <3>5 DEF PipelineInv
    <2> QED
      BY <2>1, <2>2
  <1> QED
    BY <1>1, <1>2, PTL DEF PipelineSpec

\* With --emit-schema the sink knows a table's columns before each change of it:
\* through ALTER TABLE, truncates of several tables, and lost connections.
THEOREM SchemaFirst == PipelineSpec => []SchemaBeforeRow
  <1>1. PipelineInv => SchemaBeforeRow
    BY DEF PipelineInv
  <1> QED
    BY <1>1, PipelineInvariant, PTL
-----------------------------------------------------------------------------
(* What the sink is given, and what it is to be given *)

\* What the session's two gates let through: rows that are selected, and a TRUNCATE
\* of which a table is named as the option has it.
Forwarded(c) == IF c.op = "truncate" THEN forward_truncate(Event(c)) ELSE Selected(c)

\* The sink was given what passed the gates, each change once, as declared.
ForwardedExactly ==
    /\ \A i \in Deliveries : delivered[i].event = Event(wal[delivered[i].at])
    /\ \A i, j \in Deliveries : i < j => delivered[i].at < delivered[j].at
    /\ {delivered[i].at : i \in Deliveries} = {p \in 1 .. handled : Forwarded(wal[p])}

\* What a change comes to depends on the command line, which stays.
LEMMA DeclaredNext ==
    ASSUME UNCHANGED config,
           NEW I, I = {i \in DOMAIN delivered' : delivered'[i].type = "change"},
           \A i \in I : delivered'[i].event = Event(wal'[delivered'[i].at]),
           \A i, j \in I : i < j => delivered'[i].at < delivered'[j].at,
           {delivered'[i].at : i \in I} = {p \in 1 .. handled' : Forwarded(wal'[p])}
    PROVE  ForwardedExactly'
  <1>1. Deliveries' = I
    BY DEF Deliveries
  <1>2. \A i \in I : delivered'[i].event = Event(wal[delivered[i].at])'
    BY DEF Event, Declared
  <1>3. {p \in 1 .. handled' : Forwarded(wal'[p])} = {p \in 1 .. handled : Forwarded(wal[p])}'
    BY DEF Forwarded, Selected, forward_truncate, op_matches, Event, Declared
  <1> QED
    BY <1>1, <1>2, <1>3 DEF ForwardedExactly

\* A tuple that is decoded by the columns it was made with is the row the server
\* has: a name of its own for each cell, and so one cell for each name.
LEMMA DecodedTuple ==
    ASSUME NEW cols, cols \in Seq(STRING), IsInjective(cols),
           NEW tuple, tuple # NoTuple, DOMAIN tuple = DOMAIN cols
    PROVE  decode_tuple(tuple, cols) = RowOfTuple(tuple, cols)
  <1> DEFINE LastAt(n) == CHOOSE k \in DOMAIN tuple :
                          /\ Names(cols, k) = n
                          /\ \A j \in DOMAIN tuple : Names(cols, j) = n => j <= k
             OnlyAt(n) == CHOOSE k \in DOMAIN cols : cols[k] = n
             names == {Names(cols, k) : k \in DOMAIN tuple}
  <1>1. \A k \in DOMAIN cols : Names(cols, k) = cols[k]
    BY DEF Names
  <1>2. DOMAIN cols = 1 .. Len(cols) /\ Len(cols) \in Nat
    OBVIOUS
  <1>3. names = Range(cols)
    BY <1>1 DEF Range
  <1>4. ASSUME NEW n \in Range(cols) PROVE LastAt(n) = OnlyAt(n)
    <2>1. PICK k \in DOMAIN cols : cols[k] = n
      BY <1>4 DEF Range
    <2>2. \A j \in DOMAIN cols : cols[j] = n => j = k
      BY <2>1 DEF IsInjective
    <2>3. OnlyAt(n) = k
      BY <2>1, <2>2
    <2>4. /\ k \in DOMAIN tuple /\ Names(cols, k) = n
          /\ \A j \in DOMAIN tuple : Names(cols, j) = n => j <= k
      BY <1>1, <1>2, <2>1, <2>2
    <2>5. \A j \in DOMAIN tuple : Names(cols, j) = n => j = k
      BY <1>1, <2>2
    <2>6. LastAt(n) = k
      BY <2>4, <2>5
    <2> QED
      BY <2>3, <2>6
  <1> HIDE DEF LastAt, OnlyAt, names
  <1>5. decode_tuple(tuple, cols) = [n \in names |-> tuple[LastAt(n)]]
    BY DEF decode_tuple, LastAt, names
  <1>6. [n \in names |-> tuple[LastAt(n)]] = [n \in Range(cols) |-> tuple[OnlyAt(n)]]
    BY <1>3, <1>4
  <1>7. RowOfTuple(tuple, cols) = [n \in Range(cols) |-> tuple[OnlyAt(n)]]
    BY DEF RowOfTuple, OnlyAt
  <1> QED
    BY <1>5, <1>6, <1>7

\* A change whose table the session knows as the change was made is decoded as
\* what the server has.
LEMMA DecodedRow ==
    ASSUME WalInv, NEW p \in DOMAIN wal, wal[p].op # "truncate",
           \A t \in DOMAIN wal[p].cols : rel_cache[t] = wal[p].cols[t]
    PROVE  Decoded(Message(p)) = Original(wal[p])
  <1> DEFINE c == wal[p]
             m == Message(p)
             cols == c.cols[c.rel]
  <1>1. /\ c \in RowChanges /\ c.rel \in Tables /\ DOMAIN c.cols = {c.rel}
        /\ cols \in Range(Shapes[c.rel]) /\ Fits(c.old, cols) /\ Fits(c.new, cols)
    BY ChangeFacts, RowChangeFacts
  <1>2. cols \in Seq(STRING) /\ cols # NotDescribed /\ IsInjective(cols)
    BY <1>1, ColumnFacts
  <1>3. /\ m.rel = c.rel /\ m.op = c.op /\ m.old = c.old /\ m.new = c.new
    BY DEF Message
  <1>4. rel_cache[c.rel] = cols
    BY <1>1
  <1> HIDE DEF c, m, cols
  <1>5. ASSUME NEW tuple, Fits(tuple, cols), tuple # NoTuple
        PROVE  decode_tuple(tuple, cols) = RowOfTuple(tuple, cols)
    <2>1. DOMAIN tuple = DOMAIN cols
      BY <1>5 DEF Fits
    <2>2. cols \in Seq(STRING) /\ IsInjective(cols)
      BY <1>2
    <2> QED
      BY ONLY <1>5, <2>1, <2>2, DecodedTuple
  <1>6. ASSUME NEW tuple, Fits(tuple, cols)
        PROVE  (IF tuple = NoTuple THEN NoTuple ELSE decode_tuple(tuple, cols)) = RowOfTuple(tuple, cols)
    BY <1>5, <1>6 DEF RowOfTuple
  <1>7. Named(c.rel) = c.rel
    BY <1>2, <1>4 DEF Named
  <1>8. Decoded(m) = Original(c)
    BY <1>1, <1>3, <1>4, <1>6, <1>7 DEF Decoded, Original, cols
  <1> QED
    BY <1>8 DEF c, m

\* The gate lets a decoded change through exactly if the command line selects it.
LEMMA ForwardedRow ==
    ASSUME FiltersAsSql, NEW c \in RowChanges
    PROVE  should_forward(Original(c)) <=> Selected(c)
  <1>1. DOMAIN c.cols = {c.rel} /\ c.op # "truncate"
    BY RowChangeFacts
  <1>2. Original(c).op = c.op /\ Original(c).table = c.rel
    BY DEF Original
  <1>3. RulesHold(Original(c)) <=>
          \A k \in DOMAIN config.where :
            config.where[k][1] \in {Global, c.rel} => SqlTrue(config.where[k][2], Subject(c))
    BY <1>2 DEF RulesHold, Subject, FiltersAsSql
  <1>4. table_matches(c.rel) <=>
          \/ config.tables = {}
          \/ \E f \in config.tables : f[1] \in DOMAIN c.cols
    BY <1>1 DEF table_matches
  <1> QED
    BY <1>1, <1>2, <1>3, <1>4 DEF should_forward, Selected, op_matches

LEMMA DecodedTruncate ==
    ASSUME PipelineTypeOK, WalInv, NEW p \in DOMAIN wal, wal[p].op = "truncate",
           \A t \in DOMAIN wal[p].cols : rel_cache[t] = wal[p].cols[t]
    PROVE  decode_truncate(Message(p)) = Event(wal[p])
  <1> DEFINE c == wal[p]
  <1>1. \A t \in DOMAIN c.cols : Named(t) = t
    <2> SUFFICES ASSUME NEW t \in DOMAIN c.cols PROVE rel_cache[t] # NotDescribed
      BY DEF Named
    <2>1. t \in Tables /\ c.cols[t] \in Range(Shapes[t])
      BY ChangeFacts
    <2> QED
      BY <2>1, ColumnFacts
  <1>2. {Named(t) : t \in DOMAIN c.cols} = DOMAIN c.cols
    BY <1>1
  <1>3. Message(p).rels = DOMAIN c.cols
    BY DEF Message
  <1> QED
    BY <1>2, <1>3 DEF decode_truncate, Event

\* What the sink is given when the session handles its next change.
LEMMA OutcomeFacts ==
    ASSUME PipelineTypeOK, WalInv, WireInv, FiltersAsSql, TransformsAsDeclared,
           HandleRow \/ HandleTruncate
    PROVE  /\ handled + 1 \in DOMAIN wal
           /\ delivered' = IF Forwarded(wal[handled + 1])
                           THEN Append(delivered, Given(handled + 1, Event(wal[handled + 1])))
                           ELSE delivered
  <1> DEFINE p == handled + 1
             c == wal[p]
  <1>1. /\ wire # <<>> /\ Head(wire) = wire[1] /\ IsChange(1)
    <2>1. wire # <<>>
      BY TakenFacts
    <2> QED
      BY <2>1, FirstMessage DEF HandleRow, HandleTruncate, IsChange
  <1>2. /\ wire[1] = Message(p) /\ p <= sent /\ wire[1].at = p
        /\ \A t \in DOMAIN c.cols : rel_cache[t] = c.cols[t]
    BY <1>1, FirstMessage
  <1>3. p \in DOMAIN wal
    BY <1>2, Numbers
  <1>4. Head(wire) = Message(p) /\ Head(wire).at = p
    BY <1>1, <1>2
  <1>5. delivered \in Seq(Range(delivered))
    BY DEF PipelineTypeOK
  <1>6. CASE c.op = "truncate"
    <2>1. Message(p).tag = "T"
      BY <1>6 DEF Message
    <2>2. delivered' = IF forward_truncate(decode_truncate(Message(p)))
                       THEN Append(delivered, Given(p, decode_truncate(Message(p)))) ELSE delivered
      BY <1>4, <2>1 DEF HandleRow, HandleTruncate
    <2> HIDE DEF p
    <2> QED
      BY <1>2, <1>3, <1>6, <2>2, DecodedTruncate DEF p, Forwarded
  <1>7. CASE c.op # "truncate"
    <2>1. Message(p).tag = "row"
      BY <1>7 DEF Message
    <2>2. delivered' = delivered \o Outcome(p, Decoded(Message(p)))
      BY <1>4, <2>1 DEF HandleRow, HandleTruncate
    <2>3. Decoded(Message(p)) = Original(c)
      BY <1>2, <1>3, <1>7, DecodedRow
    <2>4. c \in RowChanges
      BY <1>3, <1>7, ChangeFacts
    <2>5. Transformed(Original(c)) = Event(c)
      BY <1>7, <2>4 DEF TransformsAsDeclared, Event
    <2>6. should_forward(Original(c)) <=> Forwarded(c)
      BY <1>7, <2>4, ForwardedRow DEF Forwarded
    <2> HIDE DEF p, c
    <2>7. CASE Forwarded(c)
      <3>1. delivered' = delivered \o <<Given(p, Event(c))>>
        BY <2>2, <2>3, <2>5, <2>6, <2>7 DEF Outcome
      <3> QED
        BY <1>3, <1>5, <2>7, <3>1, OneMore DEF p, c
    <2>8. CASE ~Forwarded(c)
      <3>1. delivered' = delivered \o <<>>
        BY <2>2, <2>3, <2>6, <2>8 DEF Outcome
      <3> QED
        BY <1>3, <1>5, <2>8, <3>1, OneMore DEF p, c
    <2> QED
      BY <2>7, <2>8
  <1> QED
    BY <1>6, <1>7
\* A step keeps what the sink was given to what the gates let through.
LEMMA DeclaredStep ==
    ASSUME PipelineInv, FiltersAsSql, TransformsAsDeclared, ForwardedExactly,
           PipelineNext
    PROVE  ForwardedExactly'
  <1> DEFINE D == Len(delivered)
  <1> USE DEF PipelineInv
  <1>0. /\ D \in Nat /\ DOMAIN delivered = 1 .. D /\ delivered \in Seq(Range(delivered))
        /\ handled \in Nat /\ handled <= Len(wal) /\ Len(wal) \in Nat
    BY Numbers DEF PipelineTypeOK
  <1>1. /\ \A i \in 1 .. D : delivered'[i] = delivered[i]
        /\ delivered' = delivered \/ DOMAIN delivered' = 1 .. D + 1
    BY GivenBefore
  <1>2. /\ \A p \in 1 .. handled : wal'[p] = wal[p]
        /\ config' = config
    BY <1>0, WalStep, GivenStep
  <1>3. \A i \in Deliveries : i \in 1 .. D /\ delivered[i].at \in 1 .. handled
    BY <1>0 DEF Deliveries, DeliveredInv
  <1>4. Deliveries = {i \in 1 .. D : delivered'[i].type = "change"}
    BY <1>0, <1>1 DEF Deliveries
  <1>5. CASE handled' = handled /\ {i \in DOMAIN delivered' : delivered'[i].type = "change"} = Deliveries
    <2>1. \A i \in Deliveries : delivered'[i] = delivered[i] /\ wal'[delivered[i].at] = wal[delivered[i].at]
      BY <1>1, <1>2, <1>3
    <2>2. \A i \in Deliveries : delivered'[i].event = Event(wal'[delivered'[i].at])
      BY <2>1 DEF ForwardedExactly
    <2>3. \A i, j \in Deliveries : i < j => delivered'[i].at < delivered'[j].at
      BY <2>1 DEF ForwardedExactly
    <2>4. {delivered'[i].at : i \in Deliveries} = {delivered[i].at : i \in Deliveries}
      BY <2>1
    <2>5. {p \in 1 .. handled' : Forwarded(wal'[p])} = {p \in 1 .. handled : Forwarded(wal[p])}
      BY <1>2, <1>5
    <2>6. {delivered'[i].at : i \in Deliveries} = {p \in 1 .. handled' : Forwarded(wal'[p])}
      BY <2>4, <2>5 DEF ForwardedExactly
    <2> QED
      BY <1>2, <1>5, <2>2, <2>3, <2>6, DeclaredNext
  <1>6. CASE HandleRow \/ HandleTruncate
    <2> DEFINE p == handled + 1
               c == wal[p]
    <2>1. /\ p \in DOMAIN wal /\ handled' = p /\ wal'[p] = c
          /\ delivered' = IF Forwarded(c) THEN Append(delivered, Given(p, Event(c))) ELSE delivered
      BY <1>6, OutcomeFacts, HandledStep, TakenFacts
    <2>2. {q \in 1 .. handled' : Forwarded(wal'[q])}
            = {q \in 1 .. handled : Forwarded(wal[q])} \cup {q \in {p} : Forwarded(c)}
      <3>1. \A q : q \in 1 .. handled' <=> q \in 1 .. handled \/ q = p
        BY <1>0, <2>1
      <3>2. p \notin 1 .. handled
        BY <1>0
      <3> HIDE DEF p, c
      <3> QED
        BY <1>2, <2>1, <3>1, <3>2
    <2> DEFINE I == {i \in DOMAIN delivered' : delivered'[i].type = "change"}
    <2>3. CASE ~Forwarded(c)
      <3>1. I = Deliveries /\ delivered' = delivered
        BY <2>1, <2>3 DEF Deliveries
      <3>2. \A i \in I : delivered'[i].event = Event(wal'[delivered'[i].at])
        BY <1>2, <1>3, <3>1 DEF ForwardedExactly
      <3>3. \A i, j \in I : i < j => delivered'[i].at < delivered'[j].at
        BY <3>1 DEF ForwardedExactly
      <3>4. {delivered'[i].at : i \in I} = {q \in 1 .. handled' : Forwarded(wal'[q])}
        BY <2>2, <2>3, <3>1 DEF ForwardedExactly
      <3> HIDE DEF I
      <3> QED
        BY <1>2, <3>2, <3>3, <3>4, DeclaredNext DEF I
    <2>4. CASE Forwarded(c)
      <3>1. /\ delivered'[D + 1] = Given(p, Event(c)) /\ DOMAIN delivered' = 1 .. D + 1
        BY <1>0, <2>1, <2>4, Appended
      <3>2. I = Deliveries \cup {D + 1} /\ D + 1 \notin Deliveries
        <4>1. delivered'[D + 1].type = "change"
          BY <3>1 DEF Given
        <4>2. \A i : i \in 1 .. D + 1 <=> i \in 1 .. D \/ i = D + 1
          BY <1>0
        <4>3. D + 1 \notin 1 .. D
          BY <1>0
        <4> HIDE DEF D
        <4> QED
          BY <1>3, <1>4, <3>1, <4>1, <4>2, <4>3
      <3>3. \A i \in Deliveries : /\ delivered'[i] = delivered[i]
                                  /\ wal'[delivered[i].at] = wal[delivered[i].at]
        BY <1>1, <1>2, <1>3
      <3>4. delivered'[D + 1].at = p /\ delivered'[D + 1].event = Event(c)
        BY <3>1 DEF Given
      <3>5. \A i \in I : delivered'[i].event = Event(wal'[delivered'[i].at])
        <4>1. ASSUME NEW i \in Deliveries PROVE delivered'[i].event = Event(wal'[delivered'[i].at])
          BY <3>3 DEF ForwardedExactly
        <4>2. delivered'[D + 1].event = Event(wal'[delivered'[D + 1].at])
          BY <2>1, <3>4
        <4> HIDE DEF I, p, c, D
        <4> QED
          BY <3>2, <4>1, <4>2
      <3>6. \A i, j \in I : i < j => delivered'[i].at < delivered'[j].at
        <4> SUFFICES ASSUME NEW i \in I, NEW j \in I, i < j
                     PROVE  delivered'[i].at < delivered'[j].at
          OBVIOUS
        <4>1. i \in Deliveries
          BY <1>0, <1>3, <3>2
        <4>2. CASE j \in Deliveries
          BY <3>3, <4>1, <4>2 DEF ForwardedExactly
        <4>3. CASE j = D + 1
          BY <1>0, <1>3, <3>3, <3>4, <4>1, <4>3
        <4> QED
          BY <3>2, <4>2, <4>3
      <3>7. {delivered'[i].at : i \in I} = {q \in 1 .. handled' : Forwarded(wal'[q])}
        <4>1. {delivered'[i].at : i \in I} = {delivered[i].at : i \in Deliveries} \cup {p}
          <5> HIDE DEF I, p, c, D
          <5> QED
            BY <3>2, <3>3, <3>4
        <4>2. {q \in {p} : Forwarded(c)} = {p}
          BY <2>4
        <4> QED
          BY <2>2, <4>1, <4>2 DEF ForwardedExactly
      <3> HIDE DEF I
      <3> QED
        BY <1>2, <3>5, <3>6, <3>7, DeclaredNext DEF I
    <2> QED
      BY <2>3, <2>4
  <1>7. CASE ~(HandleRow \/ HandleTruncate)
    <2>1. handled' = handled
      BY <1>7, HandledStep
    <2>2. {i \in DOMAIN delivered' : delivered'[i].type = "change"} = Deliveries
      <3>1. CASE delivered' = delivered
        BY <3>1 DEF Deliveries
      <3>2. CASE delivered' = Append(delivered, Told(wire[1].rel, wire[1].cols))
        <4>1. delivered'[D + 1].type # "change" /\ DOMAIN delivered' = 1 .. D + 1
          BY <1>0, <3>2, Appended DEF Told
        <4>2. \A i : i \in 1 .. D + 1 <=> i \in 1 .. D \/ i = D + 1
          BY <1>0
        <4> HIDE DEF D
        <4> QED
          BY <1>4, <4>1, <4>2
      <3> QED
        BY <1>7, <3>1, <3>2, GivenStep
    <2> QED
      BY <1>5, <2>1, <2>2
  <1> QED
    BY <1>6, <1>7

\* The gate of a TRUNCATE lets only selected ones through, and all of them of which
\* a table is typed in full.
LEMMA ForwardedSelected ==
    ASSUME config \in Configs, NEW c
    PROVE  /\ Forwarded(c) => Selected(c)
           /\ Selected(c) /\ ~Forwarded(c) => c.op = "truncate" /\ TypedBare(c)
  <1> SUFFICES ASSUME c.op = "truncate"
               PROVE  /\ Forwarded(c) => Selected(c)
                      /\ Selected(c) /\ ~TypedBare(c) => Forwarded(c)
    BY DEF Forwarded
  <1>1. config.tables \subseteq Tables \X {"bare", "qualified"}
    BY PipelineAssumption
  <1>2. Event(c).tables = DOMAIN c.cols
    BY DEF Event
  <1>3. ASSUME NEW t \in DOMAIN c.cols, <<t, "qualified">> \in config.tables
        PROVE  \E f \in config.tables : f[1] \in DOMAIN c.cols
    BY <1>3
  <1>4. ASSUME ~TypedBare(c), config.tables # {}
        PROVE  \E t \in DOMAIN c.cols : <<t, "qualified">> \in config.tables
    <2>1. PICK f \in config.tables : f[1] \in DOMAIN c.cols /\ f[2] # "bare"
      BY <1>4 DEF TypedBare
    <2>2. f = <<f[1], "qualified">>
      BY <1>1, <2>1
    <2> QED
      BY <2>1, <2>2
  <1> QED
    BY <1>2, <1>3, <1>4 DEF Forwarded, forward_truncate, Selected, op_matches

\* Where a --where passes the rows SQL selects, and the drops and renames do to a
\* row what they declare, a session gives the sink the changes the command line
\* selects and no others, each once, in order, decoded by the columns its table
\* had then; only a TRUNCATE of tables that are typed bare may be missing.
THEOREM DeliversAsDeclared ==
    PipelineSpec /\ []RulesMeanWhatTheySay => []DeliveredAsDeclared
  <1>1. PipelineInit => ForwardedExactly
    <2> SUFFICES ASSUME PipelineInit PROVE ForwardedExactly
      OBVIOUS
    <2>1. DOMAIN delivered = {} /\ handled = 0
      BY Empty DEF PipelineInit
    <2>2. Deliveries = {}
      BY <2>1 DEF Deliveries
    <2> QED
      BY <2>1, <2>2 DEF ForwardedExactly
  <1>2. ASSUME PipelineInv, RulesMeanWhatTheySay, ForwardedExactly,
               [PipelineNext]_pipelineVars
        PROVE  ForwardedExactly'
    <2>1. CASE PipelineNext
      BY <1>2, <2>1, DeclaredStep DEF RulesMeanWhatTheySay
    <2>2. CASE UNCHANGED pipelineVars
      <3>1. UNCHANGED <<config, delivered, wal, handled>>
        BY <2>2 DEF pipelineVars, configVars, serverVars, sessionVars
      <3>2. \A i \in Deliveries : delivered'[i].event = Event(wal'[delivered'[i].at])
        BY <1>2, <3>1 DEF ForwardedExactly
      <3>3. \A i, j \in Deliveries : i < j => delivered'[i].at < delivered'[j].at
        BY <1>2, <3>1 DEF ForwardedExactly
      <3>4. {delivered'[i].at : i \in Deliveries} = {p \in 1 .. handled' : Forwarded(wal'[p])}
        BY <1>2, <3>1 DEF ForwardedExactly
      <3>5. Deliveries = {i \in DOMAIN delivered' : delivered'[i].type = "change"}
        BY <3>1 DEF Deliveries
      <3> QED
        BY <3>1, <3>2, <3>3, <3>4, <3>5, DeclaredNext
    <2> QED
      BY <1>2, <2>1, <2>2
  <1>3. PipelineInv /\ ForwardedExactly => DeliveredAsDeclared
    <2> SUFFICES ASSUME config \in Configs, ForwardedExactly PROVE DeliveredAsDeclared
      BY DEF PipelineInv, PipelineTypeOK
    <2>1. GivenAt = {p \in 1 .. handled : Forwarded(wal[p])}
      BY DEF ForwardedExactly, GivenAt
    <2>2. GivenAt \subseteq Due
      BY <2>1, ForwardedSelected DEF Due
    <2>3. \A p \in Due \ GivenAt : wal[p].op = "truncate" /\ TypedBare(wal[p])
      BY <2>1, ForwardedSelected DEF Due
    <2> QED
      BY <2>2, <2>3 DEF ForwardedExactly, DeliveredAsDeclared
  <1> QED
    BY <1>1, <1>2, <1>3, PipelineInvariant, PTL DEF PipelineSpec
=============================================================================
