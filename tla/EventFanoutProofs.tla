------------------------- MODULE EventFanoutProofs -------------------------
(***************************************************************************)
(* Proofs about EventFanout, for every capacity of the lifecycle log and   *)
(* of the two topics and any number of events: the type invariant, the     *)
(* accounting of deltas, and the inductive invariant FanoutInv, from which *)
(* the properties of events_since and of LifecycleStream follow.           *)
(***************************************************************************)
EXTENDS EventFanout, FiniteSetTheorems, WellFoundedInduction, TLAPS

(* Bounded buffers.                                                        *)

\* A nonempty set of sequence numbers has a least element.
LEMMA HasOldest ==
  ASSUME NEW S \in SUBSET Nat, S # {}
  PROVE  \E n \in S : \A m \in S : n <= m
<1> DEFINE R == {p \in Nat \X Nat : p[1] < p[2]}
<1>1. IsWellFoundedOn(R, Nat)
  BY NatLessThanWellFounded, Zenon DEF OpToRel
<1>2. PICK n \in S : \A m \in S : <<m, n>> \notin R
  <2> HIDE DEF R
  <2> QED
    BY <1>1, WFMin
<1>3. \A m \in S : ~(m < n)
  BY <1>2
<1> QED
  BY <1>3

\* Oldest is that element.
LEMMA OldestIs ==
  ASSUME NEW S \in SUBSET Nat, S # {}
  PROVE  /\ Oldest(S) \in S
         /\ \A m \in S : Oldest(S) <= m
  BY HasOldest DEF Oldest

\* Pushing a number larger than all in the buffer keeps the capacity; a full
\* buffer loses its oldest number and no other.
LEMMA PushedIs ==
  ASSUME NEW S \in SUBSET Nat, IsFiniteSet(S),
         NEW n \in Nat, \A m \in S : m < n,
         NEW cap \in Nat \ {0}, Cardinality(S) <= cap
  PROVE  /\ Pushed(S, n, cap) \subseteq S \cup {n}
         /\ n \in Pushed(S, n, cap)
         /\ Cardinality(Pushed(S, n, cap)) <= cap
         /\ Cardinality(S) < cap => Pushed(S, n, cap) = S \cup {n}
         /\ ~(Cardinality(S) < cap) =>
              /\ S # {}
              /\ Pushed(S, n, cap) = (S \ {Oldest(S)}) \cup {n}
<1>1. n \notin S
  OBVIOUS
<1>2. /\ IsFiniteSet(S \cup {n})
      /\ Cardinality(S \cup {n}) = Cardinality(S) + 1
      /\ Cardinality(S) \in Nat
  BY <1>1, FS_AddElement, FS_CardinalityType
<1>3. CASE Cardinality(S) < cap
  BY <1>2, <1>3 DEF Pushed
<1>4. CASE ~(Cardinality(S) < cap)
  <2>1. S # {}
    BY <1>4, FS_EmptySet
  <2>2. Oldest(S) \in S /\ \A m \in S : Oldest(S) <= m
    BY <2>1, OldestIs
  <2>3. /\ Oldest(S \cup {n}) \in S \cup {n}
        /\ \A m \in S \cup {n} : Oldest(S \cup {n}) <= m
    BY OldestIs
  <2>4. Oldest(S \cup {n}) = Oldest(S)
    <3>1. Oldest(S) \in Nat /\ Oldest(S) < n /\ Oldest(S) \in S \cup {n}
      BY <2>2
    <3>2. Oldest(S \cup {n}) \in Nat /\ Oldest(S \cup {n}) <= Oldest(S)
      BY <2>3, <3>1
    <3>3. Oldest(S \cup {n}) # n
      BY <3>1, <3>2
    <3>4. Oldest(S) <= Oldest(S \cup {n})
      BY <2>2, <2>3, <3>3
    <3> QED
      BY <3>1, <3>2, <3>4
  <2>5. Pushed(S, n, cap) = (S \cup {n}) \ {Oldest(S)}
    BY <1>4, <2>4 DEF Pushed
  <2>6. Cardinality((S \cup {n}) \ {Oldest(S)}) = Cardinality(S \cup {n}) - 1
    BY <1>2, <2>2, FS_RemoveElement
  <2> QED
    BY <1>1, <1>2, <1>4, <2>1, <2>2, <2>5, <2>6
<1> QED
  BY <1>3, <1>4

\* A buffer of received events is finite.
LEMMA BufferIsFinite ==
  ASSUME NEW k \in Nat, NEW S, S \subseteq 1..k
  PROVE  IsFiniteSet(S)
<1>1. 1 \in Int /\ k \in Int
  OBVIOUS
<1>2. IsFiniteSet(1..k)
  BY <1>1, FS_Interval
<1> QED
  BY <1>2, FS_Subset

\* What the buffers hold after process has pushed the last event.
LEMMA LogPushed ==
  ASSUME FanoutTypeOK, phase = "applied", LogIsSuffix
  PROVE  /\ Pushed(log, Received, LogCap) \subseteq log \cup {Received}
         /\ Received \in Pushed(log, Received, LogCap)
         /\ Cardinality(Pushed(log, Received, LogCap)) <= LogCap
         /\ \A n \in log : n \notin Pushed(log, Received, LogCap) =>
              \A m \in Pushed(log, Received, LogCap) : n < m
<1>1. /\ Received \in Nat
      /\ log \in SUBSET Nat
      /\ log \subseteq 1..Received
      /\ Cardinality(log) <= LogCap
  BY DEF FanoutTypeOK, Received
<1>2. \A m \in log : m < Received
  BY <1>1 DEF LogIsSuffix, Logged
<1>3. IsFiniteSet(log)
  BY <1>1, BufferIsFinite
<1>4. LogCap \in Nat \ {0}
  BY FanoutAssumption DEF FanoutAssumption
<1>5. /\ Pushed(log, Received, LogCap) \subseteq log \cup {Received}
      /\ Received \in Pushed(log, Received, LogCap)
      /\ Cardinality(Pushed(log, Received, LogCap)) <= LogCap
      /\ Cardinality(log) < LogCap =>
           Pushed(log, Received, LogCap) = log \cup {Received}
      /\ ~(Cardinality(log) < LogCap) =>
           /\ log # {}
           /\ Pushed(log, Received, LogCap)
                = (log \ {Oldest(log)}) \cup {Received}
  BY <1>1, <1>2, <1>3, <1>4, PushedIs
<1>6. ASSUME NEW n \in log, n \notin Pushed(log, Received, LogCap),
             NEW m \in Pushed(log, Received, LogCap)
      PROVE  n < m
  <2>1. /\ log # {}
        /\ Pushed(log, Received, LogCap)
             = (log \ {Oldest(log)}) \cup {Received}
    BY <1>5, <1>6
  <2>2. n = Oldest(log) /\ \A k \in log : n <= k
    BY <1>1, <1>6, <2>1, OldestIs
  <2>3. m = Received \/ (m \in log /\ m # n)
    BY <1>6, <2>1, <2>2
  <2>4. m \in Nat /\ n \in Nat /\ Received \in Nat
    BY <1>1, <1>6, <2>3
  <2>5. CASE m = Received
    BY <1>2, <1>6, <2>5
  <2>6. CASE m \in log /\ m # n
    BY <2>2, <2>4, <2>6
  <2> QED
    BY <2>3, <2>5, <2>6
<1> QED
  BY <1>5, <1>6

LEMMA HubPushed ==
  ASSUME FanoutTypeOK, TopicIsSuffix, phase = "logged"
  PROVE  /\ Pushed(hub, Received, HubCap) \subseteq hub \cup {Received}
         /\ Cardinality(Pushed(hub, Received, HubCap)) <= HubCap
         /\ Cardinality(hub) < HubCap =>
              Pushed(hub, Received, HubCap) = hub \cup {Received}
         /\ ~(Cardinality(hub) < HubCap) =>
              /\ Oldest(hub) \in hub
              /\ Pushed(hub, Received, HubCap)
                   = {m \in hub : Oldest(hub) < m} \cup {Received}
<1>1. /\ Received \in Nat
      /\ hub \in SUBSET Nat
      /\ hub \subseteq 1..Received
      /\ Cardinality(hub) <= HubCap
  BY DEF FanoutTypeOK, Received
<1>2. \A m \in hub : m < Received
  BY <1>1 DEF TopicIsSuffix, Published
<1>3. IsFiniteSet(hub)
  BY <1>1, BufferIsFinite
<1>4. HubCap \in Nat \ {0}
  BY FanoutAssumption DEF FanoutAssumption
<1>5. /\ Pushed(hub, Received, HubCap) \subseteq hub \cup {Received}
      /\ Cardinality(Pushed(hub, Received, HubCap)) <= HubCap
      /\ Cardinality(hub) < HubCap =>
           Pushed(hub, Received, HubCap) = hub \cup {Received}
      /\ ~(Cardinality(hub) < HubCap) =>
           /\ hub # {}
           /\ Pushed(hub, Received, HubCap)
                = (hub \ {Oldest(hub)}) \cup {Received}
  BY <1>1, <1>2, <1>3, <1>4, PushedIs
<1>6. ASSUME ~(Cardinality(hub) < HubCap)
      PROVE  /\ Oldest(hub) \in hub
             /\ hub \ {Oldest(hub)} = {m \in hub : Oldest(hub) < m}
  <2>1. Oldest(hub) \in hub /\ \A m \in hub : Oldest(hub) <= m
    BY <1>1, <1>5, <1>6, OldestIs
  <2>2. PICK o \in hub : o = Oldest(hub)
    BY <2>1
  <2>3. \A m \in hub : m # o <=> o < m
    BY <1>1, <2>1, <2>2
  <2>4. hub \ {o} = {m \in hub : o < m}
    BY <2>3
  <2> QED
    BY <2>1, <2>2, <2>4
<1> QED
  BY <1>5, <1>6

-----------------------------------------------------------------------------
(* The type invariant.                                                     *)

\* The numbers the steps compare.
LEMMA Numbers ==
  ASSUME FanoutTypeOK
  PROVE  /\ Received \in Nat /\ Published \in Nat /\ Logged \in Nat
         /\ Published <= Logged /\ Logged <= Received
         /\ Lifecycle \subseteq 1..Received
         /\ log \subseteq 1..Received /\ hub \subseteq 1..Received
         /\ {atSequence, overwritten, cursor, position, since, attached, skipped,
             excused} \subseteq 0..Received
  BY DEF FanoutTypeOK, Received, Published, Logged, Lifecycle

\* Larger of two bounded numbers is bounded.
LEMMA LargerIs ==
  ASSUME NEW k \in Nat, NEW a \in 0..k, NEW b \in 0..k
  PROVE  /\ Larger(a, b) \in 0..k
         /\ a <= Larger(a, b) /\ b <= Larger(a, b)
  BY DEF Larger

\* Every step keeps the types and the capacities of the buffers.
LEMMA TypeStep ==
  ASSUME FanoutTypeOK, FanoutInv, [FanoutNext]_fanoutVars
  PROVE  FanoutTypeOK'
<1> USE FanoutAssumption DEF FanoutAssumption
<1>1. ASSUME NEW plane \in Plane, Apply(plane)
      PROVE  FanoutTypeOK'
  <2>1. /\ planes' \in Seq(Plane)
        /\ Received' = Received + 1
        /\ Received \in Nat
        /\ Received' <= MaxFrames
    BY <1>1 DEF Apply, FanoutTypeOK, Received
  <2>2. 1..Received \subseteq 1..Received' /\ 0..Received \subseteq 0..Received'
    BY <2>1
  <2>3. atSequence' \in 0..Received'
    BY <1>1, <2>1 DEF Apply, FanoutTypeOK, Larger
  <2>4. UNCHANGED <<log, hub, overwritten, mode, cursor, position, since,
                    attached, skipped, delivered, excused, deltas, deltaNext,
                    deltaGot, dropped>>
    BY <1>1 DEF Apply, hubVars, streamVars, deltaVars
  <2>5. phase' = "applied"
    BY <1>1 DEF Apply
  <2>6. /\ planes' \in Seq(Plane)
        /\ Received' <= MaxFrames
        /\ phase' \in {"idle", "applied", "logged"}
        /\ (phase' # "idle" => Received' > 0)
    BY <2>1, <2>5
  <2> QED
    BY <2>2, <2>3, <2>4, <2>6 DEF FanoutTypeOK
<1>2. CASE Log
  <2>1. LogIsSuffix /\ phase = "applied"
    BY <1>2 DEF FanoutInv, Log
  <2>2. /\ log' \subseteq log \cup {Received}
        /\ Cardinality(log') <= LogCap
    BY <1>2, <2>1, LogPushed DEF Log, FanoutTypeOK
  <2>3. Received \in 1..Received
    BY <2>1 DEF FanoutTypeOK, Received
  <2> QED
    BY <1>2, <2>2, <2>3
    DEF Log, hubVars, streamVars, deltaVars, FanoutTypeOK, Received
<1>3. CASE Publish
  <2>1. TopicIsSuffix /\ phase = "logged"
    BY <1>3 DEF FanoutInv, Publish
  <2>2. /\ hub' \subseteq hub \cup {Received}
        /\ Cardinality(hub') <= HubCap
        /\ overwritten' = overwritten \/ overwritten' \in hub
    BY <1>3, <2>1, HubPushed DEF Publish, FanoutTypeOK, hubVars
  <2>3. /\ Received \in 1..Received /\ 1..Received \subseteq 0..Received
    BY <2>1 DEF FanoutTypeOK, Received
  <2>4. deltas' \in Nat
    BY <1>3 DEF Publish, FanoutTypeOK
  <2> QED
    BY <1>3, <2>2, <2>3, <2>4
    DEF Publish, reducerVars, streamVars, deltaVars, FanoutTypeOK, Received
<1>4. ASSUME NEW after \in 0..atSequence, Subscribe(after)
      PROVE  FanoutTypeOK'
  <2>1. /\ after \in 0..Received /\ Published \in 0..Received
        /\ Received \in Nat
    BY Numbers DEF FanoutTypeOK
  <2> QED
    BY <1>4, <2>1
    DEF Subscribe, reducerVars, hubVars, deltaVars, FanoutTypeOK, Received
<1>5. CASE RecvEvent
  BY <1>5 DEF RecvEvent, reducerVars, hubVars, deltaVars, FanoutTypeOK,
     Received
<1>6. CASE RecvLagged
  BY <1>6 DEF RecvLagged, reducerVars, hubVars, deltaVars, FanoutTypeOK,
     Received
<1>7. CASE Replay
  <2>1. EventsSince(cursor) \subseteq 1..Received /\ cursor \in 0..Received
    BY Numbers DEF EventsSince, FanoutTypeOK
  <2>2. cursor' \in 0..Received
    BY <1>7, <2>1 DEF Replay
  <2>3. delivered' \subseteq 1..Received
    BY <1>7, <2>1 DEF Replay, FanoutTypeOK
  <2> QED
    BY <1>7, <2>2, <2>3
    DEF Replay, reducerVars, hubVars, deltaVars, FanoutTypeOK, Received
<1>8. CASE FindGap
  BY <1>8 DEF FindGap, reducerVars, hubVars, deltaVars, FanoutTypeOK, Received
<1>9. CASE ReportGap
  <2>1. Larger(excused, atSequence) \in 0..Received
    BY Numbers, LargerIs DEF FanoutTypeOK
  <2> QED
    BY <1>9, <2>1
    DEF ReportGap, reducerVars, hubVars, deltaVars, FanoutTypeOK, Received
<1>10. CASE RecvDelta
  BY <1>10 DEF RecvDelta, reducerVars, hubVars, streamVars, FanoutTypeOK,
     Received
<1>11. CASE SkipDeltas
  <2>1. deltaNext' \in Nat /\ dropped' \in Nat
    BY <1>11 DEF SkipDeltas, FanoutTypeOK
  <2> QED
    BY <1>11, <2>1
    DEF SkipDeltas, reducerVars, hubVars, streamVars, FanoutTypeOK, Received
<1>12. CASE UNCHANGED fanoutVars
  BY <1>12 DEF fanoutVars, FanoutTypeOK, Received
<1> QED
  BY <1>1, <1>2, <1>3, <1>4, <1>5, <1>6, <1>7, <1>8, <1>9, <1>10, <1>11, <1>12
  DEF FanoutNext

-----------------------------------------------------------------------------
(* The inductive invariant.                                                *)

\* A step of the stream leaves the log and the topic as they are.
LEMMA StreamStep ==
  ASSUME FanoutInv, UNCHANGED <<planes, phase, reducerVars, hubVars>>
  PROVE  /\ UNCHANGED <<Received, Lifecycle, Logged, Published>>
         /\ (atSequence = Received)' /\ LogIsSuffix' /\ TopicIsSuffix'
  BY DEF FanoutInv, LogIsSuffix, TopicIsSuffix, Received, Lifecycle, Logged,
         Published, reducerVars, hubVars

\* Unless events_since answers GapTooOld, what it returns is complete.
LEMMA Complete ==
  ASSUME FanoutTypeOK, FanoutInv, NEW sequence \in 0..Received, ~TooOld(sequence)
  PROVE  EventsSince(sequence)
           = {n \in Lifecycle : sequence < n /\ n <= Logged}
<1>1. ASSUME NEW n \in Lifecycle, sequence < n, n <= Logged
      PROVE  n \in log
  <2>1. SUFFICES ASSUME log # {}, \A m \in log : n < m
                 PROVE  FALSE
    BY <1>1 DEF FanoutInv, LogIsSuffix
  <2>2. Oldest(log) \in log
    BY <2>1, Numbers, OldestIs
  <2>3. n < Oldest(log) /\ n \in Nat /\ Oldest(log) \in Nat
    BY <1>1, <2>1, <2>2, Numbers
  <2>4. sequence + 1 < Oldest(log)
    BY <1>1, <2>3
  <2> QED
    BY <2>1, <2>4 DEF TooOld
<1>2. \A n \in log : n \in Lifecycle /\ n <= Logged
  BY DEF FanoutInv, LogIsSuffix
<1> QED
  BY <1>1, <1>2, Numbers DEF EventsSince

\* Receiving a frame adds an event that is in neither log nor topic yet.
LEMMA ApplyStep ==
  ASSUME FanoutTypeOK, FanoutInv, NEW plane \in Plane, Apply(plane)
  PROVE  FanoutInv'
<1>1. /\ Received' = Received + 1
      /\ Received \in Nat
      /\ \A n \in 1..Received : planes'[n] = planes[n]
  BY DEF Apply, FanoutTypeOK, Received
<1>2. {n \in Lifecycle' : n <= Received} = Lifecycle
  BY <1>1 DEF Lifecycle
<1>3. /\ Logged = Received /\ Logged' = Received
      /\ Published = Received /\ Published' = Received
  BY <1>1 DEF Apply, Logged, Published
<1>4. UNCHANGED <<log, hub, overwritten, mode, cursor, position, since,
                  attached, skipped, delivered, excused>>
  BY DEF Apply, hubVars, streamVars
<1>5. atSequence' = Received'
  BY <1>1 DEF Apply, FanoutInv, Larger
<1>6. LogIsSuffix'
  BY <1>2, <1>3, <1>4 DEF FanoutInv, LogIsSuffix
<1>7. /\ TopicIsSuffix' /\ (position <= Published)'
      /\ (attached <= Published /\ skipped <= attached)'
  BY <1>2, <1>3, <1>4 DEF FanoutInv, TopicIsSuffix
<1>8. CursorIsSafe'
  <2>1. SUFFICES ASSUME NEW n \in Lifecycle', since < n, n <= cursor
                 PROVE  n \in delivered \/ n <= excused \/ n <= skipped
    BY <1>4 DEF CursorIsSafe
  <2>2. n \in Nat /\ n <= Received
    BY <1>1, <2>1, Numbers DEF Lifecycle
  <2> QED
    BY <1>2, <2>1, <2>2 DEF FanoutInv, CursorIsSafe
<1>9. NoSilentLoss'
  <2>1. SUFFICES ASSUME mode = "idle",
                        NEW n \in Lifecycle', since < n, Passed(n)
                 PROVE  n \in delivered \/ n <= excused \/ n <= skipped
    BY <1>4 DEF NoSilentLoss, Passed
  <2>2. n \in Nat /\ n <= Received
    BY <1>1, <2>1, Numbers DEF Lifecycle, Passed
  <2> QED
    BY <1>2, <2>1, <2>2 DEF FanoutInv, NoSilentLoss
<1>10. HeadSafe'
  <2>1. SUFFICES ASSUME cursor # since,
                        NEW n \in Lifecycle', since < n, n <= attached
                 PROVE  n \in delivered \/ n <= excused \/ n <= skipped
    BY <1>4 DEF HeadSafe
  <2>2. n \in Nat /\ n <= Received
    BY <1>1, <2>1, Numbers DEF Lifecycle
  <2> QED
    BY <1>2, <2>1, <2>2 DEF FanoutInv, HeadSafe
<1> QED
  BY <1>5, <1>6, <1>7, <1>8, <1>9, <1>10 DEF FanoutInv

\* The log keeps a suffix when it evicts its oldest event.
LEMMA LogStep ==
  ASSUME FanoutTypeOK, FanoutInv, Log
  PROVE  FanoutInv'
<1>1. /\ UNCHANGED <<planes, atSequence, hub, overwritten, mode, cursor,
                     position, since, attached, skipped, delivered, excused>>
      /\ UNCHANGED <<Received, Lifecycle, Published>>
      /\ phase = "applied"
  BY DEF Log, hubVars, streamVars, Received, Lifecycle, Published
<1>2. Logged = Received - 1 /\ Logged' = Received /\ Received \in Nat \ {0}
  BY DEF Log, Logged, FanoutTypeOK, Received
<1>3. LogIsSuffix'
  <2>1. CASE planes[Received] = "lifecycle"
    <3>1. /\ log' \subseteq log \cup {Received}
          /\ Received \in log'
          /\ \A n \in log : n \notin log' => \A m \in log' : n < m
      BY <1>1, <2>1, LogPushed DEF Log, FanoutInv
    <3>2. Received \in Lifecycle
      BY <1>2, <2>1 DEF Lifecycle
    <3>3. \A n \in log' : n \in Lifecycle /\ n <= Received
      BY <1>2, <3>1, <3>2, Numbers DEF FanoutInv, LogIsSuffix
    <3>4. ASSUME NEW n \in Lifecycle, n # Received
          PROVE  n \in log' \/ \A m \in log' : n < m
      <4>1. n <= Logged /\ n < Received
        BY <1>2, <3>4, Numbers
      <4>2. n \in log \/ \A m \in log : n < m
        BY <4>1 DEF FanoutInv, LogIsSuffix
      <4> QED
        BY <3>1, <4>1, <4>2
    <3> QED
      BY <1>1, <1>2, <3>1, <3>3, <3>4 DEF LogIsSuffix
  <2>2. CASE planes[Received] # "lifecycle"
    <3>1. log' = log /\ Received \notin Lifecycle
      BY <2>2 DEF Log, Lifecycle
    <3>2. \A n \in Lifecycle : n <= Logged
      BY <1>2, <3>1, Numbers
    <3> QED
      BY <1>1, <1>2, <3>1, <3>2, Numbers DEF FanoutInv, LogIsSuffix
  <2> QED
    BY <2>1, <2>2
<1> QED
  BY <1>1, <1>3
  DEF FanoutInv, TopicIsSuffix, CursorIsSafe, HeadSafe, NoSilentLoss, Passed

\* Fan-out adds the last event to the topic, which overwrites its oldest.
LEMMA PublishStep ==
  ASSUME FanoutTypeOK, FanoutInv, Publish
  PROVE  FanoutInv'
<1>1. /\ UNCHANGED <<planes, atSequence, log, mode, cursor, position, since,
                     attached, skipped, delivered, excused>>
      /\ UNCHANGED <<Received, Lifecycle, Logged>>
      /\ phase = "logged"
  BY DEF Publish, reducerVars, streamVars, Received, Lifecycle, Logged
<1>2. /\ Published = Received - 1 /\ Published' = Received
      /\ Received \in Nat \ {0}
  BY DEF Publish, Published, FanoutTypeOK, Received
<1>3. /\ hub = {n \in Lifecycle : overwritten < n /\ n <= Published}
      /\ overwritten \in Nat /\ overwritten <= Published
  BY Numbers DEF FanoutInv, TopicIsSuffix
<1>4. TopicIsSuffix'
  <2>1. CASE planes[Received] = "lifecycle"
    <3>1. Received \in Lifecycle
      BY <1>2, <2>1 DEF Lifecycle
    <3>2. /\ hub' = Pushed(hub, Received, HubCap)
          /\ overwritten' = IF Cardinality(hub) < HubCap THEN overwritten
                                                        ELSE Oldest(hub)
      BY <2>1 DEF Publish
    <3>3. {n \in Lifecycle : overwritten < n /\ n <= Received}
            = hub \cup {Received}
      <4>1. \A n \in Lifecycle :
              n <= Received <=> (n <= Published \/ n = Received)
        BY <1>2, Numbers
      <4>2. overwritten < Received
        BY <1>2, <1>3
      <4> QED
        BY <1>3, <3>1, <4>1, <4>2
    <3>4. CASE Cardinality(hub) < HubCap
      <4>1. hub' = hub \cup {Received} /\ overwritten' = overwritten
        BY <1>1, <3>2, <3>4, HubPushed DEF FanoutInv
      <4> QED
        BY <1>1, <1>2, <1>3, <3>3, <4>1 DEF TopicIsSuffix
    <3>5. CASE ~(Cardinality(hub) < HubCap)
      <4>1. /\ overwritten' \in hub
            /\ hub' = {n \in hub : overwritten' < n} \cup {Received}
        BY <1>1, <3>2, <3>5, HubPushed DEF FanoutInv
      <4>2. /\ overwritten' \in Nat
            /\ overwritten < overwritten' /\ overwritten' <= Published
        BY <1>3, <4>1, Numbers
      <4>3. hub' = {n \in Lifecycle : overwritten' < n /\ n <= Received}
        <5>1. ASSUME NEW n
              PROVE  n \in hub' <=>
                       n \in Lifecycle /\ overwritten' < n /\ n <= Received
          <6>1. n \in Lifecycle /\ overwritten < n /\ n <= Received
                  <=> n \in hub \/ n = Received
            BY <3>3
          <6>2. n \in Lifecycle /\ overwritten' < n => overwritten < n
            BY <1>3, <4>2, Numbers
          <6>3. n = Received => n \in Lifecycle /\ overwritten' < n
            BY <1>2, <3>1, <4>2
          <6>4. n \in hub' <=> (n \in hub /\ overwritten' < n) \/ n = Received
            BY <4>1
          <6> QED
            BY <6>1, <6>2, <6>3, <6>4
        <5> QED
          BY <5>1
      <4> QED
        BY <1>1, <1>2, <4>2, <4>3 DEF TopicIsSuffix
    <3> QED
      BY <3>4, <3>5
  <2>2. CASE planes[Received] # "lifecycle"
    <3>1. UNCHANGED hub /\ UNCHANGED overwritten /\ Received \notin Lifecycle
      BY <2>2 DEF Publish, hubVars, Lifecycle
    <3> QED
      BY <1>1, <1>2, <1>3, <3>1, Numbers DEF TopicIsSuffix
  <2> QED
    BY <2>1, <2>2
<1>5. (position <= Published /\ attached <= Published /\ skipped <= attached)'
  BY <1>1, <1>2, Numbers DEF FanoutInv
<1> QED
  BY <1>1, <1>4, <1>5
  DEF FanoutInv, LogIsSuffix, CursorIsSafe, HeadSafe, NoSilentLoss, Passed

\* The next event of the topic is the next lifecycle event.
LEMMA RecvEventStep ==
  ASSUME FanoutTypeOK, FanoutInv, RecvEvent
  PROVE  FanoutInv'
<1>1. PICK n \in hub :
        /\ n > position
        /\ \A m \in hub : m > position => n <= m
        /\ cursor' = n
        /\ position' = n
        /\ delivered' = delivered \cup {n}
  BY DEF RecvEvent
<1>2. /\ UNCHANGED <<since, attached, excused, mode>>
      /\ skipped' = IF cursor = since THEN attached ELSE skipped
      /\ UNCHANGED <<planes, phase, reducerVars, hubVars>>
      /\ mode = "idle" /\ overwritten <= position
  BY DEF RecvEvent
<1>3. /\ UNCHANGED <<Received, Lifecycle, Logged, Published>>
      /\ (atSequence = Received)' /\ LogIsSuffix' /\ TopicIsSuffix'
  BY <1>2, StreamStep
<1>4. hub = {m \in Lifecycle : overwritten < m /\ m <= Published}
  BY DEF FanoutInv, TopicIsSuffix
<1>5. (position <= Published /\ attached <= Published /\ skipped <= attached)'
  BY <1>1, <1>2, <1>3, <1>4, Numbers DEF FanoutInv
<1>6. skipped \in Nat /\ skipped' \in Nat /\ skipped <= skipped'
  BY <1>2, Numbers DEF FanoutInv
<1>7. ASSUME NEW m \in Lifecycle, since < m, m <= n \/ m <= attached
      PROVE  m \in delivered' \/ m <= excused \/ m <= skipped'
  <2>1. m \in Nat
    BY Numbers
  <2>2. CASE m <= attached
    <3>1. CASE cursor = since
      BY <1>2, <2>2, <3>1
    <3>2. CASE cursor # since
      BY <1>1, <1>6, <1>7, <2>1, <2>2, <3>2 DEF FanoutInv, HeadSafe
    <3> QED
      BY <3>1, <3>2
  <2>3. CASE ~(m <= attached) /\ m <= position
    <3>1. Passed(m)
      BY <2>3 DEF Passed
    <3> QED
      BY <1>1, <1>2, <1>6, <1>7, <2>1, <3>1 DEF FanoutInv, NoSilentLoss
  <2>4. CASE ~(m <= attached) /\ ~(m <= position)
    <3>1. m \in hub
      BY <1>1, <1>2, <1>4, <1>7, <2>4, Numbers
    <3>2. m = n
      BY <1>1, <1>7, <2>4, <3>1, Numbers
    <3> QED
      BY <1>1, <3>2
  <2> QED
    BY <2>2, <2>3, <2>4
<1> QED
  BY <1>1, <1>2, <1>3, <1>5, <1>7
  DEF FanoutInv, CursorIsSafe, HeadSafe, NoSilentLoss, Passed

\* A replay that is not too old closes the hole the receiver left.
LEMMA ReplayStep ==
  ASSUME FanoutTypeOK, FanoutInv, Replay
  PROVE  FanoutInv'
<1>1. /\ ~TooOld(cursor)
      /\ delivered' = delivered \cup EventsSince(cursor)
      /\ UNCHANGED <<position, since, attached, skipped, excused>>
      /\ UNCHANGED <<planes, phase, reducerVars, hubVars>>
  BY DEF Replay
<1>2. cursor' \in EventsSince(cursor) \cup {cursor}
  BY DEF Replay
<1>3. /\ UNCHANGED <<Received, Lifecycle, Logged, Published>>
      /\ (atSequence = Received)' /\ LogIsSuffix' /\ TopicIsSuffix'
  BY <1>1, StreamStep
<1>4. EventsSince(cursor) = {n \in Lifecycle : cursor < n /\ n <= Logged}
  BY <1>1, Complete DEF FanoutTypeOK
<1>5. ASSUME NEW n \in Lifecycle, since < n, n <= cursor \/ n <= Logged
      PROVE  n \in delivered' \/ n <= excused \/ n <= skipped
  <2>1. CASE n <= cursor
    BY <1>1, <1>5, <2>1 DEF FanoutInv, CursorIsSafe
  <2>2. CASE ~(n <= cursor)
    BY <1>1, <1>4, <1>5, <2>2, Numbers
  <2> QED
    BY <2>1, <2>2
<1>6. CursorIsSafe'
  <2>1. SUFFICES ASSUME NEW n \in Lifecycle, since < n, n <= cursor'
                 PROVE  n <= cursor \/ n <= Logged
    BY <1>1, <1>3, <1>5 DEF CursorIsSafe
  <2> QED
    BY <1>2, <1>4, <2>1, Numbers
<1>7. NoSilentLoss'
  <2>1. SUFFICES ASSUME NEW n \in Lifecycle,
                        since < n, n <= attached \/ n <= position
                 PROVE  n <= Logged
    BY <1>1, <1>3, <1>5 DEF NoSilentLoss, Passed
  <2>2. position <= Published /\ attached <= Published
    BY DEF FanoutInv
  <2> QED
    BY <2>1, <2>2, Numbers
<1>8. HeadSafe'
  <2>1. SUFFICES ASSUME NEW n \in Lifecycle, since < n, n <= attached
                 PROVE  n <= Logged
    BY <1>1, <1>3, <1>5 DEF HeadSafe
  <2> QED
    BY <2>1, Numbers DEF FanoutInv
<1> QED
  BY <1>1, <1>3, <1>6, <1>7, <1>8 DEF FanoutInv

\* The other steps of the stream: a new subscriber has passed nothing after
\* the sequence it asks for, a receiver that lags leaves recv in progress until
\* it has replayed, and a gap excuses everything up to its snapshot.
LEMMA SubscribeStep ==
  ASSUME FanoutTypeOK, FanoutInv, NEW after \in 0..atSequence, Subscribe(after)
  PROVE  FanoutInv'
<1>1. /\ UNCHANGED <<planes, phase, reducerVars, hubVars>>
      /\ cursor' = after /\ position' = Published
      /\ since' = after /\ attached' = Published /\ UNCHANGED skipped
  BY DEF Subscribe
<1>2. /\ UNCHANGED <<Received, Lifecycle, Logged, Published>>
      /\ (atSequence = Received)' /\ LogIsSuffix' /\ TopicIsSuffix'
  BY <1>1, StreamStep
<1>3. after \in Nat
  BY Numbers
<1>4. CursorIsSafe' /\ HeadSafe'
  BY <1>1, <1>2, <1>3, Numbers DEF CursorIsSafe, HeadSafe
<1>5. NoSilentLoss'
  BY <1>1, <1>2, <1>3, Numbers DEF NoSilentLoss, Passed
<1>6. skipped <= Published
  BY Numbers DEF FanoutInv
<1>7. (position <= Published /\ attached <= Published /\ skipped <= attached)'
  BY <1>1, <1>2, <1>6, Numbers
<1> QED
  BY <1>2, <1>4, <1>5, <1>7 DEF FanoutInv

LEMMA RecvLaggedStep ==
  ASSUME FanoutTypeOK, FanoutInv, RecvLagged
  PROVE  FanoutInv'
<1>1. /\ UNCHANGED <<planes, phase, reducerVars, hubVars>>
      /\ UNCHANGED <<cursor, since, attached, skipped, delivered, excused>>
      /\ mode' = "lagged" /\ position' = overwritten
  BY DEF RecvLagged
<1>2. /\ UNCHANGED <<Received, Lifecycle, Logged, Published>>
      /\ (atSequence = Received)' /\ LogIsSuffix' /\ TopicIsSuffix'
  BY <1>1, StreamStep
<1>3. (position <= Published)'
  BY <1>1, <1>2 DEF FanoutInv, TopicIsSuffix
<1> QED
  BY <1>1, <1>2, <1>3 DEF FanoutInv, CursorIsSafe, HeadSafe, NoSilentLoss

LEMMA FindGapStep ==
  ASSUME FanoutTypeOK, FanoutInv, FindGap
  PROVE  FanoutInv'
<1>1. /\ UNCHANGED <<planes, phase, reducerVars, hubVars>>
      /\ UNCHANGED <<cursor, position, since, attached, skipped, delivered,
                     excused>>
      /\ mode' = "gap"
  BY DEF FindGap
<1>2. /\ UNCHANGED <<Received, Lifecycle, Logged, Published>>
      /\ (atSequence = Received)' /\ LogIsSuffix' /\ TopicIsSuffix'
  BY <1>1, StreamStep
<1> QED
  BY <1>1, <1>2 DEF FanoutInv, CursorIsSafe, HeadSafe, NoSilentLoss

LEMMA ReportGapStep ==
  ASSUME FanoutTypeOK, FanoutInv, ReportGap
  PROVE  FanoutInv'
<1>1. /\ UNCHANGED <<planes, phase, reducerVars, hubVars>>
      /\ UNCHANGED <<position, since, attached, skipped, delivered>>
      /\ excused' = Larger(excused, atSequence)
  BY DEF ReportGap
<1>2. /\ UNCHANGED <<Received, Lifecycle, Logged, Published>>
      /\ (atSequence = Received)' /\ LogIsSuffix' /\ TopicIsSuffix'
  BY <1>1, StreamStep
<1>3. \A n \in Lifecycle : n <= excused'
  BY <1>1, Numbers DEF Larger, FanoutInv
<1> QED
  BY <1>1, <1>2, <1>3 DEF FanoutInv, CursorIsSafe, HeadSafe, NoSilentLoss

\* A step of the delta stream touches none of this.
LEMMA DeltaStep ==
  ASSUME FanoutInv,
         UNCHANGED <<planes, phase, reducerVars, hubVars, streamVars>>
  PROVE  FanoutInv'
<1>1. /\ UNCHANGED <<Received, Lifecycle, Logged, Published>>
      /\ (atSequence = Received)' /\ LogIsSuffix' /\ TopicIsSuffix'
  BY StreamStep
<1> QED
  BY <1>1
  DEF FanoutInv, CursorIsSafe, HeadSafe, NoSilentLoss, Passed, streamVars

LEMMA FanoutStep ==
  ASSUME FanoutTypeOK, FanoutInv, [FanoutNext]_fanoutVars
  PROVE  FanoutInv'
<1>1. CASE RecvDelta \/ SkipDeltas \/ UNCHANGED fanoutVars
  BY <1>1, DeltaStep
  DEF RecvDelta, SkipDeltas, fanoutVars, reducerVars, hubVars, streamVars
<1> QED
  BY <1>1, ApplyStep, LogStep, PublishStep, SubscribeStep, RecvEventStep,
     RecvLaggedStep, ReplayStep, FindGapStep, ReportGapStep
  DEF FanoutNext

-----------------------------------------------------------------------------
(* The theorems.                                                           *)

\* Types and capacities hold in every state, and so does what the ingress
\* task, the topic and LifecycleStream rely on between their steps.
THEOREM FanoutCorrect == FanoutSpec => [](FanoutTypeOK /\ FanoutInv)
<1>1. FanoutInit => FanoutTypeOK /\ FanoutInv
  <2> SUFFICES ASSUME FanoutInit
               PROVE  FanoutTypeOK /\ FanoutInv
    OBVIOUS
  <2>1. Received = 0 /\ Lifecycle = {} /\ Published = 0
    BY DEF FanoutInit, Received, Lifecycle, Published
  <2>2. IsFiniteSet({}) /\ Cardinality({}) = 0
    BY FS_EmptySet
  <2>3. FanoutTypeOK
    BY <2>1, <2>2, FanoutAssumption DEF FanoutInit, FanoutTypeOK,
       FanoutAssumption
  <2> QED
    BY <2>1, <2>3
    DEF FanoutInit, FanoutInv, LogIsSuffix, TopicIsSuffix, CursorIsSafe,
        HeadSafe, NoSilentLoss
<1>2. FanoutTypeOK /\ FanoutInv /\ [FanoutNext]_fanoutVars
        => (FanoutTypeOK /\ FanoutInv)'
  BY TypeStep, FanoutStep
<1> QED
  BY <1>1, <1>2, PTL DEF FanoutSpec

\* The log holds lifecycle_replay_capacity events at most and a topic its
\* broadcast capacity, and every variable of ingress and streams keeps its
\* type, for every capacity and any number of events.
THEOREM FanoutTypesCorrect == FanoutSpec => []FanoutTypeOK
  BY FanoutCorrect, PTL

\* events_since returns every lifecycle event after the sequence asked for,
\* unless it answers GapTooOld.
THEOREM ReplayIsComplete == FanoutSpec => []ReplayComplete
<1>1. FanoutTypeOK /\ FanoutInv => ReplayComplete
  BY Complete DEF ReplayComplete
<1> QED
  BY <1>1, FanoutCorrect, PTL

\* A stream that waits for its next item has handed over or reported by a gap
\* each lifecycle event it has passed after the sequence its consumer asked
\* for, but for those published before the subscription when its first item
\* was an Event: lifecycle(after) leaps over these, as OldRequestReported shows.
THEOREM NothingLostSilently == FanoutSpec => []NoSilentLoss
<1>1. FanoutInv => NoSilentLoss
  BY DEF FanoutInv
<1> QED
  BY <1>1, FanoutCorrect, PTL

\* With the same exception, the cursor of LifecycleStream never overstates what
\* the consumer has.
THEOREM CursorNeverOverstates == FanoutSpec => []CursorIsSafe
<1>1. FanoutInv => CursorIsSafe
  BY DEF FanoutInv
<1> QED
  BY <1>1, FanoutCorrect, PTL

\* What a consumer can receive is in the snapshot and, while it is retained,
\* in the log.
THEOREM ReducerFirst == FanoutSpec => []AuthoritativeFirst
<1>1. ASSUME FanoutTypeOK, FanoutInv
      PROVE  AuthoritativeFirst
  <2>1. SUFFICES ASSUME NEW n \in hub
                 PROVE  /\ n <= atSequence
                        /\ n \in log \/ \A m \in log : n < m
    BY DEF AuthoritativeFirst
  <2>2. n \in Lifecycle /\ n <= Published
    BY <1>1, <2>1 DEF FanoutInv, TopicIsSuffix
  <2>3. n <= Logged /\ n <= Received
    BY <1>1, <2>2, Numbers
  <2> QED
    BY <1>1, <2>2, <2>3 DEF FanoutInv, LogIsSuffix
<1> QED
  BY <1>1, FanoutCorrect, PTL

\* Every delta the receiver has passed was handed over or counted.
THEOREM DroppedDeltasCounted == FanoutSpec => []DeltasAccounted
<1>1. FanoutInit => DeltasAccounted
  BY DEF FanoutInit, DeltasAccounted
<1>2. ASSUME FanoutTypeOK, DeltasAccounted, [FanoutNext]_fanoutVars
      PROVE  DeltasAccounted'
  <2>1. CASE RecvDelta
    BY <1>2, <2>1 DEF RecvDelta, DeltasAccounted, FanoutTypeOK
  <2>2. CASE SkipDeltas
    <3>1. DeltaCap \in Nat
      BY FanoutAssumption DEF FanoutAssumption
    <3> QED
      BY <1>2, <2>2, <3>1 DEF SkipDeltas, DeltasAccounted, FanoutTypeOK
  <2>3. CASE UNCHANGED deltaVars
    BY <1>2, <2>3 DEF deltaVars, DeltasAccounted
  <2> QED
    BY <1>2, <2>1, <2>2, <2>3
    DEF FanoutNext, Apply, Log, Publish, Subscribe, RecvEvent, RecvLagged,
       Replay, FindGap, ReportGap, fanoutVars, deltaVars
<1>3. FanoutTypeOK /\ DeltasAccounted /\ [FanoutNext]_fanoutVars
        => DeltasAccounted'
  BY <1>2
<1> QED
  BY <1>1, <1>3, FanoutCorrect, PTL DEF FanoutSpec
=============================================================================
