-------------------------- MODULE EventStoreProofs --------------------------
(***************************************************************************)
(* Proofs about EventStore, for any threads, caps, retention and number of *)
(* events: its types, that its caps bound what is retained and its gaps    *)
(* tell exactly what is gone, and that no anchor follows the start it      *)
(* stands for.                                                             *)
(***************************************************************************)
EXTENDS EventStore, FiniteSetTheorems, SequenceTheorems, WellFoundedInduction,
        TLAPS

-----------------------------------------------------------------------------
(* Sequences and numbers.                                                  *)

LEMMA RemovedIs ==
  ASSUME NEW T, NEW s \in Seq(T), NEW i \in 1..Len(s)
  PROVE  /\ RemoveAt(s, i) \in Seq(T)
         /\ Len(RemoveAt(s, i)) = Len(s) - 1
         /\ \A j \in 1..Len(s) - 1 :
              RemoveAt(s, i)[j] = s[IF j < i THEN j ELSE j + 1]
<1> DEFINE before == SubSeq(s, 1, i - 1)
           after == SubSeq(s, i + 1, Len(s))
<1>1. Len(s) \in Nat /\ \A j \in 1..Len(s) : s[j] \in T
  OBVIOUS
<1>2. /\ before \in Seq(T) /\ Len(before) = i - 1
      /\ \A j \in 1..i - 1 : before[j] = s[j]
  <2>1. i - 1 \in Int /\ \A j \in 1..i - 1 : s[j] \in T
    BY <1>1
  <2> QED
    BY <1>1, <2>1, SubSeqProperties
<1>3. /\ after \in Seq(T) /\ Len(after) = Len(s) - i
      /\ \A j \in 1..Len(s) - i : after[j] = s[i + j]
  <2>1. i + 1 \in Int /\ \A j \in i + 1..Len(s) : s[j] \in T
    BY <1>1
  <2> QED
    BY <1>1, <2>1, SubSeqProperties
<1> HIDE DEF before, after
<1>4. /\ before \o after \in Seq(T) /\ Len(before \o after) = Len(s) - 1
      /\ \A j \in 1..Len(s) - 1 : (before \o after)[j] =
           IF j <= i - 1 THEN before[j] ELSE after[j - (i - 1)]
  <2>1. /\ before \o after \in Seq(T)
        /\ Len(before \o after) = Len(before) + Len(after)
        /\ \A j \in 1..Len(before) + Len(after) : (before \o after)[j] =
             IF j <= Len(before) THEN before[j] ELSE after[j - Len(before)]
    BY <1>2, <1>3, ConcatProperties
  <2>2. Len(before) = i - 1 /\ Len(before) + Len(after) = Len(s) - 1
    BY <1>1, <1>2, <1>3
  <2> QED
    BY <2>1, <2>2
<1>5. ASSUME NEW j \in 1..Len(s) - 1
      PROVE  (before \o after)[j] = s[IF j < i THEN j ELSE j + 1]
  <2>1. CASE j < i
    <3>1. j \in 1..i - 1
      BY <1>1, <2>1
    <3> QED
      BY <1>2, <1>4, <2>1, <3>1
  <2>2. CASE j >= i
    <3>1. j - (i - 1) \in 1..Len(s) - i /\ i + (j - (i - 1)) = j + 1
          /\ ~(j <= i - 1) /\ ~(j < i)
      BY <1>1, <2>2
    <3>2. after[j - (i - 1)] = s[j + 1]
      BY <1>3, <3>1
    <3>3. (before \o after)[j] = after[j - (i - 1)]
      BY <1>4, <3>1
    <3>4. (IF j < i THEN j ELSE j + 1) = j + 1
      BY <3>1
    <3> QED
      BY <3>2, <3>3, <3>4
  <2>3. j < i \/ j >= i
    BY <1>1
  <2> QED
    BY <2>1, <2>2, <2>3
<1> QED
  BY <1>4, <1>5 DEF RemoveAt, before, after

LEMMA HasLeast ==
  ASSUME NEW S \in SUBSET Nat, S # {}
  PROVE  \E n \in S : \A m \in S : n <= m
<1> DEFINE R == {p \in Nat \X Nat : p[1] < p[2]}
<1>1. IsWellFoundedOn(R, Nat)
  BY NatLessThanWellFounded, Zenon DEF OpToRel
<1>2. PICK n \in S : \A m \in S : <<m, n>> \notin R
  <2> HIDE DEF R
  <2> QED
    BY <1>1, WFMin
<1>3. \A m \in S : ~(m < n)
  BY <1>2
<1> QED
  BY <1>3

LEMMA MinIs ==
  ASSUME NEW S \in SUBSET Nat, S # {}
  PROVE  Min(S) \in S /\ \A m \in S : Min(S) <= m
  BY HasLeast DEF Min

LEMMA MaxIs ==
  ASSUME NEW S \in SUBSET Nat, NEW bound \in Nat, \A m \in S : m <= bound, S # {}
  PROVE  Max(S) \in S /\ \A m \in S : Max(S) >= m
<1> DEFINE D == {bound - m : m \in S}
<1>1. D \in SUBSET Nat /\ D # {}
  <2>1. \A m \in S : bound - m \in Nat
    OBVIOUS
  <2> QED
    BY <2>1
<1>2. PICK d \in D : \A e \in D : d <= e
  BY <1>1, HasLeast
<1>3. PICK n \in S : d = bound - n
  BY <1>2
<1>4. \A m \in S : n >= m
  BY <1>2, <1>3
<1> QED
  BY <1>4 DEF Max

\* The larger of the largest and a new one.
LEMMA MaxWith ==
  ASSUME NEW S \in SUBSET Nat, NEW bound \in Nat, \A m \in S : m <= bound,
         S # {}, NEW n \in Nat
  PROVE  Max(S \cup {n}) = Later(Max(S), n)
<1>1. PICK p \in S : p = Max(S) /\ \A m \in S : p >= m
  BY MaxIs, Zenon
<1> DEFINE k == IF p > n THEN p ELSE n
           U == S \cup {n}
<1>2. k \in U /\ \A m \in U : k >= m
  BY <1>1
<1>3. \A x, y \in U : x >= y /\ y >= x => x = y
  OBVIOUS
<1>4. Max(U) \in U /\ \A m \in U : Max(U) >= m
  BY <1>2 DEF Max
<1>5. Max(U) = k
  <2> HIDE DEF k, U
  <2> QED
    BY <1>2, <1>3, <1>4
<1> QED
  BY <1>1, <1>5 DEF Later

-----------------------------------------------------------------------------
(* Types.                                                                  *)

Evicts(i) == EvictAt(i) /\ UNCHANGED <<writer, idle>>

\* Whatever their reason, the loops evict one of the events.
LEMMA EvictionsAre ==
  ASSUME StoreTypeOK, AgeOut \/ Evict \/ Sweep
  PROVE  \E i \in 1..Len(events) : Evicts(i)
<1>1. events \in Seq(Event) /\ Len(events) \in Nat
  BY DEF StoreTypeOK
<1>2. CASE AgeOut
  <2>1. 1 \in 1..Len(events)
    BY <1>1, <1>2 DEF AgeOut, FrontTooOld
  <2> QED
    BY <1>2, <2>1 DEF AgeOut, Evicts
<1>3. CASE Evict
  <2>1. ASSUME NEW over
        PROVE  Victim(over) \in 1..Len(events)
    <3> DEFINE found == {i \in 1..Len(events) :
                           /\ IsDelta(events[i])
                           /\ over # {} => events[i].thread \in over}
    <3>1. found # {} => Min(found) \in found
      <4>1. found \in SUBSET Nat
        BY <1>1
      <4> QED
        BY <4>1, MinIs
    <3>2. 1 \in 1..Len(events)
      BY <1>1, <1>3 DEF Evict
    <3> QED
      BY <3>1, <3>2 DEF Victim
  <2> QED
    BY <1>3, <2>1 DEF Evict, Evicts
<1>4. CASE Sweep
  <2>1. IdleContent \in SUBSET Nat /\ \A i \in IdleContent : i <= Len(events)
    BY <1>1 DEF IdleContent
  <2>2. Max(IdleContent) \in IdleContent
    BY <1>1, <1>4, <2>1, MaxIs DEF Sweep
  <2> QED
    BY <1>4, <2>2 DEF Sweep, Evicts, IdleContent
<1> QED
  BY <1>2, <1>3, <1>4

LEMMA EventFields ==
  ASSUME StoreAssumption, NEW e \in Event
  PROVE  /\ e.seq \in 1..MaxEvents /\ e.seq \in 0..MaxEvents /\ e.seq \in Nat
         /\ e.thread \in Threads \cup {NoThread}
         /\ e.kind \in Kind /\ e.size \in Nat /\ e.time \in 0..MaxTime
<1>1. /\ e.seq \in 1..MaxEvents /\ e.thread \in Threads \cup {NoThread}
      /\ e.kind \in Kind /\ e.size \in Nat /\ e.time \in 0..MaxTime
  BY DEF Event
<1>2. MaxEvents \in Nat
  BY DEF StoreAssumption
<1> QED
  BY <1>1, <1>2

LEMMA PushKeepsTypes ==
  ASSUME StoreTypeOK, NEW e \in Event, Push(e)
  PROVE  /\ events' \in Seq(Event) /\ bytes' \in Nat
         /\ threadBytes' \in [Threads -> Nat]
         /\ gaps' \in [Threads \cup {NoThread} -> Gap]
         /\ writer' = "aging" /\ idle' \subseteq Threads /\ fed' \subseteq Event
<1>1. e.size \in Nat
  BY DEF Event
<1>2. threadBytes' \in [Threads -> Nat]
  BY <1>1 DEF Push, StoreTypeOK
<1>3. events' \in Seq(Event)
  BY AppendProperties DEF Push, StoreTypeOK
<1> QED
  BY <1>1, <1>2, <1>3 DEF Push, StoreTypeOK

LEMMA EvictKeepsTypes ==
  ASSUME StoreAssumption, StoreTypeOK, NEW i \in 1..Len(events), EvictAt(i)
  PROVE  /\ events' \in Seq(Event) /\ bytes' \in Nat
         /\ threadBytes' \in [Threads -> Nat]
         /\ gaps' \in [Threads \cup {NoThread} -> Gap]
<1> DEFINE e == events[i]
<1>1. e \in Event /\ e.size \in Nat /\ e.seq \in 0..MaxEvents
      /\ e.thread \in Threads \cup {NoThread}
  <2>1. e \in Event
    BY DEF StoreTypeOK
  <2> QED
    BY <2>1, EventFields
<1>2. \A a, b \in Nat : Monus(a, b) \in Nat
  BY DEF Monus
<1>3. events' \in Seq(Event)
  BY RemovedIs DEF EvictAt, StoreTypeOK
<1>4. bytes' \in Nat
  BY <1>1, <1>2 DEF EvictAt, StoreTypeOK
<1>5. threadBytes' \in [Threads -> Nat]
  BY <1>1, <1>2 DEF EvictAt, StoreTypeOK
<1>6. ASSUME NEW gap \in Gap
      PROVE  WithGap(gap, e) \in Gap
  <2>1. gap.before \in 0..MaxEvents /\ gap.deltas \in Nat /\ gap.lifecycle \in Nat
    BY DEF Gap
  <2>2. Later(gap.before, e.seq) \in 0..MaxEvents
    BY <1>1, <2>1 DEF Later
  <2> HIDE DEF e
  <2> QED
    BY <2>1, <2>2 DEF WithGap, Gap
<1>7. gaps' \in [Threads \cup {NoThread} -> Gap]
  <2>1. gaps' = [gaps EXCEPT ![e.thread] = WithGap(gaps[e.thread], e)]
    BY DEF EvictAt
  <2> HIDE DEF e
  <2> QED
    BY <1>1, <1>6, <2>1 DEF StoreTypeOK
<1> QED
  BY <1>3, <1>4, <1>5, <1>7

LEMMA AnchorTimes ==
  ASSUME StoreAssumption, StoreTypeOK, NEW now \in Monus(clock, Lag)..MaxTime
  PROVE  now \in 0..MaxTime /\ now + Lag >= clock
<1>1. clock \in 0..MaxTime /\ MaxTime \in Nat /\ Lag \in Nat
  BY DEF StoreAssumption, StoreTypeOK
<1> QED
  BY <1>1 DEF Monus

LEMMA ReadAnchorsAreEvents ==
  ASSUME StoreAssumption, StoreTypeOK, NEW t \in Threads, anchor[t] > 0,
         NEW size \in Nat, NEW now \in 0..MaxTime
  PROVE  [seq |-> anchor[t], thread |-> t, kind |-> "anchor", size |-> size,
          time |-> now] \in Event
<1>1. anchor[t] \in 1..MaxEvents
  <2>1. anchor[t] \in {Done, NotRead} \cup 1..MaxEvents
    BY DEF StoreTypeOK
  <2> QED
    BY <2>1 DEF Done, NotRead
<1>2. "anchor" \in Kind
  BY DEF Kind
<1> QED
  BY <1>1, <1>2 DEF Event

LEMMA ShapesAre ==
  ASSUME StoreAssumption, NEW shape \in Shapes
  PROVE  shape[1] \in Kind /\ shape[2] \in Nat /\ shape[2] > 0
  BY DEF StoreAssumption

LEMMA InitHasTypes ==
  ASSUME StoreAssumption, StoreInit
  PROVE  StoreTypeOK
<1>1. {MaxEvents, MaxTime} \subseteq Nat
  BY DEF StoreAssumption
<1>2. [before |-> 0, deltas |-> 0, lifecycle |-> 0] \in Gap
  BY <1>1 DEF Gap
<1>3. gaps \in [Threads \cup {NoThread} -> Gap]
  BY <1>2 DEF StoreInit
<1>4. events \in Seq(Event) /\ current \in Seq(Event) /\ Len(current) <= 1
  BY DEF StoreInit
<1> QED
  BY <1>1, <1>3, <1>4 DEF StoreInit, StoreTypeOK

LEMMA StepsKeepTypes ==
  ASSUME StoreAssumption, StoreTypeOK, [StoreNext]_storeVars
  PROVE  StoreTypeOK'
<1>0. MaxEvents \in Nat /\ MaxTime \in Nat /\ applied \in 0..MaxEvents
      /\ clock \in 0..MaxTime
  BY DEF StoreAssumption, StoreTypeOK
<1>1. CASE ApplyFrame
  <2>1. PICK thread \in Threads \cup {NoThread}, shape \in Shapes,
             now \in clock..MaxTime :
          /\ current' = <<[seq |-> applied + 1, thread |-> thread,
                           kind |-> shape[1], size |-> shape[2],
                           time |-> now]>>
          /\ clock' = now
    BY <1>1 DEF ApplyFrame
  <2>2. applied + 1 \in 1..MaxEvents /\ applied + 1 \in 0..MaxEvents
    BY <1>0, <1>1 DEF ApplyFrame
  <2>3. shape[1] \in Kind /\ shape[2] \in Nat
    BY ShapesAre
  <2>4. now \in 0..MaxTime
    BY <1>0
  <2>5. [seq |-> applied + 1, thread |-> thread, kind |-> shape[1],
         size |-> shape[2], time |-> now] \in Event
    BY <2>2, <2>3, <2>4 DEF Event
  <2>6. current' \in Seq(Event) /\ Len(current') <= 1
    BY <2>1, <2>5
  <2> QED
    BY <1>1, <2>1, <2>2, <2>4, <2>6 DEF ApplyFrame, StoreTypeOK
<1>2. CASE Record
  <2>1. Head(current) \in Event
    BY <1>2 DEF Record, StoreTypeOK
  <2>2. Push(Head(current)) /\ current' = <<>>
        /\ UNCHANGED <<applied, clock, anchor>>
    BY <1>2 DEF Record
  <2>3. current' \in Seq(Event) /\ Len(current') <= 1
    BY <2>2
  <2>4. /\ events' \in Seq(Event) /\ bytes' \in Nat
        /\ threadBytes' \in [Threads -> Nat]
        /\ gaps' \in [Threads \cup {NoThread} -> Gap]
        /\ writer' = "aging" /\ idle' \subseteq Threads
        /\ fed' \subseteq Event
    BY <2>1, <2>2, PushKeepsTypes
  <2> QED
    BY <2>2, <2>3, <2>4 DEF StoreTypeOK
<1>3. ASSUME NEW t \in Threads, AnchorRead(t) \/ AnchorSkipped(t)
      PROVE  StoreTypeOK'
  <2>1. applied > 0 => applied \in 1..MaxEvents
    BY <1>0
  <2>2. anchor' \in [Threads -> {Done, NotRead} \cup 1..MaxEvents]
    BY <1>3, <2>1 DEF AnchorRead, AnchorSkipped, StoreTypeOK
  <2>3. UNCHANGED <<events, bytes, threadBytes, gaps, writer, idle, applied,
                    current, clock, fed>>
    BY <1>3 DEF AnchorRead, AnchorSkipped, ingressVars
  <2> QED
    BY <2>2, <2>3 DEF StoreTypeOK
<1>4. ASSUME NEW t \in Threads, AnchorRecord(t)
      PROVE  StoreTypeOK'
  <2>1. PICK shape \in Shapes, now \in Monus(clock, Lag)..MaxTime :
          Push([seq |-> anchor[t], thread |-> t, kind |-> "anchor",
                size |-> shape[2], time |-> now])
    BY <1>4 DEF AnchorRecord
  <2>2. [seq |-> anchor[t], thread |-> t, kind |-> "anchor",
         size |-> shape[2], time |-> now] \in Event
    <3>1. shape[2] \in Nat /\ now \in 0..MaxTime
      BY AnchorTimes, ShapesAre
    <3>2. anchor[t] > 0
      BY <1>4 DEF AnchorRecord
    <3> QED
      BY <3>1, <3>2, ReadAnchorsAreEvents
  <2>3. anchor' \in [Threads -> {Done, NotRead} \cup 1..MaxEvents]
        /\ UNCHANGED ingressVars
    BY <1>4 DEF AnchorRecord, StoreTypeOK
  <2> QED
    BY <2>1, <2>2, <2>3, PushKeepsTypes DEF ingressVars, StoreTypeOK
<1>5. CASE AgeOut \/ Evict \/ Sweep
  <2>1. PICK i \in 1..Len(events) : Evicts(i)
    BY <1>5, EvictionsAre
  <2>2. EvictAt(i) /\ UNCHANGED <<writer, idle>>
    BY <2>1 DEF Evicts
  <2>3. UNCHANGED <<ingressVars, anchor, fed>>
    BY <2>2 DEF EvictAt
  <2> QED
    BY <2>2, <2>3, EvictKeepsTypes DEF StoreTypeOK, ingressVars
<1>6. CASE AgedOut \/ Unlock \/ SweepEnds
  BY <1>6 DEF AgedOut, Unlock, SweepEnds, ingressVars, StoreTypeOK
<1>7. ASSUME NEW threads \in SUBSET Threads, SweepBegins(threads)
      PROVE  StoreTypeOK'
  BY <1>7 DEF SweepBegins, ingressVars, StoreTypeOK
<1>8. CASE UNCHANGED storeVars
  BY <1>8 DEF storeVars, ingressVars, StoreTypeOK
<1> QED
  BY <1>1, <1>2, <1>3, <1>4, <1>5, <1>6, <1>7, <1>8 DEF StoreNext

\* Every variable keeps its type; remove_at is always called with the position
\* of an event, and no gap names a sequence that was never given.
THEOREM StoreTypesCorrect == StoreSpec => []StoreTypeOK
<1>1. StoreInit => StoreTypeOK
  BY StoreAssumption, InitHasTypes
<1>2. StoreTypeOK /\ [StoreNext]_storeVars => StoreTypeOK'
  BY StoreAssumption, StepsKeepTypes
<1> QED
  BY <1>1, <1>2, PTL DEF StoreSpec

-----------------------------------------------------------------------------
(* What is recorded is recorded once, in any order.                        *)

FedInv ==
  /\ IsFiniteSet(fed)
  /\ \A e \in fed :
       IF e.kind = "anchor"
       THEN e.thread \in Threads /\ anchor[e.thread] = Done
       ELSE /\ e.seq <= applied /\ (current # <<>> => e.seq < applied)
            /\ e.time <= clock

\* The event between the reducer and the store is the last one applied.
CurrentInv ==
  current # <<>> => /\ current[1].seq = applied /\ current[1].time = clock
                    /\ current[1].kind # "anchor"

RetainedInv ==
  /\ \A i \in 1..Len(events) : events[i] \in fed
  /\ \A i, j \in 1..Len(events) : i # j => events[i] # events[j]

RecordInv == StoreTypeOK /\ FedInv /\ CurrentInv /\ RetainedInv

\* The steps that change neither what is recorded nor what is retained.
Rests ==
  /\ UNCHANGED <<events, bytes, threadBytes, gaps, fed, ingressVars>>
  /\ writer = "aging" => writer' = "aging" \/ ~FrontTooOld
  /\ \A t \in Threads : anchor[t] = Done => anchor'[t] = Done

LEMMA StepsAre ==
  ASSUME StoreTypeOK, [StoreNext]_storeVars
  PROVE  \/ ApplyFrame \/ Record \/ \E t \in Threads : AnchorRecord(t)
         \/ \E i \in 1..Len(events) : Evicts(i)
         \/ Rests
<1>1. CASE AgeOut \/ Evict \/ Sweep
  BY <1>1, EvictionsAre
<1>2. ASSUME NEW t \in Threads, AnchorRead(t) \/ AnchorSkipped(t)
      PROVE  Rests
  <2>1. \A u \in Threads : anchor[u] = Done => anchor'[u] = Done
    BY <1>2 DEF AnchorRead, AnchorSkipped, Done, NotRead, StoreTypeOK
  <2> QED
    BY <1>2, <2>1 DEF AnchorRead, AnchorSkipped, Rests, ingressVars
<1>3. CASE AgedOut \/ Unlock \/ SweepEnds
  BY <1>3 DEF AgedOut, Unlock, SweepEnds, Rests, ingressVars
<1>4. ASSUME NEW threads \in SUBSET Threads, SweepBegins(threads)
      PROVE  Rests
  BY <1>4 DEF SweepBegins, Rests, ingressVars
<1>5. CASE UNCHANGED storeVars
  BY <1>5 DEF storeVars, Rests, ingressVars
<1> QED
  BY <1>1, <1>2, <1>3, <1>4, <1>5 DEF StoreNext

\* The event a step pushes has not been recorded before.
Pushed(e) ==
  /\ Push(e)
  /\ e \in Event
  /\ e \notin fed
  /\ writer = "free"
  /\ UNCHANGED <<applied, clock>>
  /\ ReceiptTime(e) >= clock
  /\ IF e.kind = "anchor"
     THEN /\ e.thread \in Threads
          /\ ~StartRetained(e.thread)
          /\ anchor' = [anchor EXCEPT ![e.thread] = Done]
          /\ UNCHANGED current
     ELSE /\ e.seq = applied /\ e.time = clock
          /\ current # <<>> /\ current' = <<>>
          /\ UNCHANGED anchor

LEMMA PushesAre ==
  ASSUME StoreAssumption, RecordInv,
         Record \/ \E t \in Threads : AnchorRecord(t)
  PROVE  \E e : Pushed(e)
<1>1. CASE Record
  <2> DEFINE e == Head(current)
  <2>1. current # <<>> /\ current \in Seq(Event)
    BY <1>1 DEF Record, RecordInv, StoreTypeOK
  <2>2. e \in Event /\ e = current[1]
    BY <2>1
  <2>3. /\ e.seq = applied /\ e.kind # "anchor" /\ e.time = clock
        /\ ReceiptTime(e) = clock
    BY <2>1, <2>2 DEF RecordInv, CurrentInv, ReceiptTime
  <2>4. applied \in Int /\ clock \in Int
    BY StoreAssumption DEF StoreAssumption, RecordInv, StoreTypeOK
  <2>5. e \notin fed
    <3> HIDE DEF e
    <3> QED
      BY <2>1, <2>3, <2>4 DEF RecordInv, FedInv
  <2>6. Push(e) /\ current' = <<>> /\ UNCHANGED <<applied, clock, anchor>>
        /\ writer = "free"
    BY <1>1 DEF Record
  <2> HIDE DEF e
  <2>7. Pushed(e)
    BY <2>1, <2>2, <2>3, <2>4, <2>5, <2>6 DEF Pushed
  <2> QED
    BY <2>7
<1>2. ASSUME NEW t \in Threads, AnchorRecord(t)
      PROVE  \E e : Pushed(e)
  <2>1. PICK shape \in Shapes, now \in Monus(clock, Lag)..MaxTime :
          Push([seq |-> anchor[t], thread |-> t, kind |-> "anchor",
                size |-> shape[2], time |-> now])
    BY <1>2 DEF AnchorRecord
  <2> DEFINE e == [seq |-> anchor[t], thread |-> t, kind |-> "anchor",
                   size |-> shape[2], time |-> now]
  <2>2. anchor[t] > 0 /\ ~StartRetained(t)
        /\ anchor' = [anchor EXCEPT ![t] = Done] /\ writer = "free"
        /\ UNCHANGED <<applied, current, clock>>
    BY <1>2 DEF AnchorRecord, ingressVars
  <2>3. e \in Event
    <3>1. shape[2] \in Nat
      BY ShapesAre
    <3>2. now \in 0..MaxTime /\ StoreTypeOK
      BY AnchorTimes DEF RecordInv
    <3> QED
      BY <2>2, <3>1, <3>2, ReadAnchorsAreEvents
  <2>4. e.kind = "anchor" /\ e.thread = t /\ ReceiptTime(e) >= clock
    <3>1. e.kind = "anchor" /\ e.thread = t /\ e.time = now
      OBVIOUS
    <3>2. now + Lag >= clock
      BY AnchorTimes DEF RecordInv
    <3> HIDE DEF e
    <3> QED
      BY <3>1, <3>2 DEF ReceiptTime
  <2>5. Push(e)
    BY <2>1
  <2> HIDE DEF e
  <2>6. e \notin fed
    BY <2>2, <2>4 DEF RecordInv, FedInv, Done
  <2>7. Pushed(e)
    BY <2>2, <2>3, <2>4, <2>5, <2>6 DEF Pushed
  <2> QED
    BY <2>7
<1> QED
  BY <1>1, <1>2

\* An eviction takes one event out and leaves the others in their order.
LEMMA EvictLeaves ==
  ASSUME StoreTypeOK, NEW i \in 1..Len(events), EvictAt(i)
  PROVE  /\ Len(events) \in Nat
         /\ Len(events') = Len(events) - 1
         /\ \A j \in 1..Len(events') :
              /\ j < i => j \in 1..Len(events) /\ events'[j] = events[j]
              /\ j >= i => j + 1 \in 1..Len(events) /\ events'[j] = events[j + 1]
<1>1. events \in Seq(Event) /\ Len(events) \in Nat
  BY DEF StoreTypeOK
<1>2. events' = RemoveAt(events, i)
  BY DEF EvictAt
<1>3. /\ Len(events') = Len(events) - 1
      /\ \A j \in 1..Len(events) - 1 :
           events'[j] = events[IF j < i THEN j ELSE j + 1]
  BY <1>1, <1>2, RemovedIs
<1>4. ASSUME NEW j \in 1..Len(events')
      PROVE  /\ j < i => j \in 1..Len(events) /\ events'[j] = events[j]
             /\ j >= i => j + 1 \in 1..Len(events) /\ events'[j] = events[j + 1]
  <2>1. j \in 1..Len(events) - 1 /\ j \in 1..Len(events)
        /\ j + 1 \in 1..Len(events) /\ (j >= i => ~(j < i))
    BY <1>1, <1>3
  <2> QED
    BY <1>3, <2>1
<1> QED
  BY <1>1, <1>3, <1>4

LEMMA EvictRetains ==
  ASSUME StoreTypeOK, RetainedInv, NEW i \in 1..Len(events), EvictAt(i)
  PROVE  RetainedInv' /\ Retained' = Retained \ {events[i]}
<1>1. Len(events) \in Nat /\ Len(events') = Len(events) - 1
      /\ \A j \in 1..Len(events') :
           /\ j < i => j \in 1..Len(events) /\ events'[j] = events[j]
           /\ j >= i => j + 1 \in 1..Len(events) /\ events'[j] = events[j + 1]
  BY EvictLeaves
<1>2. ASSUME NEW j \in 1..Len(events')
      PROVE  \E k \in 1..Len(events) :
               /\ events'[j] = events[k] /\ k # i
               /\ k = IF j < i THEN j ELSE j + 1
  <2>1. j < i \/ j >= i
    BY <1>1
  <2>2. CASE j < i
    BY <1>1, <2>2
  <2>3. CASE j >= i
    BY <1>1, <2>3
  <2> QED
    BY <2>1, <2>2, <2>3
<1>3. fed' = fed
  BY DEF EvictAt
<1>4. RetainedInv'
  <2>1. \A j \in 1..Len(events') : events'[j] \in fed'
    BY <1>2, <1>3 DEF RetainedInv
  <2>2. ASSUME NEW j \in 1..Len(events'), NEW l \in 1..Len(events'), j # l
        PROVE  events'[j] # events'[l]
    <3>1. PICK k \in 1..Len(events) : events'[j] = events[k]
                                      /\ k = IF j < i THEN j ELSE j + 1
      BY <1>2
    <3>2. PICK m \in 1..Len(events) : events'[l] = events[m]
                                      /\ m = IF l < i THEN l ELSE l + 1
      BY <1>2
    <3>3. k # m
      BY <1>1, <2>2, <3>1, <3>2
    <3> QED
      BY <3>1, <3>2, <3>3 DEF RetainedInv
  <2> QED
    BY <2>1, <2>2 DEF RetainedInv
<1>5. ASSUME NEW k \in 1..Len(events), k # i
      PROVE  \E j \in 1..Len(events') : events'[j] = events[k]
  <2>1. CASE k < i
    <3>1. k \in 1..Len(events')
      BY <1>1, <2>1
    <3> QED
      BY <1>1, <2>1, <3>1
  <2>2. CASE k > i
    <3>1. k - 1 \in 1..Len(events') /\ k - 1 >= i /\ (k - 1) + 1 = k
      BY <1>1, <2>2
    <3> QED
      BY <1>1, <3>1
  <2>3. k < i \/ k > i
    BY <1>1, <1>5
  <2> QED
    BY <2>1, <2>2, <2>3
<1>6. Retained = {events[k] : k \in 1..Len(events)}
      /\ Retained' = {events'[k] : k \in 1..Len(events')}
  <2>1. DOMAIN events = 1..Len(events)
    BY DEF StoreTypeOK
  <2>2. events' \in Seq(Event)
    BY RemovedIs DEF EvictAt, StoreTypeOK
  <2>3. DOMAIN events' = 1..Len(events')
    BY <2>2
  <2> QED
    BY <2>1, <2>3 DEF Retained, ToSet
<1>7. Retained' = Retained \ {events[i]}
  <2>1. \A k \in 1..Len(events) : k # i => events[k] # events[i]
    BY DEF RetainedInv
  <2>2. \A x : x \in Retained' => x \in Retained \ {events[i]}
    BY <1>2, <1>6, <2>1
  <2>3. \A x : x \in Retained \ {events[i]} => x \in Retained'
    BY <1>5, <1>6
  <2> QED
    BY <2>2, <2>3
<1> QED
  BY <1>4, <1>7

LEMMA PushRetains ==
  ASSUME StoreTypeOK, RetainedInv, NEW e, Pushed(e)
  PROVE  /\ RetainedInv' /\ Retained' = Retained \cup {e}
         /\ Len(events') = Len(events) + 1 /\ events'[Len(events) + 1] = e
         /\ \A j \in 1..Len(events) : events'[j] = events[j]
<1>1. events \in Seq(Event) /\ Len(events) \in Nat /\ e \in Event
      /\ e \notin fed /\ events' = Append(events, e) /\ fed' = fed \cup {e}
  BY DEF StoreTypeOK, Pushed, Push
<1>2. /\ events' \in Seq(Event)
      /\ Len(events') = Len(events) + 1 /\ events'[Len(events) + 1] = e
      /\ \A j \in 1..Len(events) : events'[j] = events[j]
  BY <1>1, AppendProperties
<1>3. \A j \in 1..Len(events') : j \in 1..Len(events) \/ j = Len(events) + 1
  BY <1>1, <1>2
<1>4. \A j \in 1..Len(events) : events[j] \in fed /\ events[j] # e
  BY <1>1 DEF RetainedInv
<1>5. \A j \in 1..Len(events') : events'[j] \in fed'
  BY <1>1, <1>2, <1>3, <1>4
<1>6. ASSUME NEW j \in 1..Len(events'), NEW l \in 1..Len(events'), j # l
      PROVE  events'[j] # events'[l]
  <2>1. CASE j \in 1..Len(events) /\ l \in 1..Len(events)
    BY <1>2, <1>6, <2>1 DEF RetainedInv
  <2>2. CASE j \in 1..Len(events) /\ l = Len(events) + 1
    BY <1>2, <1>4, <2>2
  <2>3. CASE j = Len(events) + 1 /\ l \in 1..Len(events)
    BY <1>2, <1>4, <2>3
  <2> QED
    BY <1>3, <1>6, <2>1, <2>2, <2>3
<1>7. Retained' = Retained \cup {e}
  <2>1. /\ Retained = {events[k] : k \in 1..Len(events)}
        /\ Retained' = {events'[k] : k \in 1..Len(events')}
    BY <1>1, <1>2 DEF Retained, ToSet
  <2>2. Len(events) + 1 \in 1..Len(events')
        /\ \A k \in 1..Len(events) : k \in 1..Len(events')
    BY <1>1, <1>2
  <2>3. \A x : x \in Retained' => x \in Retained \cup {e}
    BY <1>2, <1>3, <2>1
  <2>4. \A x : x \in Retained \cup {e} => x \in Retained'
    BY <1>2, <2>1, <2>2
  <2> QED
    BY <2>3, <2>4
<1> QED
  BY <1>2, <1>5, <1>6, <1>7 DEF RetainedInv

LEMMA StepsKeepRecordInv ==
  ASSUME StoreAssumption, RecordInv, [StoreNext]_storeVars
  PROVE  RecordInv'
<1>1. StoreTypeOK /\ StoreTypeOK' /\ applied \in Int /\ clock \in Int
  <2>1. StoreTypeOK
    BY DEF RecordInv
  <2>2. MaxEvents \in Nat /\ applied \in 0..MaxEvents
        /\ MaxTime \in Nat /\ clock \in 0..MaxTime
    BY <2>1 DEF StoreAssumption, StoreTypeOK
  <2> QED
    BY <2>1, <2>2, StepsKeepTypes
<1> SUFFICES FedInv' /\ CurrentInv' /\ RetainedInv'
  BY <1>1 DEF RecordInv
<1>2. CASE ApplyFrame
  <2>1. PICK e : /\ current' = <<e>> /\ e.seq = applied + 1
                 /\ e.kind # "anchor" /\ e.time = clock' /\ clock' \in clock..MaxTime
    BY <1>2 DEF ApplyFrame
  <2>2. /\ current = <<>> /\ applied' = applied + 1
        /\ UNCHANGED <<events, anchor, fed>>
    BY <1>2 DEF ApplyFrame
  <2>3. CurrentInv'
    BY <2>1, <2>2 DEF CurrentInv
  <2>4. \A f \in fed : f.seq \in Int /\ f.time \in Int
    BY <1>1, EventFields DEF StoreTypeOK
  <2>5. clock' \in Int /\ clock <= clock'
    BY <1>1, <2>1
  <2>6. FedInv'
    BY <1>1, <2>2, <2>4, <2>5 DEF RecordInv, FedInv
  <2> QED
    BY <2>2, <2>3, <2>6 DEF RecordInv, RetainedInv
<1>3. CASE Record \/ \E t \in Threads : AnchorRecord(t)
  <2>1. PICK e : Pushed(e)
    BY <1>3, PushesAre
  <2>2. RetainedInv'
    BY <1>1, <2>1, PushRetains DEF RecordInv
  <2>3. fed' = fed \cup {e} /\ applied' = applied /\ clock' = clock
        /\ IsFiniteSet(fed')
    BY <2>1, FS_AddElement DEF Pushed, Push, RecordInv, FedInv
  <2>4. CASE e.kind = "anchor"
    <3>1. /\ e.thread \in Threads /\ current' = current
          /\ anchor' = [anchor EXCEPT ![e.thread] = Done]
      BY <2>1, <2>4 DEF Pushed
    <3>2. \A t \in Threads :
            /\ anchor[t] = Done => anchor'[t] = Done
            /\ anchor'[e.thread] = Done
      BY <1>1, <3>1 DEF StoreTypeOK
    <3>3. FedInv'
      BY <2>3, <2>4, <3>1, <3>2 DEF RecordInv, FedInv
    <3>4. CurrentInv'
      BY <2>3, <3>1 DEF RecordInv, CurrentInv
    <3> QED
      BY <2>2, <3>3, <3>4
  <2>5. CASE e.kind # "anchor"
    <3>1. e.seq = applied /\ e.time = clock /\ current' = <<>>
          /\ anchor' = anchor
      BY <2>1, <2>5 DEF Pushed
    <3>2. FedInv'
      BY <1>1, <2>3, <2>5, <3>1 DEF RecordInv, FedInv
    <3> QED
      BY <2>2, <3>1, <3>2 DEF CurrentInv
  <2> QED
    BY <2>4, <2>5
<1>4. ASSUME NEW i \in 1..Len(events), Evicts(i)
      PROVE  FedInv' /\ CurrentInv' /\ RetainedInv'
  <2>1. EvictAt(i)
    BY <1>4 DEF Evicts
  <2>2. UNCHANGED <<ingressVars, anchor, fed>>
    BY <2>1 DEF EvictAt
  <2>3. RetainedInv'
    BY <1>1, <2>1, EvictRetains DEF RecordInv
  <2> QED
    BY <2>2, <2>3 DEF RecordInv, FedInv, CurrentInv, ingressVars
<1>5. CASE Rests
  BY <1>5 DEF Rests, ingressVars, RecordInv, FedInv, CurrentInv, RetainedInv
<1> QED
  BY <1>1, <1>2, <1>3, <1>4, <1>5, StepsAre

LEMMA RecordedOnce == StoreSpec => []RecordInv
<1>1. StoreInit => RecordInv
  <2>1. ASSUME StoreInit
        PROVE  RecordInv
    <3>1. StoreTypeOK /\ IsFiniteSet({}) /\ Len(events) = 0
      BY <2>1, StoreAssumption, InitHasTypes, FS_EmptySet DEF StoreInit
    <3>2. FedInv /\ CurrentInv
      BY <2>1, <3>1 DEF StoreInit, FedInv, CurrentInv
    <3>3. RetainedInv
      BY <3>1 DEF RetainedInv
    <3> QED
      BY <3>1, <3>2, <3>3 DEF RecordInv
  <2> QED
    BY <2>1
<1>2. RecordInv /\ [StoreNext]_storeVars => RecordInv'
  BY StoreAssumption, StepsKeepRecordInv
<1> QED
  BY <1>1, <1>2, PTL DEF StoreSpec

-----------------------------------------------------------------------------
(* No anchor follows the start it stands for.                              *)

\* When the anchor of a turn is pushed under the lock no start of its thread is
\* retained, and neither pruning nor sweeping changes the order of what stays
\* (record_reconstructed_active_turn, remove_at).
THEOREM AnchorsComeFirst == StoreSpec => []NoAnchorAfterStart
<1>1. StoreInit => NoAnchorAfterStart
  BY DEF StoreInit, NoAnchorAfterStart
<1>2. ASSUME RecordInv, NoAnchorAfterStart, [StoreNext]_storeVars
      PROVE  NoAnchorAfterStart'
  <2>1. StoreTypeOK /\ RetainedInv
    BY <1>2 DEF RecordInv
  <2>2. CASE Record \/ \E t \in Threads : AnchorRecord(t)
    <3>1. PICK e : Pushed(e)
      BY <1>2, <2>2, StoreAssumption, PushesAre
    <3>2. /\ Len(events') = Len(events) + 1 /\ events'[Len(events) + 1] = e
          /\ \A j \in 1..Len(events) : events'[j] = events[j]
      BY <2>1, <3>1, PushRetains
    <3>3. Len(events) \in Nat
      BY <2>1 DEF StoreTypeOK
    <3>4. ASSUME NEW i \in 1..Len(events'), NEW j \in 1..Len(events'), i < j,
                 events'[i].kind = "started", events'[j].kind = "anchor"
          PROVE  events'[i].thread # events'[j].thread
      <4>1. i \in 1..Len(events) /\ events'[i] = events[i]
        BY <3>2, <3>3, <3>4
      <4>2. CASE j \in 1..Len(events)
        BY <1>2, <3>2, <3>4, <4>1, <4>2 DEF NoAnchorAfterStart
      <4>3. CASE j = Len(events) + 1
        <5>1. e.kind = "anchor" /\ ~StartRetained(e.thread) /\ events'[j] = e
          BY <3>1, <3>2, <3>4, <4>3 DEF Pushed
        <5> QED
          BY <3>4, <4>1, <5>1 DEF StartRetained
      <4> QED
        BY <3>2, <3>3, <4>2, <4>3
    <3> QED
      BY <3>4 DEF NoAnchorAfterStart
  <2>3. ASSUME NEW k \in 1..Len(events), Evicts(k)
        PROVE  NoAnchorAfterStart'
    <3>1. /\ Len(events) \in Nat /\ Len(events') = Len(events) - 1
          /\ \A j \in 1..Len(events') :
              /\ j < k => j \in 1..Len(events) /\ events'[j] = events[j]
              /\ j >= k => j + 1 \in 1..Len(events) /\ events'[j] = events[j + 1]
      BY <2>1, <2>3, EvictLeaves DEF Evicts
    <3>2. ASSUME NEW i \in 1..Len(events'), NEW j \in 1..Len(events'), i < j
          PROVE  \E m, n \in 1..Len(events) :
                   m < n /\ events'[i] = events[m] /\ events'[j] = events[n]
      <4>1. j < k \/ (i < k /\ j >= k) \/ i >= k
        BY <3>1
      <4>2. CASE j < k
        BY <3>1, <3>2, <4>2
      <4>3. CASE i < k /\ j >= k
        BY <3>1, <3>2, <4>3
      <4>4. CASE i >= k
        BY <3>1, <3>2, <4>4
      <4> QED
        BY <4>1, <4>2, <4>3, <4>4
    <3>3. ASSUME NEW i \in 1..Len(events'), NEW j \in 1..Len(events'), i < j,
                 events'[i].kind = "started", events'[j].kind = "anchor"
          PROVE  events'[i].thread # events'[j].thread
      <4>1. PICK m, n \in 1..Len(events) :
              m < n /\ events'[i] = events[m] /\ events'[j] = events[n]
        BY <3>2, <3>3
      <4> QED
        BY <1>2, <3>3, <4>1 DEF NoAnchorAfterStart
    <3> QED
      BY <3>3 DEF NoAnchorAfterStart
  <2>4. CASE ApplyFrame \/ Rests
    BY <1>2, <2>4 DEF ApplyFrame, Rests, NoAnchorAfterStart
  <2> QED
    BY <1>2, <2>1, <2>2, <2>3, <2>4, StepsAre
<1>3. RecordInv /\ NoAnchorAfterStart /\ [StoreNext]_storeVars => NoAnchorAfterStart'
  BY <1>2
<1> QED
  BY <1>1, <1>3, RecordedOnce, PTL DEF StoreSpec

-----------------------------------------------------------------------------
(* What is retained stays in the order in which it was recorded.           *)

\* Frames are recorded in the order of their sequences and times.  An anchor
\* is out of sequence, but not older than the frames recorded before it, or by
\* no more than its clock lags.
InOrder(d, e) ==
  d.kind # "anchor" => /\ d.time <= ReceiptTime(e)
                       /\ e.kind # "anchor" => d.seq < e.seq

OrderInv ==
  \A i, j \in 1..Len(events) : i < j => InOrder(events[i], events[j])

Shielded(e) ==
  \E a \in fed : a.kind = "anchor" /\ a # e /\ a.time + Retention >= e.time

\* An event too old for a later one has been removed when that was recorded,
\* unless an anchor in the window ended the loop.
WindowInv ==
  \A i, j \in 1..Len(events) :
    i < j /\ ReceiptTime(events[i]) + Retention < events[j].time =>
      Shielded(events[j]) \/ (writer = "aging" /\ j = Len(events))

\* Positions after a step are positions before it, in the same order, and the
\* last one was the last.
Moves(p) ==
  \A j \in 1..Len(events') :
    /\ p[j] \in 1..Len(events)
    /\ events'[j] = events[p[j]]
    /\ p[j] = Len(events) => j = Len(events')
    /\ \A i \in 1..Len(events') : i < j => p[i] < p[j]

LEMMA EvictMoves ==
  ASSUME StoreTypeOK, NEW i \in 1..Len(events), EvictAt(i)
  PROVE  \E p : Moves(p)
<1> DEFINE p == [j \in 1..Len(events') |-> IF j < i THEN j ELSE j + 1]
<1>1. /\ Len(events) \in Nat /\ Len(events') = Len(events) - 1
      /\ \A j \in 1..Len(events') :
           /\ j < i => j \in 1..Len(events) /\ events'[j] = events[j]
           /\ j >= i => j + 1 \in 1..Len(events) /\ events'[j] = events[j + 1]
  BY EvictLeaves
<1>2. \A j \in 1..Len(events') : p[j] = IF j < i THEN j ELSE j + 1
  OBVIOUS
<1> HIDE DEF p
<1>3. ASSUME NEW j \in 1..Len(events')
      PROVE  p[j] \in 1..Len(events) /\ events'[j] = events[p[j]]
  <2>1. CASE j < i
    BY <1>1, <1>2, <2>1
  <2>2. CASE j >= i
    <3>1. p[j] = j + 1
      BY <1>1, <1>2, <2>2
    <3> QED
      BY <1>1, <2>2, <3>1
  <2> QED
    BY <1>1, <2>1, <2>2
<1>4. ASSUME NEW j \in 1..Len(events')
      PROVE  /\ p[j] = Len(events) => j = Len(events')
             /\ \A k \in 1..Len(events') : k < j => p[k] < p[j]
  BY <1>1, <1>2
<1>5. Moves(p)
  BY <1>3, <1>4 DEF Moves
<1> QED
  BY <1>5

LEMMA StayingMoves ==
  ASSUME StoreTypeOK, UNCHANGED events
  PROVE  \E p : Moves(p)
<1> DEFINE p == [j \in 1..Len(events) |-> j]
<1>1. Len(events) \in Nat
  BY DEF StoreTypeOK
<1>2. \A j \in 1..Len(events) : p[j] = j
  OBVIOUS
<1> HIDE DEF p
<1>3. Moves(p)
  BY <1>1, <1>2 DEF Moves
<1> QED
  BY <1>3

\* A step records a new event, or moves those that stay.
LEMMA StepsMove ==
  ASSUME StoreAssumption, RecordInv, [StoreNext]_storeVars
  PROVE  \/ \E e : Pushed(e)
         \/ /\ \E p : Moves(p)
            /\ fed' = fed
            /\ writer = "aging" => writer' = "aging" \/ ~FrontTooOld
<1>1. StoreTypeOK
  BY DEF RecordInv
<1>2. CASE ApplyFrame
  BY <1>1, <1>2, StayingMoves DEF ApplyFrame
<1>3. CASE Record \/ \E t \in Threads : AnchorRecord(t)
  BY <1>3, PushesAre
<1>4. ASSUME NEW i \in 1..Len(events), Evicts(i)
      PROVE  /\ \E p : Moves(p)
             /\ fed' = fed /\ writer' = writer
  BY <1>1, <1>4, EvictMoves DEF Evicts, EvictAt
<1>5. CASE Rests
  BY <1>1, <1>5, StayingMoves DEF Rests
<1> QED
  BY <1>1, <1>2, <1>3, <1>4, <1>5, StepsAre

\* What is recorded comes after all that is retained.
LEMMA PushedIsLast ==
  ASSUME StoreAssumption, RecordInv, NEW e, Pushed(e), NEW i \in 1..Len(events)
  PROVE  InOrder(events[i], e)
<1>1. StoreTypeOK /\ events[i] \in fed /\ events[i] \in Event /\ e \in Event
  BY DEF RecordInv, RetainedInv, StoreTypeOK, Pushed
<1>2. clock \in Int /\ events[i].time \in Int /\ ReceiptTime(e) \in Int
      /\ ReceiptTime(e) >= clock
  <2>1. MaxTime \in Nat /\ clock \in 0..MaxTime
    BY <1>1 DEF StoreAssumption, StoreTypeOK
  <2>2. events[i].time \in 0..MaxTime /\ e.time \in 0..MaxTime
    BY <1>1, EventFields
  <2>3. ReceiptTime(e) \in Int
    BY <2>1, <2>2 DEF ReceiptTime, StoreAssumption
  <2> QED
    BY <2>1, <2>2, <2>3 DEF Pushed
<1>3. CASE events[i].kind # "anchor"
  <2>1. events[i].time <= clock
    BY <1>1, <1>3 DEF RecordInv, FedInv
  <2>2. e.kind # "anchor" => events[i].seq < e.seq
    BY <1>1, <1>3 DEF RecordInv, FedInv, Pushed
  <2> QED
    BY <1>2, <2>1, <2>2 DEF InOrder
<1> QED
  BY <1>3 DEF InOrder

LEMMA StepsKeepOrder ==
  ASSUME StoreAssumption, RecordInv, OrderInv, [StoreNext]_storeVars
  PROVE  OrderInv'
<1>1. StoreTypeOK /\ RetainedInv /\ Len(events) \in Nat
  BY DEF RecordInv, StoreTypeOK
<1>2. ASSUME NEW e, Pushed(e)
      PROVE  OrderInv'
  <2>1. /\ Len(events') = Len(events) + 1 /\ events'[Len(events) + 1] = e
        /\ \A j \in 1..Len(events) : events'[j] = events[j]
    BY <1>1, <1>2, PushRetains
  <2>2. ASSUME NEW i \in 1..Len(events'), NEW j \in 1..Len(events'), i < j
        PROVE  InOrder(events'[i], events'[j])
    <3>1. i \in 1..Len(events) /\ events'[i] = events[i]
      BY <1>1, <2>1, <2>2
    <3>2. CASE j \in 1..Len(events)
      <4>1. events'[j] = events[j] /\ InOrder(events[i], events[j])
        BY <2>1, <2>2, <3>1, <3>2 DEF OrderInv
      <4> QED
        BY <3>1, <4>1
    <3>3. CASE j \notin 1..Len(events)
      <4>1. events'[j] = e
        BY <1>1, <2>1, <2>2, <3>3
      <4> QED
        BY <1>2, <3>1, <4>1, PushedIsLast
    <3> QED
      BY <3>2, <3>3
  <2> QED
    BY <2>2 DEF OrderInv, InOrder, ReceiptTime
<1>3. ASSUME NEW p, Moves(p)
      PROVE  OrderInv'
  <2>1. ASSUME NEW i \in 1..Len(events'), NEW j \in 1..Len(events'), i < j
        PROVE  InOrder(events'[i], events'[j])
    <3>1. /\ p[i] \in 1..Len(events) /\ p[j] \in 1..Len(events) /\ p[i] < p[j]
          /\ events'[i] = events[p[i]] /\ events'[j] = events[p[j]]
      BY <1>3, <2>1 DEF Moves
    <3> QED
      BY <3>1 DEF OrderInv
  <2> QED
    BY <2>1 DEF OrderInv, InOrder, ReceiptTime
<1> QED
  BY <1>2, <1>3, StepsMove

\* Aging ends on an event in the window.  If that is not one of the anchors
\* that shield, nothing behind it is too old either, for it is a frame.
LEMMA FrontShields ==
  ASSUME StoreAssumption, RecordInv, OrderInv, ~FrontTooOld,
         NEW i \in 1..Len(events), i < Len(events),
         ReceiptTime(events[i]) + Retention < events[Len(events)].time
  PROVE  Shielded(events[Len(events)])
<1> DEFINE n == Len(events)
<1>1. StoreTypeOK /\ events \in Seq(Event) /\ n \in Nat
  BY DEF RecordInv, StoreTypeOK
<1>2. n > 1 /\ 1 \in 1..n /\ n \in 1..n
  BY <1>1
<1>3. /\ events[1] \in Event /\ events[i] \in Event /\ events[n] \in Event
      /\ events # <<>> /\ Head(events) = events[1] /\ Last(events) = events[n]
  BY <1>1, <1>2 DEF Last
<1>4. \A e \in Event : e.time \in Nat
  <2>1. MaxTime \in Nat
    BY DEF StoreAssumption
  <2> QED
    BY <2>1, EventFields
<1>5. Retention \in Nat /\ Lag \in Nat
  BY DEF StoreAssumption
<1>6. events[1].time >= Monus(events[n].time, Retention)
  BY <1>3, <1>4, <1>5 DEF FrontTooOld, Monus
<1>7. events[1].time + Retention >= events[n].time
  BY <1>3, <1>4, <1>5, <1>6 DEF Monus
<1>8. ReceiptTime(events[i]) < events[1].time /\ events[i].time < events[1].time
  <2>1. /\ events[1].time \in Nat /\ events[i].time \in Nat
        /\ events[n].time \in Nat
    BY <1>3, <1>4
  <2>2. ReceiptTime(events[i]) \in Nat /\ ReceiptTime(events[i]) >= events[i].time
    BY <1>5, <2>1 DEF ReceiptTime
  <2>3. \A k, l, m, r \in Nat : k + r < m /\ l + r >= m => k < l
    OBVIOUS
  <2>4. ReceiptTime(events[i]) < events[1].time
    BY <1>5, <1>7, <2>1, <2>2, <2>3
  <2> QED
    BY <2>1, <2>2, <2>4
<1>9. i # 1 /\ 1 < i
  BY <1>3, <1>4, <1>8
<1>10. events[1].kind = "anchor"
  <2>1. InOrder(events[1], events[i])
    BY <1>2, <1>9 DEF OrderInv
  <2>2. ReceiptTime(events[i]) \in Nat
    BY <1>3, <1>4, <1>5 DEF ReceiptTime
  <2> QED
    BY <1>3, <1>4, <1>8, <2>1, <2>2 DEF InOrder
<1>11. events[1] \in fed /\ events[1] # events[n]
  BY <1>2 DEF RecordInv, RetainedInv
<1> QED
  BY <1>7, <1>10, <1>11 DEF Shielded

LEMMA StepsKeepWindow ==
  ASSUME StoreAssumption, RecordInv, OrderInv, WindowInv, [StoreNext]_storeVars
  PROVE  WindowInv'
<1>1. StoreTypeOK /\ RetainedInv /\ Len(events) \in Nat
  BY DEF RecordInv, StoreTypeOK
<1> SUFFICES ASSUME NEW i \in 1..Len(events'), NEW j \in 1..Len(events'), i < j,
                    ReceiptTime(events'[i]) + Retention < events'[j].time
             PROVE  \/ \E a \in fed' : /\ a.kind = "anchor" /\ a # events'[j]
                                       /\ a.time + Retention >= events'[j].time
                    \/ writer' = "aging" /\ j = Len(events')
  BY DEF WindowInv, Shielded, ReceiptTime
<1>2. ASSUME NEW e, Pushed(e)
      PROVE  \/ \E a \in fed' : /\ a.kind = "anchor" /\ a # events'[j]
                                /\ a.time + Retention >= events'[j].time
             \/ writer' = "aging" /\ j = Len(events')
  <2>1. /\ Len(events') = Len(events) + 1 /\ fed' = fed \cup {e}
        /\ \A k \in 1..Len(events) : events'[k] = events[k]
        /\ writer = "free" /\ writer' = "aging"
    BY <1>1, <1>2, PushRetains DEF Pushed, Push
  <2>2. CASE j = Len(events')
    BY <2>1, <2>2
  <2>3. CASE j # Len(events')
    <3>1. i \in 1..Len(events) /\ j \in 1..Len(events)
      BY <1>1, <2>1, <2>3
    <3>2. events'[i] = events[i] /\ events'[j] = events[j]
      BY <2>1, <3>1
    <3>3. Shielded(events[j])
      BY <2>1, <3>1, <3>2 DEF WindowInv
    <3> QED
      BY <2>1, <3>2, <3>3 DEF Shielded
  <2> QED
    BY <2>2, <2>3
<1>3. ASSUME NEW p, Moves(p), fed' = fed,
             writer = "aging" => writer' = "aging" \/ ~FrontTooOld
      PROVE  \/ \E a \in fed' : /\ a.kind = "anchor" /\ a # events'[j]
                                /\ a.time + Retention >= events'[j].time
             \/ writer' = "aging" /\ j = Len(events')
  <2>1. /\ p[i] \in 1..Len(events) /\ p[j] \in 1..Len(events) /\ p[i] < p[j]
        /\ events'[i] = events[p[i]] /\ events'[j] = events[p[j]]
        /\ p[j] = Len(events) => j = Len(events')
    BY <1>3 DEF Moves
  <2>2. Shielded(events[p[j]]) \/ (writer = "aging" /\ p[j] = Len(events))
    BY <2>1 DEF WindowInv
  <2>3. CASE Shielded(events[p[j]])
    BY <1>3, <2>1, <2>3 DEF Shielded
  <2>4. CASE writer = "aging" /\ p[j] = Len(events) /\ ~FrontTooOld
    <3>1. Shielded(events[p[j]])
      BY <2>1, <2>4, FrontShields
    <3> QED
      BY <1>3, <2>1, <3>1 DEF Shielded
  <2>5. CASE writer = "aging" /\ p[j] = Len(events) /\ writer' = "aging"
    BY <2>1, <2>5
  <2> QED
    BY <1>3, <2>2, <2>3, <2>4, <2>5
<1> QED
  BY <1>2, <1>3, StepsMove

LEMMA RecordedInOrder == StoreSpec => [](RecordInv /\ OrderInv /\ WindowInv)
<1>1. StoreInit => OrderInv /\ WindowInv
  <2>1. ASSUME StoreInit
        PROVE  OrderInv /\ WindowInv
    <3>1. Len(events) = 0
      BY <2>1 DEF StoreInit
    <3> QED
      BY <3>1 DEF OrderInv, WindowInv
  <2> QED
    BY <2>1
<1>2. RecordInv /\ OrderInv /\ WindowInv /\ [StoreNext]_storeVars
        => OrderInv' /\ WindowInv'
  BY StoreAssumption, StepsKeepOrder, StepsKeepWindow
<1> QED
  BY <1>1, <1>2, RecordedOnce, PTL DEF StoreSpec

\* README, "Events older than the moving monotonic window are removed": the
\* loop of prune_locked stops at the first event in the window, which is enough
\* among frames, and no more than an anchor can stand before one too old.
THEOREM WindowIsKept == StoreSpec => []WindowHolds
<1>1. RecordInv /\ WindowInv => WindowHolds
  <2> SUFFICES ASSUME RecordInv, WindowInv, writer = "free",
                      NEW i \in 1..Len(events),
                      ReceiptTime(events[i]) + Retention < Last(events).time
               PROVE  \E a \in fed : /\ a.kind = "anchor" /\ a # Last(events)
                                     /\ a.time + Retention >= Last(events).time
    BY DEF WindowHolds
  <2>1. events \in Seq(Event) /\ Len(events) \in Nat
    BY DEF RecordInv, StoreTypeOK
  <2>2. Len(events) \in 1..Len(events) /\ Last(events) = events[Len(events)]
    BY <2>1 DEF Last
  <2>3. i # Len(events)
    <3>1. events[i] \in Event
      BY <2>1
    <3>2. MaxTime \in Nat /\ Retention \in Nat /\ Lag \in Nat
      BY StoreAssumption DEF StoreAssumption
    <3>3. events[i].time \in Nat
      BY <3>1, <3>2, StoreAssumption, EventFields
    <3>4. ReceiptTime(events[i]) + Retention >= events[i].time
      BY <3>2, <3>3 DEF ReceiptTime
    <3>5. ReceiptTime(events[i]) \in Nat
      BY <3>2, <3>3 DEF ReceiptTime
    <3> QED
      BY <2>2, <3>2, <3>3, <3>4, <3>5
  <2>4. Shielded(events[Len(events)])
    BY <2>1, <2>2, <2>3 DEF WindowInv
  <2> QED
    BY <2>2, <2>4 DEF Shielded
<1> QED
  BY <1>1, RecordedInOrder, PTL

-----------------------------------------------------------------------------
(* The byte caps take the oldest deltas.                                   *)

Candidates(over) ==
  {i \in 1..Len(events) : /\ IsDelta(events[i])
                          /\ over # {} => events[i].thread \in over}

LEMMA VictimIs ==
  ASSUME StoreTypeOK, events # <<>>, NEW over
  PROVE  /\ Victim(over) \in 1..Len(events)
         /\ \A i \in Candidates(over) :
              Victim(over) <= i /\ Victim(over) \in Candidates(over)
         /\ Candidates(over) = {} => Victim(over) = 1
<1>1. Len(events) \in Nat /\ 1 \in 1..Len(events)
  BY DEF StoreTypeOK
<1>2. Candidates(over) \subseteq Nat /\ Candidates(over) \subseteq 1..Len(events)
  BY <1>1 DEF Candidates
<1>3. Victim(over) = IF Candidates(over) # {} THEN Min(Candidates(over)) ELSE 1
  BY DEF Victim, Candidates
<1> QED
  BY <1>1, <1>2, <1>3, MinIs

\* The delta that goes is the first of its thread, or of the whole store when
\* no thread is over its cap, so the oldest.
LEMMA VictimIsOldest ==
  ASSUME StoreAssumption, RecordInv, OrderInv, events # <<>>, NEW over,
         IsDelta(events[Victim(over)]), NEW k \in 1..Len(events),
         k # Victim(over), IsDelta(events[k]),
         over = {} \/ events[k].thread = events[Victim(over)].thread
  PROVE  events[Victim(over)].seq < events[k].seq
<1> DEFINE v == Victim(over)
<1>1. StoreTypeOK /\ Len(events) \in Nat
  BY DEF RecordInv, StoreTypeOK
<1>2. /\ v \in 1..Len(events)
      /\ \A i \in Candidates(over) : v <= i /\ v \in Candidates(over)
      /\ Candidates(over) = {} => v = 1
  BY <1>1, VictimIs
<1> HIDE DEF v
<1>3. v < k
  <2>1. CASE v = 1
    BY <1>1, <2>1 DEF v
  <2>2. CASE v # 1
    <3>1. v \in Candidates(over)
      BY <1>2, <2>2
    <3>2. k \in Candidates(over)
      BY <3>1 DEF Candidates, v
    <3> QED
      BY <1>1, <1>2, <3>2 DEF v
  <2> QED
    BY <2>1, <2>2
<1>4. InOrder(events[v], events[k])
  BY <1>2, <1>3 DEF OrderInv
<1> QED
  BY <1>4 DEF InOrder, IsDelta, v

\* Under the lock, while caps are enforced, nothing else evicts.
LEMMA CappingEvicts ==
  ASSUME writer = "capping", [StoreNext]_storeVars
  PROVE  Evict \/ UNCHANGED events
<1>1. CASE ApplyFrame \/ AgedOut \/ Unlock \/ SweepEnds
  BY <1>1 DEF ApplyFrame, AgedOut, Unlock, SweepEnds
<1>2. CASE Record \/ AgeOut \/ Sweep
  BY <1>2 DEF Record, AgeOut, Sweep
<1>3. ASSUME NEW t \in Threads, AnchorRead(t) \/ AnchorSkipped(t) \/ AnchorRecord(t)
      PROVE  UNCHANGED events
  BY <1>3 DEF AnchorRead, AnchorSkipped, AnchorRecord
<1>4. ASSUME NEW threads \in SUBSET Threads, SweepBegins(threads)
      PROVE  UNCHANGED events
  BY <1>4 DEF SweepBegins
<1>5. CASE UNCHANGED storeVars
  BY <1>5 DEF storeVars
<1> QED
  BY <1>1, <1>2, <1>3, <1>4, <1>5 DEF StoreNext

GoesBefore(e, d) ==
  IsDelta(d) =>
    /\ IsDelta(e) /\ (d.thread = e.thread \/ OverThreads = {}) => e.seq < d.seq
    /\ OverThreads = {} => IsDelta(e)

LEMMA EvictTakesOldest ==
  ASSUME StoreAssumption, RecordInv, OrderInv, Evict,
         NEW e \in Retained \ Retained', NEW d \in Retained'
  PROVE  GoesBefore(e, d)
<1>1. StoreTypeOK /\ RetainedInv /\ events # <<>> /\ Len(events) \in Nat
  BY DEF RecordInv, StoreTypeOK, Evict
<1>2. PICK over : /\ EvictAt(Victim(over))
                  /\ OverThreads = {} => over = {}
  BY DEF Evict
<1> DEFINE v == Victim(over)
<1>3. v \in 1..Len(events)
  BY <1>1, VictimIs
<1>4. Retained' = Retained \ {events[v]} /\ e = events[v]
  BY <1>1, <1>2, <1>3, EvictRetains
<1>5. DOMAIN events = 1..Len(events)
  BY <1>1 DEF StoreTypeOK
<1>6. PICK k \in 1..Len(events) : d = events[k] /\ k # v
  BY <1>4, <1>5 DEF Retained, ToSet
<1>7. ASSUME IsDelta(d), IsDelta(e), d.thread = e.thread \/ OverThreads = {}
      PROVE  e.seq < d.seq
  BY <1>1, <1>2, <1>4, <1>6, <1>7, VictimIsOldest
<1>8. ASSUME IsDelta(d), OverThreads = {}
      PROVE  IsDelta(e)
  <2>1. k \in Candidates(over)
    BY <1>2, <1>6, <1>8 DEF Candidates
  <2>2. v \in Candidates(over)
    BY <1>1, <2>1, VictimIs
  <2> QED
    BY <1>4, <2>2 DEF Candidates
<1> QED
  BY <1>7, <1>8 DEF GoesBefore

\* event-store/spec.md, "oldest deltas": what prune_locked finds first from the
\* front is the oldest of its thread, because frames are recorded in sequence,
\* and with the global cap alone exceeded it is the oldest of the store, and a
\* delta as long as there is one.  It says nothing of the lifecycle record that
\* goes for a thread over its cap that has no delta.
THEOREM DeltasGoOldestFirst == StoreSpec => OldestDeltaFirst
<1>1. ASSUME RecordInv, OrderInv, [StoreNext]_storeVars, writer = "capping",
             NEW e \in Retained \ Retained', NEW d \in Retained'
      PROVE  GoesBefore(e, d)
  <2>1. ~UNCHANGED events
    BY <1>1 DEF Retained
  <2> QED
    BY <1>1, <2>1, StoreAssumption, CappingEvicts, EvictTakesOldest
<1>2. RecordInv /\ OrderInv /\ [StoreNext]_storeVars =>
        [writer = "capping" =>
           \A e \in Retained \ Retained', d \in Retained' :
             GoesBefore(e, d)]_storeVars
  BY <1>1
<1>3. StoreSpec =>
        [][writer = "capping" =>
             \A e \in Retained \ Retained', d \in Retained' :
               GoesBefore(e, d)]_storeVars
  BY <1>2, RecordedInOrder, PTL DEF StoreSpec
<1> QED
  BY <1>3 DEF OldestDeltaFirst, GoesBefore

-----------------------------------------------------------------------------
(* The gaps tell exactly what is gone.                                     *)

\* What ThreadGapsExact says of a thread's gap and what the thread lost.
GapOf(gap, lost) ==
  /\ gap.before = Max({0} \cup {e.seq : e \in lost})
  /\ gap.deltas = Cardinality({e \in lost : IsDelta(e)})
  /\ gap.lifecycle = Cardinality({e \in lost : ~IsDelta(e)})

LEMMA WithGapIs ==
  ASSUME StoreAssumption, NEW lost \in SUBSET Event, IsFiniteSet(lost),
         NEW gap \in Gap, GapOf(gap, lost), NEW e \in Event, e \notin lost
  PROVE  GapOf(WithGap(gap, e), lost \cup {e})
<1> DEFINE seqs == {0} \cup {x.seq : x \in lost}
           deltas == {x \in lost : IsDelta(x)}
           others == {x \in lost : ~IsDelta(x)}
<1>1. MaxEvents \in Nat /\ e.seq \in Nat /\ \A x \in lost : x.seq \in 0..MaxEvents
  BY EventFields DEF StoreAssumption
<1>2. /\ WithGap(gap, e).before = Later(gap.before, e.seq)
      /\ WithGap(gap, e).deltas = gap.deltas + (IF IsDelta(e) THEN 1 ELSE 0)
      /\ WithGap(gap, e).lifecycle = gap.lifecycle + (IF IsDelta(e) THEN 0 ELSE 1)
  BY DEF WithGap
<1>3. Later(gap.before, e.seq) = Max({0} \cup {x.seq : x \in lost \cup {e}})
  <2>1. seqs \in SUBSET Nat /\ seqs # {} /\ \A m \in seqs : m <= MaxEvents
    BY <1>1
  <2>2. {0} \cup {x.seq : x \in lost \cup {e}} = seqs \cup {e.seq}
    OBVIOUS
  <2>3. gap.before = Max(seqs)
    BY DEF GapOf
  <2> HIDE DEF seqs
  <2>4. Max(seqs \cup {e.seq}) = Later(Max(seqs), e.seq)
    BY <1>1, <2>1, MaxWith
  <2> QED
    BY <2>2, <2>3, <2>4
<1>4. IsFiniteSet(deltas) /\ IsFiniteSet(others)
      /\ Cardinality(deltas) \in Nat /\ Cardinality(others) \in Nat
  BY FS_Subset, FS_CardinalityType
<1>5. gap.deltas = Cardinality(deltas) /\ gap.lifecycle = Cardinality(others)
  BY DEF GapOf
<1>6. CASE IsDelta(e)
  <2>1. /\ {x \in lost \cup {e} : IsDelta(x)} = deltas \cup {e}
        /\ {x \in lost \cup {e} : ~IsDelta(x)} = others
    BY <1>6
  <2>2. Cardinality(deltas \cup {e}) = Cardinality(deltas) + 1
    <3>1. e \notin deltas
      OBVIOUS
    <3> HIDE DEF deltas
    <3> QED
      BY <1>4, <3>1, FS_AddElement
  <2>3. /\ WithGap(gap, e).deltas = gap.deltas + 1
        /\ WithGap(gap, e).lifecycle = gap.lifecycle + 0
    BY <1>2, <1>6
  <2> HIDE DEF deltas, others
  <2>4. WithGap(gap, e).lifecycle = gap.lifecycle
    BY <1>4, <1>5, <2>3
  <2> QED
    BY <1>2, <1>3, <1>5, <2>1, <2>2, <2>3, <2>4 DEF GapOf
<1>7. CASE ~IsDelta(e)
  <2>1. /\ {x \in lost \cup {e} : ~IsDelta(x)} = others \cup {e}
        /\ {x \in lost \cup {e} : IsDelta(x)} = deltas
    BY <1>7
  <2>2. Cardinality(others \cup {e}) = Cardinality(others) + 1
    <3>1. e \notin others
      OBVIOUS
    <3> HIDE DEF others
    <3> QED
      BY <1>4, <3>1, FS_AddElement
  <2>3. /\ WithGap(gap, e).lifecycle = gap.lifecycle + 1
        /\ WithGap(gap, e).deltas = gap.deltas + 0
    BY <1>2, <1>7
  <2> HIDE DEF deltas, others
  <2>4. WithGap(gap, e).deltas = gap.deltas
    BY <1>4, <1>5, <2>3
  <2> QED
    BY <1>2, <1>3, <1>5, <2>1, <2>2, <2>3, <2>4 DEF GapOf
<1> QED
  BY <1>6, <1>7

LEMMA GapsOf ==
  ThreadGapsExact <=> \A t \in Threads \cup {NoThread} : GapOf(gaps[t], Lost(t))
  BY DEF ThreadGapsExact, GapOf

LEMMA StepsKeepGaps ==
  ASSUME StoreAssumption, RecordInv, ThreadGapsExact, [StoreNext]_storeVars
  PROVE  ThreadGapsExact'
<1>1. StoreTypeOK /\ RetainedInv /\ IsFiniteSet(fed) /\ fed \subseteq Event
  BY DEF RecordInv, FedInv, StoreTypeOK
<1>2. ASSUME NEW t \in Threads \cup {NoThread}
      PROVE  Lost(t) \in SUBSET Event /\ IsFiniteSet(Lost(t)) /\ gaps[t] \in Gap
             /\ GapOf(gaps[t], Lost(t))
  <2>1. Lost(t) \in SUBSET fed
    BY DEF Lost
  <2> QED
    BY <1>1, <2>1, FS_Subset, GapsOf DEF StoreTypeOK
<1>3. SUFFICES ASSUME NEW t \in Threads \cup {NoThread}
               PROVE  GapOf(gaps'[t], Lost(t)')
  <2>1. (ThreadGapsExact
           <=> \A t \in Threads \cup {NoThread} : GapOf(gaps[t], Lost(t)))'
    BY GapsOf, PTL
  <2> QED
    BY <1>3, <2>1 DEF GapOf
<1>4. CASE Record \/ \E u \in Threads : AnchorRecord(u)
  <2>1. PICK e : Pushed(e)
    BY <1>4, PushesAre
  <2>2. Retained' = Retained \cup {e} /\ fed' = fed \cup {e} /\ e \notin fed
        /\ gaps' = gaps
    BY <1>1, <2>1, PushRetains DEF Pushed, Push
  <2>3. Lost(t)' = Lost(t)
    BY <2>2 DEF Lost
  <2> QED
    BY <1>2, <2>2, <2>3
<1>5. ASSUME NEW i \in 1..Len(events), Evicts(i)
      PROVE  GapOf(gaps'[t], Lost(t)')
  <2> DEFINE e == events[i]
  <2>1. EvictAt(i)
    BY <1>5 DEF Evicts
  <2>2. Retained' = Retained \ {e} /\ fed' = fed /\ e \in fed /\ e \in Retained
        /\ e \in Event
    <3>1. e \in Retained
      BY <1>1 DEF Retained, ToSet, StoreTypeOK
    <3>2. Retained' = Retained \ {e}
      BY <1>1, <2>1, EvictRetains
    <3> QED
      BY <1>1, <2>1, <3>1, <3>2 DEF EvictAt, RetainedInv
  <2>3. e.thread \in Threads \cup {NoThread}
    BY <2>2, EventFields
  <2>4. gaps' = [gaps EXCEPT ![e.thread] = WithGap(gaps[e.thread], e)]
    BY <2>1 DEF EvictAt
  <2> HIDE DEF e
  <2>5. DOMAIN gaps = Threads \cup {NoThread}
    BY <1>1 DEF StoreTypeOK
  <2>6. CASE t = e.thread
    <3>1. Lost(t)' = Lost(t) \cup {e} /\ e \notin Lost(t)
      BY <2>2, <2>6 DEF Lost
    <3>2. gaps'[t] = WithGap(gaps[t], e)
      BY <2>3, <2>4, <2>5, <2>6
    <3>3. GapOf(WithGap(gaps[t], e), Lost(t) \cup {e})
      BY <1>2, <2>2, <3>1, WithGapIs
    <3> QED
      BY <3>1, <3>2, <3>3
  <2>7. CASE t # e.thread
    <3>1. Lost(t)' = Lost(t)
      BY <2>2, <2>7 DEF Lost
    <3>2. gaps'[t] = gaps[t]
      BY <2>3, <2>4, <2>5, <2>7
    <3> QED
      BY <1>2, <3>1, <3>2
  <2> QED
    BY <2>6, <2>7
<1>6. CASE ApplyFrame \/ Rests
  <2>1. gaps' = gaps /\ fed' = fed /\ events' = events
    BY <1>6 DEF ApplyFrame, Rests
  <2>2. Lost(t)' = Lost(t)
    BY <2>1 DEF Lost, Retained
  <2> QED
    BY <1>2, <2>1, <2>2
<1> QED
  BY <1>1, <1>4, <1>5, <1>6, StepsAre

\* The gap of a thread names the largest sequence among the events of the
\* thread that are gone and counts them, deltas and others, exactly: none is
\* recorded twice or evicted twice (remove_at, query_sequence, query_time).
THEOREM GapsTellWhatIsGone == StoreSpec => []ThreadGapsExact
<1>1. StoreInit => ThreadGapsExact
  <2>1. ASSUME StoreInit, NEW t \in Threads \cup {NoThread}
        PROVE  GapOf(gaps[t], Lost(t))
    <3>1. Lost(t) = {}
      BY <2>1 DEF StoreInit, Lost
    <3>2. gaps[t] = [before |-> 0, deltas |-> 0, lifecycle |-> 0]
      BY <2>1 DEF StoreInit
    <3>3. Max({0}) = 0
      BY MinIs, MaxIs
    <3>4. Cardinality({}) = 0
      BY FS_EmptySet
    <3>5. /\ {0} \cup {e.seq : e \in Lost(t)} = {0}
          /\ {e \in Lost(t) : IsDelta(e)} = {}
          /\ {e \in Lost(t) : ~IsDelta(e)} = {}
      BY <3>1
    <3> QED
      BY <3>2, <3>3, <3>4, <3>5 DEF GapOf
  <2> QED
    BY <2>1, GapsOf
<1>2. RecordInv /\ ThreadGapsExact /\ [StoreNext]_storeVars => ThreadGapsExact'
  BY StoreAssumption, StepsKeepGaps
<1> QED
  BY <1>1, <1>2, RecordedOnce, PTL DEF StoreSpec

-----------------------------------------------------------------------------
(* Sums of sizes.  What the events at some positions weigh is counted in   *)
(* cells, one for each unit of size, because a cardinality follows from    *)
(* bijections and unions where a sum has to be unfolded in an order.       *)

Cells(evs, S) == UNION {{x} \X (1..evs[x].size) : x \in S}
Weight(evs, S) == Cardinality(Cells(evs, S))

LEMMA CellsFinite ==
  ASSUME NEW evs, NEW S, IsFiniteSet(S), \A x \in S : evs[x].size \in Nat
  PROVE  IsFiniteSet(Cells(evs, S)) /\ Weight(evs, S) \in Nat
<1> DEFINE cell == [x \in S |-> {x} \X (1..evs[x].size)]
           U == {cell[x] : x \in S}
<1>1. ASSUME NEW x \in S
      PROVE  IsFiniteSet({x} \X (1..evs[x].size))
  <2>1. IsFiniteSet({x})
    BY FS_Singleton
  <2>2. IsFiniteSet(1..evs[x].size)
    BY FS_Interval
  <2> QED
    BY <2>1, <2>2, FS_Product
<1>2. IsFiniteSet(U)
  <2>1. cell \in Surjection(S, U)
    BY DEF Surjection
  <2> HIDE DEF cell, U
  <2> QED
    BY <2>1, FS_Surjection
<1>3. Cells(evs, S) = UNION U
  BY DEF Cells
<1>4. \A c \in U : IsFiniteSet(c)
  BY <1>1
<1> HIDE DEF U
<1>5. IsFiniteSet(UNION U)
  BY <1>2, <1>4, FS_UNION
<1> QED
  BY <1>3, <1>5, FS_CardinalityType DEF Weight

LEMMA WeightAdd ==
  ASSUME NEW evs, NEW S, IsFiniteSet(S), NEW x, x \notin S,
         \A y \in S \cup {x} : evs[y].size \in Nat
  PROVE  Weight(evs, S \cup {x}) = Weight(evs, S) + evs[x].size
<1> DEFINE n == evs[x].size
           C == {x} \X (1..n)
           B == Cells(evs, S)
<1>1. IsFiniteSet(B) /\ Cardinality(B) \in Nat
  BY CellsFinite DEF Weight
<1>2. IsFiniteSet(C) /\ Cardinality(C) = n
  <2>0. n \in Nat
    OBVIOUS
  <2>1. IsFiniteSet(1..n) /\ Cardinality(1..n) = n
    <3> HIDE DEF n
    <3>1. IsFiniteSet(1..n)
          /\ Cardinality(1..n) = IF 1 > n THEN 0 ELSE n - 1 + 1
      BY <2>0, FS_Interval
    <3> QED
      BY <2>0, <3>1
  <2>2. IsFiniteSet({x}) /\ Cardinality({x}) = 1
    BY FS_Singleton
  <2>3. IsFiniteSet(C) /\ Cardinality(C) = 1 * n
    <3> HIDE DEF n
    <3>1. IsFiniteSet(C)
          /\ Cardinality(C) = Cardinality({x}) * Cardinality(1..n)
      BY <2>1, <2>2, FS_Product, Zenon
    <3> HIDE DEF C
    <3> QED
      BY <2>1, <2>2, <3>1, Zenon
  <2> QED
    BY <2>0, <2>3
<1>3. Cells(evs, S \cup {x}) = B \cup C /\ B \cap C = {}
  BY DEF Cells
<1> HIDE DEF B, C
<1>4. Cardinality(B \cup C) = Cardinality(B) + Cardinality(C)
  <2>1. Cardinality(B \cup C)
          = Cardinality(B) + Cardinality(C) - Cardinality(B \cap C)
    BY <1>1, <1>2, FS_Union
  <2>2. Cardinality(B \cap C) = 0
    BY <1>3, FS_EmptySet
  <2> QED
    BY <1>1, <1>2, <2>1, <2>2
<1> QED
  BY <1>2, <1>3, <1>4 DEF Weight, B

LEMMA WeightOfNone ==
  ASSUME NEW evs
  PROVE  Weight(evs, {}) = 0
  BY FS_EmptySet DEF Weight, Cells

\* Positions moved one to one to others of the same sizes.
LEMMA WeightMoved ==
  ASSUME NEW evs, NEW S, IsFiniteSet(S), \A x \in S : evs[x].size \in Nat,
         NEW evs2, NEW S2,
         \E to \in Bijection(S, S2) : \A x \in S : evs2[to[x]].size = evs[x].size
  PROVE  Weight(evs2, S2) = Weight(evs, S)
<1>0. PICK to \in Bijection(S, S2) : \A x \in S : evs2[to[x]].size = evs[x].size
  OBVIOUS
<1> DEFINE A == Cells(evs, S)
           B == Cells(evs2, S2)
           f == [p \in A |-> <<to[p[1]], p[2]>>]
<1>1. \A p \in A : p[1] \in S /\ p[2] \in 1..evs[p[1]].size /\ p = <<p[1], p[2]>>
  BY DEF Cells
<1>2. \A x \in S : \A n \in 1..evs[x].size : <<x, n>> \in A
  BY DEF Cells
<1>3. \A q \in B : q[1] \in S2 /\ q[2] \in 1..evs2[q[1]].size
                   /\ q = <<q[1], q[2]>>
  BY DEF Cells
<1>4. \A y \in S2 : \A n \in 1..evs2[y].size : <<y, n>> \in B
  BY DEF Cells
<1>5. /\ \A x \in S : to[x] \in S2
      /\ \A x, y \in S : to[x] = to[y] => x = y
      /\ \A y \in S2 : \E x \in S : to[x] = y
  BY DEF Bijection, Injection, Surjection, IsInjective
<1>6. IsFiniteSet(A)
  BY CellsFinite
<1> HIDE DEF A, B
<1>7. f \in Bijection(A, B)
  <2>1. f \in [A -> B]
    BY <1>0, <1>1, <1>4, <1>5
  <2>2. ASSUME NEW p \in A, NEW q \in A, f[p] = f[q]
        PROVE  p = q
    <3>1. to[p[1]] = to[q[1]] /\ p[2] = q[2]
      BY <2>2
    <3> QED
      BY <1>1, <1>5, <3>1
  <2>3. ASSUME NEW q \in B
        PROVE  \E p \in A : f[p] = q
    <3>1. PICK x \in S : to[x] = q[1]
      BY <1>3, <1>5
    <3>2. q[2] \in 1..evs[x].size
      BY <1>0, <1>3, <3>1
    <3>3. <<x, q[2]>> \in A
      BY <1>2, <3>2
    <3>4. f[<<x, q[2]>>] = <<to[x], q[2]>>
      BY <3>3
    <3>5. f[<<x, q[2]>>] = q
      BY <1>3, <3>1, <3>4
    <3> QED
      BY <3>3, <3>5
  <2> QED
    BY <2>1, <2>2, <2>3 DEF Bijection, Injection, Surjection, IsInjective
<1> HIDE DEF f
<1>8. Cardinality(B) = Cardinality(A)
  BY <1>6, <1>7, FS_Bijection DEF ExistsBijection
<1> QED
  BY <1>8 DEF Weight, A, B

\* The sum the model is checked with, whatever the order it is taken in.
LEMMA SumIsWeight ==
  ASSUME NEW S, IsFiniteSet(S), \A x \in S : events[x].size \in Nat
  PROVE  SumOfSizes(S) = Weight(events, S)
<1> DEFINE pick(s) == CHOOSE x \in s : TRUE
           Step(g) == [s \in SUBSET S |->
                         IF s = {} THEN 0
                         ELSE events[pick(s)].size + g[s \ {pick(s)}]]
           w == [s \in SUBSET S |-> Weight(events, s)]
<1>1. SumOfSizes(S) = (CHOOSE g : g = Step(g))[S]
  BY DEF SumOfSizes, MapThenSumSet, MapThenFoldSet
<1>2. ASSUME NEW s \in SUBSET S, s # {}
      PROVE  /\ pick(s) \in s /\ s \ {pick(s)} \in SUBSET S
             /\ Weight(events, s)
                  = events[pick(s)].size + Weight(events, s \ {pick(s)})
  <2>1. pick(s) \in s
    BY <1>2
  <2> DEFINE p == pick(s)
             r == s \ {p}
  <2> HIDE DEF pick, p
  <2>2. p \in s /\ p \in S
    BY <2>1 DEF p
  <2>3. r \in SUBSET S /\ IsFiniteSet(r) /\ p \notin r /\ r \cup {p} = s
    BY <2>2, FS_Subset
  <2> HIDE DEF r
  <2>4. /\ Weight(events, r \cup {p}) = Weight(events, r) + events[p].size
        /\ Weight(events, r) \in Nat /\ events[p].size \in Nat
    <3>1. \A y \in r \cup {p} : events[y].size \in Nat
      BY <2>3
    <3> QED
      BY <2>2, <2>3, <3>1, WeightAdd, CellsFinite
  <2>5. Weight(events, s) = events[p].size + Weight(events, r)
    <3>1. Weight(events, s) = Weight(events, r) + events[p].size
      BY <2>3, <2>4
    <3> QED
      BY <2>4, <3>1
  <2> QED
    BY <2>2, <2>3, <2>5 DEF p, r
<1>3. w = Step(w)
  <2>1. ASSUME NEW s \in SUBSET S
        PROVE  w[s] = IF s = {} THEN 0
                      ELSE events[pick(s)].size + w[s \ {pick(s)}]
    <3>1. CASE s = {}
      BY <3>1, WeightOfNone
    <3>2. CASE s # {}
      <4> HIDE DEF pick
      <4> QED
        BY <1>2, <3>2
    <3> QED
      BY <3>1, <3>2
  <2> HIDE DEF pick
  <2> QED
    BY <2>1
<1>4. ASSUME NEW g, g = Step(g)
      PROVE  g[S] = Weight(events, S)
  <2> DEFINE wrong == {s \in SUBSET S : g[s] # Weight(events, s)}
             R == StrictSubsetOrdering(S)
  <2>1. IsWellFoundedOn(R, SUBSET S)
    BY FS_StrictSubsetOrderingWellFounded, FS_FiniteSubsetsOfFinite
  <2>2. ASSUME NEW s \in wrong
        PROVE  \E r \in wrong : <<r, s>> \in R
    <3>1. s # {}
      BY <1>4, WeightOfNone
    <3> DEFINE r == s \ {pick(s)}
    <3>2. /\ g[s] = events[pick(s)].size + g[r]
          /\ Weight(events, s) = events[pick(s)].size + Weight(events, r)
          /\ pick(s) \in s /\ r \in SUBSET S
      <4> HIDE DEF pick
      <4> QED
        BY <1>2, <1>4, <3>1
    <3> HIDE DEF pick
    <3>3. g[r] # Weight(events, r)
      BY <3>2
    <3>4. <<r, s>> \in R
      BY <3>2 DEF StrictSubsetOrdering
    <3> QED
      BY <3>2, <3>3, <3>4
  <2>3. wrong = {}
    <3> HIDE DEF R
    <3>1. wrong \subseteq SUBSET S
      OBVIOUS
    <3> HIDE DEF wrong
    <3> QED
      BY <2>1, <2>2, <3>1, WFMin, Zenon
  <2> QED
    BY <2>3
<1>5. (CHOOSE g : g = Step(g)) = Step(CHOOSE g : g = Step(g))
  <2> HIDE DEF Step
  <2> QED
    BY <1>3
<1> QED
  <2> HIDE DEF Step
  <2> QED
    BY <1>1, <1>4, <1>5

-----------------------------------------------------------------------------
(* The counters tell what is retained, and the caps bound it.              *)

Places(evs, t) == {i \in 1..Len(evs) : evs[i].thread = t}

CountersExact ==
  /\ bytes = Weight(events, 1..Len(events))
  /\ \A t \in Threads : threadBytes[t] = Weight(events, Places(events, t))

\* Nobody lets go of the write lock, or sweeps, over a cap.
UnderCaps == writer \in {"free", "sweeping"} => ~OverCap

CapsInv == StoreTypeOK /\ CountersExact /\ UnderCaps

LEMMA PositionsWeigh ==
  ASSUME StoreTypeOK, NEW S \in SUBSET (1..Len(events))
  PROVE  /\ IsFiniteSet(S) /\ \A x \in S : events[x].size \in Nat
         /\ Weight(events, S) \in Nat
<1>1. IsFiniteSet(S)
  <2>1. Len(events) \in Nat
    BY DEF StoreTypeOK
  <2>2. IsFiniteSet(1..Len(events))
    BY <2>1, FS_Interval
  <2> QED
    BY <2>2, FS_Subset
<1>2. \A x \in S : events[x].size \in Nat
  <2>1. \A x \in S : events[x] \in Event
    BY DEF StoreTypeOK
  <2> QED
    BY <2>1 DEF Event
<1> QED
  BY <1>1, <1>2, CellsFinite

LEMMA PushWeighs ==
  ASSUME StoreTypeOK, NEW e \in Event, events' = Append(events, e),
         NEW S \in SUBSET (1..Len(events))
  PROVE  /\ Weight(events', S) = Weight(events, S)
         /\ Weight(events', S \cup {Len(events) + 1}) = Weight(events, S) + e.size
<1>1. events \in Seq(Event) /\ Len(events) \in Nat /\ e.size \in Nat
  BY DEF StoreTypeOK, Event
<1>2. /\ events'[Len(events) + 1] = e
      /\ \A j \in 1..Len(events) : events'[j] = events[j]
  BY <1>1, AppendProperties
<1>3. Cells(events', S) = Cells(events, S)
  <2>1. \A x \in S : events'[x] = events[x]
    BY <1>2
  <2> QED
    BY <2>1 DEF Cells
<1>4. Weight(events', S) = Weight(events, S)
  BY <1>3 DEF Weight
<1>5. /\ IsFiniteSet(S) /\ Len(events) + 1 \notin S
      /\ \A y \in S \cup {Len(events) + 1} : events'[y].size \in Nat
  <2>1. IsFiniteSet(S) /\ \A x \in S : events[x].size \in Nat
    BY PositionsWeigh
  <2>2. Len(events) + 1 \notin S
    BY <1>1
  <2> QED
    BY <1>1, <1>2, <2>1, <2>2
<1>6. Weight(events', S \cup {Len(events) + 1})
        = Weight(events', S) + events'[Len(events) + 1].size
  <2> DEFINE x == Len(events) + 1
  <2> HIDE DEF x
  <2>1. /\ x \notin S /\ \A y \in S \cup {x} : events'[y].size \in Nat
    BY <1>5 DEF x
  <2>2. Weight(events', S \cup {x}) = Weight(events', S) + events'[x].size
    BY <1>5, <2>1, WeightAdd
  <2> QED
    BY <2>2 DEF x
<1> QED
  BY <1>2, <1>4, <1>6

\* S2, among the positions left once i has gone, are what is left of S.
StaysOf(S2, S, i) ==
  /\ S2 \subseteq 1..Len(events')
  /\ \A j \in 1..Len(events') : j \in S2 <=> (IF j < i THEN j ELSE j + 1) \in S

LEMMA EvictWeighs ==
  ASSUME StoreTypeOK, NEW i \in 1..Len(events), EvictAt(i),
         NEW S \in SUBSET (1..Len(events)), NEW S2,
         StaysOf(S2, S, i)
  PROVE  Weight(events', S2) = IF i \in S
                               THEN Monus(Weight(events, S), events[i].size)
                               ELSE Weight(events, S)
<1> DEFINE move == [j \in S2 |-> IF j < i THEN j ELSE j + 1]
           R == S \ {i}
<1>1. Len(events) \in Nat /\ Len(events') = Len(events) - 1
      /\ \A j \in 1..Len(events') :
           /\ j < i => j \in 1..Len(events) /\ events'[j] = events[j]
           /\ j >= i => j + 1 \in 1..Len(events) /\ events'[j] = events[j + 1]
  BY EvictLeaves
<1>2. ASSUME NEW j \in S2
      PROVE  move[j] \in R /\ events'[j] = events[move[j]]
  <2>1. j \in 1..Len(events') /\ (j < i \/ j >= i)
    BY <1>1 DEF StaysOf
  <2>2. CASE j < i
    BY <1>1, <2>1, <2>2 DEF StaysOf
  <2>3. CASE j >= i
    BY <1>1, <2>1, <2>3 DEF StaysOf
  <2> QED
    BY <2>1, <2>2, <2>3
<1>3. ASSUME NEW k \in R
      PROVE  \E j \in S2 : move[j] = k
  <2>1. k \in Int /\ i \in Int /\ k # i /\ k \in 1..Len(events) /\ k \in S
    BY <1>1
  <2>2. k < i \/ k > i
    BY <2>1
  <2>3. CASE k < i
    <3>1. k \in 1..Len(events')
      BY <1>1, <2>1, <2>3
    <3>2. k \in S2
      BY <2>1, <2>3, <3>1 DEF StaysOf
    <3> QED
      BY <2>3, <3>2
  <2>4. CASE k > i
    <3>1. k - 1 \in 1..Len(events') /\ ~(k - 1 < i) /\ (k - 1) + 1 = k
      BY <1>1, <2>1, <2>4
    <3>2. k - 1 \in S2
      BY <2>1, <3>1 DEF StaysOf
    <3> QED
      BY <3>1, <3>2
  <2> QED
    BY <2>2, <2>3, <2>4
<1>4. ASSUME NEW j \in S2, NEW k \in S2, move[j] = move[k]
      PROVE  j = k
  <2>1. j \in Int /\ k \in Int /\ i \in Int
    BY <1>1 DEF StaysOf
  <2>2. /\ move[j] = IF j < i THEN j ELSE j + 1
        /\ move[k] = IF k < i THEN k ELSE k + 1
    OBVIOUS
  <2>3. (IF j < i THEN j ELSE j + 1) = (IF k < i THEN k ELSE k + 1)
    BY <1>4, <2>2, Zenon
  <2> HIDE DEF move
  <2> QED
    BY <2>1, <2>3
<1>5. move \in Bijection(S2, R)
  <2>1. move \in [S2 -> R]
    <3>1. \A j \in S2 : move[j] \in R
      BY <1>2
    <3> HIDE DEF R
    <3> QED
      BY <3>1
  <2> HIDE DEF move, R
  <2> QED
    BY <1>3, <1>4, <2>1 DEF Bijection, Injection, Surjection, IsInjective
<1>6. /\ IsFiniteSet(S2) /\ \A x \in S2 : events'[x].size \in Nat
      /\ \A x \in S2 : events[move[x]].size = events'[x].size
  <2>1. IsFiniteSet(1..Len(events'))
    BY <1>1, FS_Interval
  <2>2. \A x \in R : events[x].size \in Nat
    BY PositionsWeigh
  <2> HIDE DEF move, R
  <2> QED
    BY <1>2, <2>1, <2>2, FS_Subset DEF StaysOf
<1>7. Weight(events, R) = Weight(events', S2)
  <2> HIDE DEF move, R
  <2> QED
    BY <1>5, <1>6, WeightMoved
<1>8. CASE i \in S
  <2>1. IsFiniteSet(R) /\ Weight(events, R) \in Nat
    BY PositionsWeigh
  <2>2. i \notin R /\ R \cup {i} = S
    BY <1>8
  <2>3. \A y \in R \cup {i} : events[y].size \in Nat
    BY PositionsWeigh
  <2> HIDE DEF R
  <2>4. Weight(events, R \cup {i}) = Weight(events, R) + events[i].size
    BY <2>1, <2>2, <2>3, WeightAdd
  <2>5. Weight(events, S) = Weight(events, R) + events[i].size
    BY <2>2, <2>4
  <2>6. events[i].size \in Nat
    BY <2>2, <2>3
  <2>7. Monus(Weight(events, S), events[i].size) = Weight(events, R)
    BY <2>1, <2>5, <2>6 DEF Monus
  <2> QED
    BY <1>7, <1>8, <2>7
<1>9. CASE i \notin S
  <2>1. R = S
    BY <1>9
  <2> QED
    BY <1>7, <1>9, <2>1
<1> QED
  BY <1>8, <1>9

LEMMA PushCounts ==
  ASSUME StoreTypeOK, StoreTypeOK', CountersExact, NEW e \in Event, Push(e)
  PROVE  CountersExact'
<1>1. events \in Seq(Event) /\ Len(events) \in Nat /\ e.size \in Nat
      /\ events' = Append(events, e)
  BY DEF StoreTypeOK, Event, Push
<1>2. /\ Len(events') = Len(events) + 1 /\ events'[Len(events) + 1] = e
      /\ \A j \in 1..Len(events) : events'[j] = events[j]
  BY <1>1, AppendProperties
<1>3. bytes' = Weight(events', 1..Len(events'))
  <2>1. 1..Len(events') = (1..Len(events)) \cup {Len(events) + 1}
    BY <1>1, <1>2
  <2>2. Weight(events', (1..Len(events)) \cup {Len(events) + 1})
          = Weight(events, 1..Len(events)) + e.size
    BY <1>1, PushWeighs
  <2>3. bytes' = Weight(events, 1..Len(events)) + e.size
    BY DEF CountersExact, Push
  <2> QED
    BY <2>1, <2>2, <2>3
<1>4. ASSUME NEW t \in Threads
      PROVE  threadBytes'[t] = Weight(events', Places(events', t))
  <2>1. Places(events, t) \in SUBSET (1..Len(events))
        /\ threadBytes[t] = Weight(events, Places(events, t))
    BY DEF Places, CountersExact
  <2>2. /\ Weight(events', Places(events, t)) = threadBytes[t]
        /\ Weight(events', Places(events, t) \cup {Len(events) + 1})
             = threadBytes[t] + e.size
    BY <1>1, <2>1, PushWeighs
  <2>3. ASSUME NEW j \in 1..Len(events')
        PROVE  j \in 1..Len(events) \/ j = Len(events) + 1
    BY <1>1, <1>2
  <2>4. Len(events) + 1 \in 1..Len(events')
        /\ \A j \in 1..Len(events) : j \in 1..Len(events')
    BY <1>1, <1>2
  <2>5. CASE e.thread = t
    <3>1. Places(events', t) = Places(events, t) \cup {Len(events) + 1}
      BY <1>2, <2>3, <2>4, <2>5 DEF Places
    <3>2. threadBytes'[t] = threadBytes[t] + e.size
      BY <2>5 DEF Push, StoreTypeOK
    <3> QED
      BY <2>2, <3>1, <3>2
  <2>6. CASE e.thread # t
    <3>1. Places(events', t) = Places(events, t)
      BY <1>2, <2>3, <2>4, <2>6 DEF Places
    <3>2. threadBytes'[t] = threadBytes[t]
      BY <2>6 DEF Push, StoreTypeOK
    <3> QED
      BY <2>2, <3>1, <3>2
  <2> QED
    BY <2>5, <2>6
<1> QED
  BY <1>3, <1>4 DEF CountersExact

LEMMA EvictCounts ==
  ASSUME StoreAssumption, StoreTypeOK, CountersExact, NEW i \in 1..Len(events),
         EvictAt(i)
  PROVE  /\ CountersExact'
         /\ bytes' <= bytes /\ \A t \in Threads : threadBytes'[t] <= threadBytes[t]
<1> DEFINE e == events[i]
<1>1. Len(events) \in Nat /\ Len(events') = Len(events) - 1
      /\ \A j \in 1..Len(events') :
           /\ j < i => j \in 1..Len(events) /\ events'[j] = events[j]
           /\ j >= i => j + 1 \in 1..Len(events) /\ events'[j] = events[j + 1]
  BY EvictLeaves
<1>2. e.size \in Nat /\ e.thread \in Threads \cup {NoThread}
      /\ bytes \in Nat /\ threadBytes \in [Threads -> Nat]
  <2>1. e \in Event
    BY DEF StoreTypeOK
  <2> QED
    BY <2>1, EventFields DEF StoreTypeOK
<1>3. \A a, b \in Nat : Monus(a, b) <= a
  BY DEF Monus
<1>4. ASSUME NEW j \in 1..Len(events')
      PROVE  /\ (IF j < i THEN j ELSE j + 1) \in 1..Len(events)
             /\ events'[j] = events[IF j < i THEN j ELSE j + 1]
  <2>1. j < i \/ j >= i
    BY <1>1
  <2>2. CASE j < i
    BY <1>1, <2>2
  <2>3. CASE j >= i
    <3>1. ~(j < i)
      BY <1>1, <2>3
    <3> QED
      BY <1>1, <2>3, <3>1
  <2> QED
    BY <2>1, <2>2, <2>3
<1>5. bytes' = Monus(bytes, e.size) /\ bytes' = Weight(events', 1..Len(events'))
  <2>1. StaysOf(1..Len(events'), 1..Len(events), i)
    BY <1>4 DEF StaysOf
  <2>2. Weight(events', 1..Len(events'))
          = Monus(Weight(events, 1..Len(events)), events[i].size)
    BY <2>1, EvictWeighs
  <2> QED
    BY <2>2 DEF EvictAt, CountersExact
<1>6. ASSUME NEW t \in Threads
      PROVE  /\ threadBytes'[t] = Weight(events', Places(events', t))
             /\ threadBytes'[t] <= threadBytes[t]
  <2>1. Places(events, t) \in SUBSET (1..Len(events))
        /\ threadBytes[t] = Weight(events, Places(events, t))
    BY DEF Places, CountersExact
  <2>2. StaysOf(Places(events', t), Places(events, t), i)
    <3>1. Places(events', t) \subseteq 1..Len(events')
      BY DEF Places
    <3>2. ASSUME NEW j \in 1..Len(events')
          PROVE  j \in Places(events', t)
                   <=> (IF j < i THEN j ELSE j + 1) \in Places(events, t)
      <4> DEFINE k == IF j < i THEN j ELSE j + 1
      <4>1. k \in 1..Len(events) /\ events'[j] = events[k]
        BY <1>4
      <4> HIDE DEF k
      <4>2. j \in Places(events', t) <=> k \in Places(events, t)
        BY <4>1 DEF Places
      <4> QED
        BY <4>2 DEF k
    <3> QED
      BY <3>1, <3>2 DEF StaysOf
  <2>3. Weight(events', Places(events', t)) =
          IF i \in Places(events, t) THEN Monus(threadBytes[t], e.size)
          ELSE threadBytes[t]
    BY <2>1, <2>2, EvictWeighs
  <2>4. CASE e.thread = t
    <3>1. i \in Places(events, t)
      BY <2>4 DEF Places
    <3>2. threadBytes'[t] = Monus(threadBytes[t], e.size)
      <4>1. threadBytes' = [threadBytes EXCEPT ![t] = Monus(@, e.size)]
        BY <2>4 DEF EvictAt
      <4> QED
        BY <1>2, <4>1
    <3> QED
      BY <1>2, <1>3, <2>3, <3>1, <3>2
  <2>5. CASE e.thread # t
    <3>1. i \notin Places(events, t)
      BY <2>5 DEF Places
    <3>2. threadBytes'[t] = threadBytes[t]
      BY <1>2, <2>5 DEF EvictAt
    <3> QED
      BY <1>2, <2>3, <3>1, <3>2
  <2> QED
    BY <2>4, <2>5
<1> QED
  BY <1>2, <1>3, <1>5, <1>6 DEF CountersExact

LEMMA StepsKeepCaps ==
  ASSUME StoreAssumption, CapsInv, [StoreNext]_storeVars
  PROVE  CapsInv'
<1>1. StoreTypeOK /\ StoreTypeOK'
  BY StepsKeepTypes DEF CapsInv
<1> SUFFICES CountersExact' /\ UnderCaps'
  BY <1>1 DEF CapsInv
<1>2. ASSUME NEW e \in Event, Push(e)
      PROVE  CountersExact' /\ UnderCaps'
  BY <1>1, <1>2, PushCounts DEF Push, CapsInv, UnderCaps
<1>3. CASE Record
  <2>1. Head(current) \in Event /\ Push(Head(current))
    BY <1>1, <1>3 DEF Record, StoreTypeOK
  <2> QED
    BY <1>2, <2>1
<1>4. ASSUME NEW t \in Threads, AnchorRecord(t)
      PROVE  CountersExact' /\ UnderCaps'
  <2>1. PICK shape \in Shapes, now \in Monus(clock, Lag)..MaxTime :
          Push([seq |-> anchor[t], thread |-> t, kind |-> "anchor",
                size |-> shape[2], time |-> now])
    BY <1>4 DEF AnchorRecord
  <2>2. shape[2] \in Nat /\ now \in 0..MaxTime /\ anchor[t] > 0
    <3>1. shape[2] \in Nat
      BY ShapesAre
    <3>2. now \in 0..MaxTime
      BY <1>1, AnchorTimes
    <3> QED
      BY <1>4, <3>1, <3>2 DEF AnchorRecord
  <2> QED
    BY <1>1, <1>2, <2>1, <2>2, ReadAnchorsAreEvents
<1>5. CASE AgeOut \/ Evict \/ Sweep
  <2>1. PICK i \in 1..Len(events) : EvictAt(i) /\ UNCHANGED writer
    BY <1>1, <1>5, EvictionsAre DEF Evicts
  <2>2. /\ CountersExact' /\ bytes' <= bytes
        /\ \A t \in Threads : threadBytes'[t] <= threadBytes[t]
    BY <1>1, <2>1, EvictCounts DEF CapsInv
  <2>3. ASSUME ~OverCap
        PROVE  ~OverCap'
    <3>1. /\ bytes \in Nat /\ bytes' \in Nat
          /\ GlobalCap \in Nat /\ ThreadCap \in Nat
          /\ \A t \in Threads : threadBytes[t] \in Nat /\ threadBytes'[t] \in Nat
      BY <1>1 DEF StoreTypeOK, StoreAssumption
    <3>2. ~(bytes' > GlobalCap)
      BY <2>2, <2>3, <3>1 DEF OverCap
    <3>3. \A t \in Threads : ~(threadBytes'[t] > ThreadCap)
      BY <2>2, <2>3, <3>1 DEF OverCap, OverThreads
    <3> QED
      BY <3>2, <3>3 DEF OverCap, OverThreads
  <2> QED
    BY <2>1, <2>2, <2>3 DEF CapsInv, UnderCaps
<1>6. CASE ApplyFrame
  BY <1>6 DEF ApplyFrame, CapsInv, CountersExact, UnderCaps, OverCap,
     OverThreads
<1>7. ASSUME NEW t \in Threads, AnchorRead(t) \/ AnchorSkipped(t)
      PROVE  CountersExact' /\ UnderCaps'
  BY <1>7 DEF AnchorRead, AnchorSkipped, CapsInv, CountersExact, UnderCaps,
              OverCap, OverThreads
<1>8. CASE AgedOut \/ Unlock \/ SweepEnds
  BY <1>8 DEF AgedOut, Unlock, SweepEnds, CapsInv, CountersExact, UnderCaps,
              OverCap, OverThreads
<1>9. ASSUME NEW threads \in SUBSET Threads, SweepBegins(threads)
      PROVE  CountersExact' /\ UnderCaps'
  BY <1>9 DEF SweepBegins, CapsInv, CountersExact, UnderCaps, OverCap,
              OverThreads
<1>10. CASE UNCHANGED storeVars
  BY <1>10 DEF storeVars, CapsInv, CountersExact, UnderCaps, OverCap,
     OverThreads
<1> QED
  BY <1>3, <1>4, <1>5, <1>6, <1>7, <1>8, <1>9, <1>10 DEF StoreNext

\* Whenever no writer runs, what is retained fits the caps, of all threads
\* together and of each, and the counters that pruning goes by are the sums of
\* the sizes retained: the saturating subtractions of remove_at never saturate
\* (prune_locked, evict_idle_content, remove_at).
THEOREM CapsBoundWhatIsRetained == StoreSpec => []CapsHold
<1>1. StoreInit => CapsInv
  <2>1. ASSUME StoreInit
        PROVE  CapsInv
    <3>1. StoreTypeOK /\ {GlobalCap, ThreadCap} \subseteq Nat
      BY <2>1, StoreAssumption, InitHasTypes DEF StoreAssumption
    <3>2. 1..Len(events) = {} /\ \A t \in Threads : Places(events, t) = {}
      BY <2>1 DEF StoreInit, Places
    <3>3. CountersExact
      BY <2>1, <3>2, WeightOfNone DEF StoreInit, CountersExact
    <3>4. UnderCaps
      BY <2>1, <3>1 DEF StoreInit, UnderCaps, OverCap, OverThreads
    <3> QED
      BY <3>1, <3>3, <3>4 DEF CapsInv
  <2> QED
    BY <2>1
<1>2. CapsInv /\ [StoreNext]_storeVars => CapsInv'
  BY StoreAssumption, StepsKeepCaps
<1>3. CapsInv => CapsHold
  <2>1. ASSUME CapsInv, writer = "free"
        PROVE  /\ SumOfSizes(1..Len(events)) <= GlobalCap
               /\ bytes = SumOfSizes(1..Len(events))
    <3>1. SumOfSizes(1..Len(events)) = Weight(events, 1..Len(events))
      BY <2>1, PositionsWeigh, SumIsWeight DEF CapsInv
    <3>2. bytes \in Nat /\ GlobalCap \in Nat /\ ~(bytes > GlobalCap)
      BY <2>1, StoreAssumption
      DEF CapsInv, StoreTypeOK, StoreAssumption, UnderCaps, OverCap
    <3> QED
      BY <2>1, <3>1, <3>2 DEF CapsInv, CountersExact
  <2>2. ASSUME CapsInv, writer = "free", NEW t \in Threads
        PROVE  /\ SumOfSizes(Places(events, t)) <= ThreadCap
               /\ threadBytes[t] = SumOfSizes(Places(events, t))
    <3>1. Places(events, t) \in SUBSET (1..Len(events))
      BY DEF Places
    <3>2. SumOfSizes(Places(events, t)) = Weight(events, Places(events, t))
      BY <2>2, <3>1, PositionsWeigh, SumIsWeight DEF CapsInv
    <3>3. threadBytes[t] \in Nat /\ ThreadCap \in Nat
          /\ ~(threadBytes[t] > ThreadCap)
      BY <2>2, StoreAssumption
      DEF CapsInv, StoreTypeOK, StoreAssumption, UnderCaps, OverCap,
         OverThreads
    <3> QED
      BY <2>2, <3>2, <3>3 DEF CapsInv, CountersExact
  <2> QED
    BY <2>1, <2>2 DEF CapsHold, Places
<1> QED
  BY <1>1, <1>2, <1>3, PTL DEF StoreSpec
=============================================================================
