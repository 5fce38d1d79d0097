--------------------------- MODULE IngestionProofs ---------------------------
(***************************************************************************)
(* Proofs about Ingestion, for any threads, callers and bounds: its types  *)
(* and the subscription cap, that one call at a time subscribes a thread,  *)
(* that a thread called Subscribed is retained by the reducer, that no     *)
(* turn in flight is overlooked, and that the turn of a subscribed thread  *)
(* is known.                                                               *)
(***************************************************************************)
EXTENDS Ingestion, SequenceTheorems, FiniteSetTheorems, TLAPS

Message == [thread: Threads, version: Versions, told: BOOLEAN, on: 1..MaxConns]

Call == [at: Discovers \cup Reconciles \cup {"idle"},
         thread: Threads \cup {NoThread}, attempt: 1..ResumeRetryLimit,
         answer: Versions]

DaemonTypes ==
  /\ version \in [Threads -> Versions]
  /\ live \subseteq Threads
  /\ conn \in 1..MaxConns /\ up \in BOOLEAN
  /\ wire \in Seq(Message) /\ Len(wire) <= MaxWire

IngestTypes ==
  /\ signals \subseteq Threads
  /\ states \in [Threads -> State]
  /\ changed \cup todo \subseteq Threads
  /\ due \in BOOLEAN
  /\ listedOn \in 0..conn
  /\ overlooked \subseteq changed

CallTypes == call \in [Callers -> Call]

ReducerTypes ==
  /\ snapshot \in [Threads -> Entry]
  /\ subscribing \subseteq Threads

HistoryTypes ==
  /\ newest \in [Threads -> Versions]
  /\ doubt \in [Threads -> {"none", "stale", "unread"}]
  /\ orphans \cup missed \subseteq Threads

CapHolds == Cardinality(Managed) <= SubscriptionCap

LEMMA TypesInParts ==
  TypeOK <=> /\ DaemonTypes /\ IngestTypes /\ CallTypes /\ ReducerTypes
             /\ HistoryTypes /\ CapHolds
  BY DEF TypeOK, DaemonTypes, IngestTypes, CallTypes, ReducerTypes,
         HistoryTypes, CapHolds, Message, Call

\* A caller that is at work on a thread has one.
Holding == Discovers \cup {"probe", "probed", "discover"}
CallsHold == \A c \in Callers : call[c].at \in Holding => call[c].thread \in Threads

\* The callers between a claim and its end hold claims that still stand.
ClaimsStand ==
  \A c \in Callers : call[c].at \in Subscribes =>
    states[call[c].thread] \in {"Subscribing", "RetryWait"}

\* What Reducer::is_prunable spares for good.
Kept(e) == e.present /\ e.subscribed

\* finish_subscription has been called before Subscribed is written.
PromotedFirst ==
  \A c \in Callers : call[c].at = "retain" => Kept(snapshot[call[c].thread])

IngestInv ==
  /\ TypeOK
  /\ IsFiniteSet(Managed)
  /\ CallsHold
  /\ ClaimsStand
  /\ OneSubscribes
  /\ PromotedFirst
  /\ SubscribedRetained

-----------------------------------------------------------------------------
(* Calls.                                                                  *)

Places == Discovers \cup Reconciles \cup {"idle"}

\* A call that goes on keeps its thread, and no other call moves.
LEMMA StepKeepsCalls ==
  ASSUME CallTypes, NEW c \in Callers, NEW at \in Places, Step(c, at)
  PROVE  /\ CallTypes'
         /\ call'[c].at = at
         /\ call'[c].thread = call[c].thread
         /\ \A d \in Callers \ {c} : call'[d] = call[d]
  BY DEF CallTypes, Call, Step, Places

\* A call without a thread is a call.
LEMMA AtIsCall ==
  ASSUME IngestionAssumption, NEW at \in Places
  PROVE  At(at) \in Call /\ At(at).at = at
  BY DEF At, Call, Places, Versions, IngestionAssumption

LEMMA ReturnsKeepsCalls ==
  ASSUME IngestionAssumption, CallTypes, NEW c \in Callers, Returns(c)
  PROVE  /\ CallTypes'
         /\ call'[c].at \in {"next", "idle"}
         /\ \A d \in Callers \ {c} : call'[d] = call[d]
<1> DEFINE at == IF c = Reconciler THEN "next" ELSE "idle"
<1>1. at \in {"next", "idle"} /\ at \in Places
  BY DEF Places, Reconciles
<1>2. call' = [call EXCEPT ![c] = At(at)]
  BY DEF Returns
<1> HIDE DEF at
<1> QED
  BY <1>1, <1>2, AtIsCall DEF CallTypes

\* What a step of one caller can do to states: nothing, take up a thread that
\* nobody holds, or decide about the thread it subscribes.
Effect(c) ==
  \/ /\ states' = states
     /\ call'[c].at \notin Subscribes
  \/ \E t \in Threads :
       /\ ~Claimed(t)
       /\ states' = [states EXCEPT ![t] = "CapacityDegraded"]
       /\ call'[c].at \notin Subscribes
  \/ \E t \in Threads :
       /\ ~Claimed(t)
       /\ Cardinality(Managed) < SubscriptionCap
       /\ states' = [states EXCEPT ![t] = "Subscribing"]
       /\ call'[c].at = "begin" /\ call'[c].thread = t
  \/ \E s \in State :
       /\ call[c].at \in Subscribes
       /\ states' = [states EXCEPT ![call[c].thread] = s]
       /\ s = "Subscribed" => call[c].at = "retain"
       /\ call'[c].at \in Subscribes =>
            /\ call'[c].thread = call[c].thread
            /\ s \in {"Subscribing", "RetryWait"}

CallMoves(c) ==
  /\ CallTypes'
  /\ \A d \in Callers \ {c} : call'[d] = call[d]
  /\ call'[c].at \in Holding => call'[c].thread \in Threads
  /\ Effect(c)

\* discover's claim: AlreadyManaged, CapacityDegraded or a claim.
LEMMA DiscoverMoves ==
  ASSUME IngestionAssumption, CallTypes, IngestTypes,
         NEW c \in Callers, NEW t \in Threads, Discover(c, t)
  PROVE  CallMoves(c) /\ call'[c].at # "retain"
<1>1. CASE Claimed(t) /\ Returns(c) /\ UNCHANGED states
  BY <1>1, ReturnsKeepsCalls
  DEF CallMoves, Effect, Holding, Discovers, Subscribes
<1>2. CASE ~Claimed(t) /\ Becomes(t, "CapacityDegraded") /\ Returns(c)
  BY <1>2, ReturnsKeepsCalls
  DEF CallMoves, Effect, Holding, Discovers, Subscribes, Becomes
<1>3. CASE /\ ~Claimed(t)
           /\ Cardinality(Managed) < SubscriptionCap
           /\ Becomes(t, "Subscribing")
           /\ call' = [call EXCEPT ![c] = [At("begin") EXCEPT !.thread = t]]
  <2>1. "begin" \in Places
    BY DEF Places, Discovers, Subscribes
  <2>2. At("begin") \in Call /\ At("begin").at = "begin"
    BY <2>1, AtIsCall
  <2>3. /\ [At("begin") EXCEPT !.thread = t] \in Call
        /\ [At("begin") EXCEPT !.thread = t].at = "begin"
        /\ [At("begin") EXCEPT !.thread = t].thread = t
    BY <2>2 DEF Call
  <2>4. /\ CallTypes'
        /\ call'[c].at = "begin" /\ call'[c].thread = t
        /\ \A d \in Callers \ {c} : call'[d] = call[d]
    BY <1>3, <2>3 DEF CallTypes
  <2> QED
    BY <1>3, <2>4 DEF CallMoves, Effect, Becomes
<1> QED
  BY <1>1, <1>2, <1>3 DEF Discover

\* The steps of a call that go on to the next place with the same thread and
\* leave states as it is.
LEMMA StepMoves ==
  ASSUME CallTypes, IngestTypes, CallsHold, ClaimsStand,
         NEW c \in Callers, NEW at \in Places, Step(c, at),
         UNCHANGED states,
         at \in Holding => call[c].at \in Holding,
         at \in Subscribes => call[c].at \in Subscribes
  PROVE  CallMoves(c)
<1>1. /\ CallTypes' /\ call'[c].at = at /\ call'[c].thread = call[c].thread
      /\ \A d \in Callers \ {c} : call'[d] = call[d]
  BY StepKeepsCalls
<1>2. call'[c].at \in Holding => call'[c].thread \in Threads
  BY <1>1 DEF CallsHold
<1>3. CASE at \notin Subscribes
  BY <1>1, <1>2, <1>3 DEF CallMoves, Effect
<1>4. CASE at \in Subscribes
  <2>1. /\ call[c].at \in Subscribes /\ call[c].thread \in Threads
        /\ states[call[c].thread] \in {"Subscribing", "RetryWait"}
    BY <1>4 DEF ClaimsStand, CallsHold, Holding, Discovers
  <2>2. states' = [states EXCEPT ![call[c].thread] = states[call[c].thread]]
    BY DEF IngestTypes
  <2>3. Effect(c)
    BY <1>1, <2>1, <2>2 DEF Effect, State
  <2> QED
    BY <1>1, <1>2, <2>3 DEF CallMoves
<1> QED
  BY <1>3, <1>4

\* A return.
LEMMA ReturnMoves ==
  ASSUME IngestionAssumption, CallTypes, NEW c \in Callers, Returns(c),
         UNCHANGED states
  PROVE  CallMoves(c) /\ call'[c].at # "retain"
  BY ReturnsKeepsCalls DEF CallMoves, Effect, Holding, Discovers, Subscribes

\* A step within discover.
LEMMA DiscoverStepMoves ==
  ASSUME IngestionAssumption, DaemonTypes, CallTypes, IngestTypes, CallsHold,
         ClaimsStand, NEW c \in Callers, DiscoverStep(c)
  PROVE  CallMoves(c) /\ (call'[c].at = "retain" => FinishSubscription(c))
<1> DEFINE t == call[c].thread
<1> USE DEF Places, Holding, Discovers, Subscribes
<1>1. CASE HandleSignal(c)
  <2>1. PICK u \in signals : Discover(c, u)
    BY <1>1 DEF HandleSignal
  <2>2. u \in Threads
    BY DEF IngestTypes
  <2> QED
    BY <2>1, <2>2, DiscoverMoves
<1>2. CASE Observe(c)
  <2>1. PICK u \in Threads : Discover(c, u)
    BY <1>2 DEF Observe
  <2> QED
    BY <2>1, DiscoverMoves
<1>3. CASE BeginSubscription(c)
  <2>1. call[c].at = "begin" /\ Step(c, "resume") /\ UNCHANGED states
    BY <1>3 DEF BeginSubscription
  <2> QED
    BY <2>1, StepMoves, StepKeepsCalls
<1>4. CASE ResumeGranted(c)
  <2>1. call[c].at = "resume" /\ Step(c, "granted") /\ UNCHANGED states
    BY <1>4 DEF ResumeGranted
  <2> QED
    BY <2>1, StepMoves, StepKeepsCalls
<1>5. CASE ResumeRetried(c)
  <2>1. /\ call[c].at = "resume" /\ Becomes(t, "RetryWait")
        /\ call[c].attempt < ResumeRetryLimit
        /\ call' = [call EXCEPT ![c].at = "wait", ![c].attempt = @ + 1]
    BY <1>5 DEF ResumeRetried
  <2>2. call[c] \in Call /\ call[c].attempt + 1 \in 1..ResumeRetryLimit
    BY <2>1 DEF CallTypes, Call, IngestionAssumption
  <2>3. /\ CallTypes' /\ call'[c].at = "wait" /\ call'[c].thread = t
        /\ \A d \in Callers \ {c} : call'[d] = call[d]
    <3>1. call' = [call EXCEPT ![c] =
                     [call[c] EXCEPT !.at = "wait", !.attempt = @ + 1]]
      BY <2>1 DEF CallTypes
    <3>2. [call[c] EXCEPT !.at = "wait", !.attempt = @ + 1] \in Call
      BY <2>2 DEF Call
    <3> QED
      BY <2>2, <3>1, <3>2 DEF CallTypes, Call
  <2>4. t \in Threads
    BY <2>1 DEF CallsHold
  <2> QED
    BY <2>1, <2>3, <2>4 DEF CallMoves, Effect, Becomes, State
<1>6. CASE RetryElapses(c)
  <2>1. /\ call[c].at = "wait" /\ Becomes(t, "Subscribing") /\ Step(c, "resume")
    BY <1>6 DEF RetryElapses
  <2>2. /\ CallTypes' /\ call'[c].at = "resume" /\ call'[c].thread = t
        /\ \A d \in Callers \ {c} : call'[d] = call[d]
    BY <2>1, StepKeepsCalls
  <2>3. t \in Threads
    BY <2>1 DEF CallsHold
  <2> QED
    BY <2>1, <2>2, <2>3 DEF CallMoves, Effect, Becomes, State
<1>7. CASE ResumeFails(c)
  <2>1. PICK s \in {"Failed", "Ephemeral"} :
          call[c].at \in {"resume", "granted"} /\ Becomes(t, s) /\ Step(c, "cancel")
    BY <1>7 DEF ResumeFails
  <2>2. /\ CallTypes' /\ call'[c].at = "cancel" /\ call'[c].thread = t
        /\ \A d \in Callers \ {c} : call'[d] = call[d]
    BY <2>1, StepKeepsCalls
  <2>3. t \in Threads
    BY <2>1 DEF CallsHold
  <2> QED
    BY <2>1, <2>2, <2>3 DEF CallMoves, Effect, Becomes, State
<1>8. CASE CancelSubscription(c) \/ ReadApplied(c) \/ ReadFails(c)
  <2>1. Returns(c) /\ UNCHANGED states
    BY <1>8 DEF CancelSubscription, ReadApplied, ReadFails
  <2> QED
    BY <2>1, ReturnMoves
<1>9. CASE FinishSubscription(c)
  <2>1. call[c].at = "granted" /\ Step(c, "retain") /\ UNCHANGED states
    BY <1>9 DEF FinishSubscription
  <2> QED
    BY <1>9, <2>1, StepMoves
<1>10. CASE Retain(c)
  <2>1. call[c].at = "retain" /\ Becomes(t, "Subscribed") /\ Step(c, "read")
    BY <1>10 DEF Retain
  <2>2. /\ CallTypes' /\ call'[c].at = "read" /\ call'[c].thread = t
        /\ \A d \in Callers \ {c} : call'[d] = call[d]
    BY <2>1, StepKeepsCalls
  <2>3. t \in Threads
    BY <2>1 DEF CallsHold
  <2> QED
    BY <2>1, <2>2, <2>3 DEF CallMoves, Effect, Becomes, State
<1>11. CASE ReadServed(c)
  <2>1. /\ call[c].at = "read" /\ UNCHANGED states
        /\ call' = [call EXCEPT ![c].at = "answered", ![c].answer = version[t]]
    BY <1>11 DEF ReadServed
  <2>2. t \in Threads
    BY <2>1 DEF CallsHold
  <2>3. version[t] \in Versions
    BY <2>2 DEF DaemonTypes
  <2>4. /\ CallTypes' /\ call'[c].at = "answered" /\ call'[c].thread = t
        /\ \A d \in Callers \ {c} : call'[d] = call[d]
    BY <2>1, <2>3 DEF CallTypes, Call
  <2> QED
    BY <2>1, <2>2, <2>4 DEF CallMoves, Effect
<1> QED
  BY <1>1, <1>2, <1>3, <1>4, <1>5, <1>6, <1>7, <1>8, <1>9, <1>10, <1>11
  DEF DiscoverStep

\* A step of reconcile.
LEMMA ReconcileStepMoves ==
  ASSUME IngestionAssumption, DaemonTypes, CallTypes, IngestTypes, CallsHold,
         ClaimsStand, ReconcileStep
  PROVE  CallMoves(Reconciler) /\ call'[Reconciler].at # "retain"
<1> DEFINE c == Reconciler
<1> USE DEF Places, Holding, Discovers, Subscribes, Reconciles
<1>0. c \in Callers
  BY DEF Callers
<1>1. CASE Listed
  BY <1>0, <1>1, StepMoves, StepKeepsCalls DEF Listed
<1>2. CASE NextCandidate
  <2>1. PICK u \in todo : call' = [call EXCEPT ![c].at = "probe", ![c].thread = u]
    BY <1>2 DEF NextCandidate
  <2>2. u \in Threads /\ UNCHANGED states
    BY <1>2 DEF IngestTypes, NextCandidate
  <2>3. /\ CallTypes' /\ call'[c].at = "probe" /\ call'[c].thread = u
        /\ \A d \in Callers \ {c} : call'[d] = call[d]
    BY <1>0, <2>1, <2>2 DEF CallTypes, Call
  <2> QED
    BY <2>2, <2>3 DEF CallMoves, Effect
<1>3. CASE ProbeServed
  <2>1. CASE call' = [call EXCEPT ![c].at = "probed",
                                  ![c].answer = version[call[c].thread]]
    <3>1. call[c].at = "probe" /\ UNCHANGED states
      BY <1>3 DEF ProbeServed, rec
    <3>2. call[c].thread \in Threads /\ version[call[c].thread] \in Versions
      BY <1>0, <3>1 DEF CallsHold, DaemonTypes
    <3>3. /\ CallTypes' /\ call'[c].at = "probed"
          /\ call'[c].thread = call[c].thread
          /\ \A d \in Callers \ {c} : call'[d] = call[d]
      BY <1>0, <2>1, <3>2 DEF CallTypes, Call
    <3> QED
      BY <3>1, <3>2, <3>3 DEF CallMoves, Effect
  <2>2. CASE Returns(c)
    BY <1>0, <1>3, <2>2, ReturnMoves DEF ProbeServed
  <2> QED
    BY <1>3, <2>1, <2>2 DEF ProbeServed, rec
<1>4. CASE ProbeFails
  BY <1>0, <1>4, ReturnMoves DEF ProbeFails
<1>5. CASE Probed
  <2>1. call[c].at = "probed" /\ Step(c, "discover") /\ UNCHANGED states
    BY <1>5 DEF Probed, rec
  <2> QED
    BY <1>0, <2>1, StepMoves, StepKeepsCalls
<1>6. CASE ReconcileDiscovers
  <2>1. call[c].at = "discover" /\ Discover(c, call[c].thread)
    BY <1>6 DEF ReconcileDiscovers, rec
  <2>2. call[c].thread \in Threads
    BY <1>0, <2>1 DEF CallsHold
  <2> QED
    BY <1>0, <2>1, <2>2, DiscoverMoves
<1>7. CASE ReconcileEnds
  <2>1. PICK at \in {"marking", "idle"} : call' = [call EXCEPT ![c] = At(at)]
    BY <1>7 DEF ReconcileEnds
  <2>2. At(at) \in Call /\ At(at).at = at /\ UNCHANGED states
    BY <1>7, AtIsCall DEF ReconcileEnds
  <2> QED
    BY <1>0, <2>1, <2>2 DEF CallTypes, CallMoves, Effect
<1>8. CASE Marked
  BY <1>0, <1>8, StepMoves, StepKeepsCalls DEF Marked
<1> QED
  BY <1>1, <1>2, <1>3, <1>4, <1>5, <1>6, <1>7, <1>8 DEF ReconcileStep

-----------------------------------------------------------------------------
(* The daemon, the ingestor, the reducer and the histories.                *)

LEMMA NextMessage ==
  ASSUME IngestionAssumption, DaemonTypes, wire # <<>>
  PROVE  /\ Head(wire) \in Message
         /\ Tail(wire) \in Seq(Message) /\ Len(Tail(wire)) <= MaxWire
<1>1. wire \in Seq(Message) /\ Len(wire) <= MaxWire /\ MaxWire \in Nat
  BY DEF DaemonTypes, IngestionAssumption
<1>2. /\ Head(wire) \in Message /\ Tail(wire) \in Seq(Message)
      /\ Len(Tail(wire)) = Len(wire) - 1
  BY <1>1, HeadTailProperties
<1>3. Len(wire) \in Nat
  BY <1>1
<1> QED
  BY <1>1, <1>2, <1>3

LEMMA DaemonKeepsTypes ==
  ASSUME IngestionAssumption, DaemonTypes, CallsHold, Next
  PROVE  DaemonTypes'
<1> USE DEF DaemonTypes
<1>1. CASE \E t \in Threads : Moves(t)
  <2>1. PICK t \in Threads : Moves(t)
    BY <1>1
  <2>2. version[t] \in Versions /\ version[t] + 1 \in Versions
    BY <2>1 DEF Moves, Versions, IngestionAssumption
  <2>3. version' \in [Threads -> Versions]
    BY <2>1, <2>2 DEF Moves
  <2> DEFINE m == [thread |-> t, version |-> version[t] + 1,
                   told |-> t \in live, on |-> conn]
  <2>4. CASE wire' = Append(wire, m) /\ Len(wire) < MaxWire
    <3>1. m \in Message
      <4> DEFINE told == t \in live
      <4>1. told \in BOOLEAN
        OBVIOUS
      <4> HIDE DEF told
      <4>2. [thread |-> t, version |-> version[t] + 1, told |-> told,
             on |-> conn] \in Message
        BY <2>2, <4>1 DEF Message
      <4> QED
        BY <4>2, Zenon DEF told
    <3> HIDE DEF m
    <3>2. Append(wire, m) \in Seq(Message) /\ Len(Append(wire, m)) = Len(wire) + 1
      BY <3>1
    <3>3. MaxWire \in Nat /\ Len(wire) \in Nat
      BY DEF IngestionAssumption
    <3>4. wire' \in Seq(Message) /\ Len(wire') <= MaxWire
      BY <2>4, <3>2, <3>3
    <3> QED
      BY <2>1, <2>3, <3>4 DEF Moves
  <2>5. CASE wire' = wire
    BY <2>1, <2>3, <2>5 DEF Moves
  <2> QED
    BY <2>1, <2>4, <2>5 DEF Moves
<1>2. CASE Disconnect
  <2>1. PICK n \in 0..Len(wire) : wire' = SubSeq(wire, 1, n)
    BY <1>2 DEF Disconnect
  <2>2. \A i \in 1..n : i \in 1..Len(wire)
    BY <2>1
  <2>3. SubSeq(wire, 1, n) \in Seq(Message) /\ Len(SubSeq(wire, 1, n)) <= Len(wire)
    BY <2>1, <2>2
  <2>4. wire' \in Seq(Message) /\ Len(wire') <= MaxWire
    BY <2>1, <2>3 DEF IngestionAssumption
  <2> QED
    BY <1>2, <2>4 DEF Disconnect
<1>3. CASE Connect
  BY <1>3 DEF Connect, IngestionAssumption
<1>4. CASE ApplyMessage
  BY <1>4, NextMessage DEF ApplyMessage
<1>5. CASE \E c \in Callers : ResumeGranted(c)
  BY <1>5 DEF ResumeGranted, CallsHold, Holding, Discovers, Subscribes
<1>6. CASE UNCHANGED daemonVars
  BY <1>6 DEF daemonVars
<1>7. CASE ReconcileStep
  BY <1>6, <1>7
  DEF ReconcileStep, Listed, NextCandidate, ProbeServed, ProbeFails, Probed,
      ReconcileDiscovers, ReconcileEnds, Marked
<1>8. CASE \E c \in Callers : DiscoverStep(c)
  BY <1>5, <1>6, <1>8
  DEF DiscoverStep, HandleSignal, Observe, BeginSubscription, ResumeRetried,
      RetryElapses, ResumeFails, CancelSubscription, FinishSubscription,
      Retain, ReadServed, ReadApplied, ReadFails
<1> QED
  BY <1>1, <1>2, <1>3, <1>4, <1>7, <1>8 DEF Next, DaemonStep

\* All but states, which go with the calls.
LEMMA IngestKeepsTypes ==
  ASSUME IngestionAssumption, DaemonTypes, IngestTypes, CallsHold, Next
  PROVE  /\ signals' \subseteq Threads
         /\ changed' \cup todo' \subseteq Threads
         /\ due' \in BOOLEAN
         /\ listedOn' \in 0..conn'
         /\ overlooked' \subseteq changed'
<1> USE DEF IngestTypes, gate
<1>0. conn \in Nat
  BY DEF DaemonTypes
<1>1. CASE DaemonStep
  <2>1. ASSUME NEW t \in Threads, Moves(t)
        PROVE  /\ changed' = changed \cup {t} /\ overlooked' = overlooked \ {t}
               /\ UNCHANGED <<signals, todo, due, listedOn, conn>>
    BY <2>1 DEF Moves
  <2>2. CASE Disconnect
    BY <2>2 DEF Disconnect, ingestVars
  <2>3. CASE Connect
    BY <1>0, <2>3 DEF Connect
  <2> QED
    BY <1>1, <2>1, <2>2, <2>3 DEF DaemonStep
<1>2. CASE ApplyMessage
  <2>1. Head(wire).thread \in Threads
    BY <1>2, NextMessage DEF ApplyMessage, Message
  <2> QED
    BY <1>2, <2>1 DEF ApplyMessage
<1>3. CASE ReconcileStep
  <2>1. UNCHANGED <<conn, signals>>
    BY <1>3
    DEF ReconcileStep, Listed, NextCandidate, ProbeServed, ProbeFails, Probed,
        ReconcileDiscovers, ReconcileEnds, Marked, daemonVars
  <2>2. CASE Listed
    BY <1>0, <2>1, <2>2 DEF Listed
  <2>3. CASE Marked
    BY <2>1, <2>3 DEF Marked
  <2>4. CASE NextCandidate
    BY <2>1, <2>4 DEF NextCandidate
  <2>5. CASE UNCHANGED <<changed, todo, gate>>
    BY <2>1, <2>5
  <2> QED
    BY <1>3, <2>2, <2>3, <2>4, <2>5
    DEF ReconcileStep, ProbeServed, ProbeFails, Probed, ReconcileDiscovers,
        ReconcileEnds
<1>4. CASE \E c \in Callers : DiscoverStep(c)
  BY <1>4
  DEF DiscoverStep, HandleSignal, Observe, BeginSubscription, ResumeGranted,
      ResumeRetried, RetryElapses, ResumeFails, CancelSubscription,
      FinishSubscription, Retain, ReadServed, ReadApplied, ReadFails, daemonVars
<1> QED
  BY <1>1, <1>2, <1>3, <1>4 DEF Next

\* An entry that is kept is never pruned, and stays kept.
KeepsEntries == \A t \in Threads : Kept(snapshot[t]) => Kept(snapshot'[t])

LEMMA EntryWritten ==
  ASSUME ReducerTypes, NEW t \in Threads, NEW e \in Entry,
         snapshot' = [snapshot EXCEPT ![t] = e],
         Kept(snapshot[t]) => Kept(e)
  PROVE  snapshot' \in [Threads -> Entry] /\ KeepsEntries
  BY DEF ReducerTypes, KeepsEntries

LEMMA EntryUpserted ==
  ASSUME ReducerTypes, NEW t \in Threads
  PROVE  /\ Upserted(t) \in Entry
         /\ Kept(snapshot[t]) => Kept(Upserted(t))
<1>1. snapshot[t] \in Entry
  BY DEF ReducerTypes
<1> QED
  BY <1>1 DEF Upserted, Entry, Kept

LEMMA AbsentIsEntry ==
  ASSUME IngestionAssumption
  PROVE  Absent \in Entry
  BY DEF Absent, Entry, Versions, IngestionAssumption

LEMMA EntryApplied ==
  ASSUME IngestionAssumption, ReducerTypes, NEW t \in Threads,
         NEW v \in Versions, NEW told
  PROVE  /\ Applied(t, v, told) \in Entry
         /\ Kept(snapshot[t]) => Kept(Applied(t, v, told))
<1> DEFINE e == Upserted(t)
           turn == IF told /\ Active(v) THEN v
                   ELSE IF told /\ e.turn = v - 1 THEN 0 ELSE e.turn
<1>1. e \in Entry /\ (Kept(snapshot[t]) => Kept(e))
  BY EntryUpserted
<1>2. 0 \in Versions
  BY DEF Versions, IngestionAssumption
<1>3. Applied(t, v, told) = [e EXCEPT !.turn = turn]
  BY <1>1 DEF Applied, Entry
<1>4. turn \in Versions
  BY <1>1, <1>2 DEF Entry
<1> HIDE DEF turn, e
<1> QED
  BY <1>1, <1>3, <1>4 DEF Entry, Kept

LEMMA ReconcileThreadMoves ==
  ASSUME IngestionAssumption, ReducerTypes, HistoryTypes, NEW t \in Threads,
         NEW v \in Versions, NEW sure, ReconcileThread(t, v, sure)
  PROVE  /\ snapshot' \in [Threads -> Entry] /\ KeepsEntries
         /\ newest' \in [Threads -> Versions]
         /\ doubt' \in [Threads -> {"none", "stale", "unread"}]
<1>1. snapshot[t] \in Entry /\ TurnOf(v) \in Versions
  BY DEF ReducerTypes, TurnOf, Versions, IngestionAssumption
<1> DEFINE e == [present |-> TRUE, subscribed |-> snapshot[t].subscribed,
                 turn |-> TurnOf(v)]
<1>2. e \in Entry /\ (Kept(snapshot[t]) => Kept(e))
  BY <1>1 DEF Entry, Kept
<1>3. snapshot' = [snapshot EXCEPT ![t] = e]
  BY DEF ReconcileThread, ReducerTypes
<1> HIDE DEF e
<1>4. snapshot' \in [Threads -> Entry] /\ KeepsEntries
  BY <1>2, <1>3, EntryWritten
<1> QED
  BY <1>4 DEF ReconcileThread, Learns, DoubtAfter, HistoryTypes

\* Whatever moves, the reducer keeps what has been promoted: the upserts and
\* the prunes of apply, begin, cancel and finish included.
LEMMA ReducerMoves ==
  ASSUME IngestionAssumption, DaemonTypes, CallTypes, ReducerTypes,
         HistoryTypes, CallsHold, Next
  PROVE  ReducerTypes' /\ KeepsEntries
<1> USE DEF ReducerTypes
<1>0. \A c \in Callers :
        /\ call[c].at \in Holding => call[c].thread \in Threads
        /\ call[c].answer \in Versions
  BY DEF CallsHold, CallTypes, Call
<1>1. CASE UNCHANGED snapshot /\ UNCHANGED subscribing
  BY <1>1 DEF KeepsEntries
<1>2. CASE ApplyMessage
  <2> DEFINE m == Head(wire)
             t == m.thread
             e == Applied(t, m.version, m.told)
             f == IF t \notin subscribing /\ Prunable(e) THEN Absent ELSE e
  <2>1. t \in Threads /\ m.version \in Versions
    BY <1>2, NextMessage DEF ApplyMessage, Message
  <2>2. e \in Entry /\ (Kept(snapshot[t]) => Kept(e))
    BY <2>1, EntryApplied
  <2>3. snapshot' = [snapshot EXCEPT ![t] = f] /\ UNCHANGED subscribing
    BY <1>2 DEF ApplyMessage
  <2> HIDE DEF e
  <2>4. f \in Entry /\ (Kept(snapshot[t]) => Kept(f))
    BY <2>2, AbsentIsEntry DEF Prunable, Kept
  <2> HIDE DEF f, t
  <2> QED
    BY <2>1, <2>3, <2>4, EntryWritten
<1>3. ASSUME NEW c \in Callers, BeginSubscription(c)
      PROVE  ReducerTypes' /\ KeepsEntries
  <2>1. call[c].thread \in Threads
    BY <1>0, <1>3 DEF BeginSubscription, Holding, Discovers, Subscribes
  <2> QED
    BY <1>3, <2>1, EntryUpserted, EntryWritten DEF BeginSubscription
<1>4. ASSUME NEW c \in Callers, CancelSubscription(c)
      PROVE  ReducerTypes' /\ KeepsEntries
  <2> DEFINE t == call[c].thread
             e == IF Prunable(snapshot[t]) THEN Absent ELSE snapshot[t]
  <2>1. t \in Threads
    BY <1>0, <1>4 DEF CancelSubscription, Holding, Discovers
  <2>2. e \in Entry /\ (Kept(snapshot[t]) => Kept(e))
    BY <2>1, AbsentIsEntry DEF Prunable, Kept
  <2>3. snapshot' = [snapshot EXCEPT ![t] = e]
    BY <1>4 DEF CancelSubscription
  <2> HIDE DEF e
  <2> QED
    BY <1>4, <2>1, <2>2, <2>3, EntryWritten DEF CancelSubscription
<1>5. ASSUME NEW c \in Callers, FinishSubscription(c)
      PROVE  ReducerTypes' /\ KeepsEntries
  <2> DEFINE t == call[c].thread
             e == Promoted(snapshot[t])
  <2>1. t \in Threads
    BY <1>0, <1>5 DEF FinishSubscription, Holding, Discovers, Subscribes
  <2>2. e \in Entry /\ Kept(e)
    BY <2>1 DEF Promoted, Entry, Kept
  <2>3. snapshot' = [snapshot EXCEPT ![t] = e]
    BY <1>5 DEF FinishSubscription
  <2> HIDE DEF e
  <2> QED
    BY <1>5, <2>1, <2>2, <2>3, EntryWritten DEF FinishSubscription
<1>6. ASSUME NEW c \in Callers, ReadApplied(c)
      PROVE  ReducerTypes' /\ KeepsEntries
  <2>1. call[c].thread \in Threads
    BY <1>0, <1>6 DEF ReadApplied, Holding, Discovers
  <2> QED
    BY <1>0, <1>6, <2>1, ReconcileThreadMoves DEF ReadApplied
<1>7. CASE Probed
  <2>1. Reconciler \in Callers /\ rec.at = "probed"
    BY <1>7 DEF Probed, Callers
  <2>2. rec.thread \in Threads /\ rec.answer \in Versions
    BY <1>0, <2>1 DEF rec, Holding
  <2> QED
    BY <1>7, <2>2, ReconcileThreadMoves DEF Probed
<1>8. CASE DaemonStep
  BY <1>1, <1>8 DEF DaemonStep, Moves, Disconnect, Connect, reducerVars
<1>9. CASE ReconcileStep
  BY <1>1, <1>7, <1>9
  DEF ReconcileStep, Listed, NextCandidate, ProbeServed, ProbeFails,
      ReconcileDiscovers, ReconcileEnds, Marked, reducerVars
<1>10. CASE \E c \in Callers : DiscoverStep(c)
  BY <1>1, <1>3, <1>4, <1>5, <1>6, <1>10
  DEF DiscoverStep, HandleSignal, Observe, ResumeGranted, ResumeRetried,
      RetryElapses, ResumeFails, Retain, ReadServed, ReadFails, reducerVars
<1> QED
  BY <1>2, <1>8, <1>9, <1>10 DEF Next

LEMMA HistoryKeepsTypes ==
  ASSUME IngestionAssumption, DaemonTypes, CallTypes, ReducerTypes,
         HistoryTypes, CallsHold, Next
  PROVE  HistoryTypes'
<1> USE DEF HistoryTypes
<1>0. \A c \in Callers :
        /\ call[c].at \in Holding => call[c].thread \in Threads
        /\ call[c].answer \in Versions
  BY DEF CallsHold, CallTypes, Call
<1>1. CASE DaemonStep
  BY <1>1 DEF DaemonStep, Moves, Disconnect, Connect, history, DaemonTypes
<1>2. CASE ApplyMessage
  <2>1. Head(wire).thread \in Threads /\ Head(wire).version \in Versions
    BY <1>2, NextMessage DEF ApplyMessage, Message
  <2> QED
    BY <1>2, <2>1 DEF ApplyMessage, Learns, DoubtAfter
<1>3. CASE UNCHANGED history
  BY <1>3 DEF history
<1>4. Reconciler \in Callers
  BY DEF Callers
<1>5. CASE Probed
  <2>1. rec.thread \in Threads /\ rec.answer \in Versions
    BY <1>0, <1>4, <1>5 DEF Probed, rec, Holding
  <2> QED
    BY <1>5, <2>1, ReconcileThreadMoves DEF Probed
<1>6. CASE ProbeFails
  <2>1. rec.thread \in Threads
    BY <1>0, <1>4, <1>6 DEF ProbeFails, rec, Holding
  <2> QED
    BY <1>6, <2>1 DEF ProbeFails
<1>7. CASE ReconcileStep
  BY <1>3, <1>5, <1>6, <1>7
  DEF ReconcileStep, Listed, NextCandidate, ProbeServed, ReconcileDiscovers,
      ReconcileEnds, Marked
<1>8. ASSUME NEW c \in Callers, ResumeGranted(c)
      PROVE  HistoryTypes'
  BY <1>8 DEF ResumeGranted
<1>9. ASSUME NEW c \in Callers, ReadApplied(c)
      PROVE  HistoryTypes'
  <2>1. call[c].thread \in Threads
    BY <1>0, <1>9 DEF ReadApplied, Holding, Discovers
  <2> QED
    BY <1>0, <1>9, <2>1, ReconcileThreadMoves DEF ReadApplied
<1>10. ASSUME NEW c \in Callers, ReadFails(c)
       PROVE  HistoryTypes'
  <2>1. call[c].thread \in Threads
    BY <1>0, <1>10 DEF ReadFails, Holding, Discovers
  <2> QED
    BY <1>10, <2>1 DEF ReadFails
<1>11. CASE \E c \in Callers : DiscoverStep(c)
  BY <1>3, <1>8, <1>9, <1>10, <1>11
  DEF DiscoverStep, HandleSignal, Observe, BeginSubscription, ResumeRetried,
      RetryElapses, ResumeFails, CancelSubscription, FinishSubscription,
      Retain, ReadServed
<1> QED
  BY <1>1, <1>2, <1>7, <1>11 DEF Next

-----------------------------------------------------------------------------
(* What the moves of one caller do to the claims of all.                   *)

\* No more threads are retained than subscription_cap allows.
LEMMA ManagedWithinCap ==
  ASSUME IngestionAssumption, IngestTypes, CallsHold, ClaimsStand, CapHolds,
         IsFiniteSet(Managed), NEW c \in Callers, Effect(c)
  PROVE  /\ states' \in [Threads -> State]
         /\ IsFiniteSet(Managed') /\ CapHolds'
<1> USE DEF IngestTypes
<1>0. ASSUME Managed' \subseteq Managed
      PROVE  IsFiniteSet(Managed') /\ CapHolds'
  <2>1. IsFiniteSet(Managed') /\ Cardinality(Managed') <= Cardinality(Managed)
    BY <1>0, FS_Subset
  <2>2. /\ Cardinality(Managed) \in Nat /\ Cardinality(Managed') \in Nat
        /\ SubscriptionCap \in Nat
    BY <2>1, FS_CardinalityType DEF IngestionAssumption
  <2> QED
    BY <2>1, <2>2 DEF CapHolds
<1>1. CASE states' = states
  BY <1>1, <1>0 DEF Managed
<1>2. ASSUME NEW t \in Threads, ~Claimed(t),
             states' = [states EXCEPT ![t] = "CapacityDegraded"]
      PROVE  states' \in [Threads -> State] /\ Managed' \subseteq Managed
  BY <1>2 DEF Managed, Retained, State
<1>3. ASSUME NEW t \in Threads, ~Claimed(t),
             Cardinality(Managed) < SubscriptionCap,
             states' = [states EXCEPT ![t] = "Subscribing"]
      PROVE  /\ states' \in [Threads -> State]
             /\ IsFiniteSet(Managed') /\ CapHolds'
  <2>1. states' \in [Threads -> State]
    BY <1>3 DEF State
  <2>2. Managed' = Managed \cup {t} /\ t \notin Managed
    BY <1>3 DEF Managed, Retained, Claimed
  <2>3. /\ IsFiniteSet(Managed')
        /\ Cardinality(Managed') = Cardinality(Managed) + 1
    BY <2>2, FS_AddElement
  <2>4. Cardinality(Managed) \in Nat /\ SubscriptionCap \in Nat
    BY FS_CardinalityType DEF IngestionAssumption
  <2> QED
    BY <1>3, <2>1, <2>3, <2>4 DEF CapHolds
<1>4. ASSUME NEW s \in State, call[c].at \in Subscribes,
             states' = [states EXCEPT ![call[c].thread] = s]
      PROVE  states' \in [Threads -> State] /\ Managed' \subseteq Managed
  <2>1. call[c].thread \in Threads
    BY <1>4 DEF CallsHold, Holding, Discovers
  <2>2. states[call[c].thread] \in {"Subscribing", "RetryWait"}
    BY <1>4 DEF ClaimsStand
  <2>3. states' \in [Threads -> State]
    BY <1>4, <2>1
  <2>4. ASSUME NEW t \in Managed'
        PROVE  t \in Managed
    BY <1>4, <2>1, <2>2, <2>4 DEF Managed, Retained
  <2> QED
    BY <2>3, <2>4
<1> QED
  BY <1>0, <1>1, <1>2, <1>3, <1>4 DEF Effect

\* The claims of the others stand, and are on other threads.
LEMMA ClaimsKept ==
  ASSUME IngestionAssumption, IngestTypes, CallsHold, ClaimsStand,
         OneSubscribes, NEW c \in Callers, CallMoves(c)
  PROVE  CallsHold' /\ ClaimsStand' /\ OneSubscribes'
<1> USE DEF IngestTypes
<1> DEFINE Busy(d) == call[d].at \in Subscribes
<1>1. \A d \in Callers \ {c} : call'[d] = call[d]
  BY DEF CallMoves
<1>2. CallsHold'
  BY <1>1 DEF CallMoves, CallsHold
<1>3. \A d \in Callers : Busy(d) =>
        /\ call[d].thread \in Threads
        /\ states[call[d].thread] \in {"Subscribing", "RetryWait"}
  BY DEF CallsHold, ClaimsStand, Holding, Discovers
\* Until c moves, nobody else is busy with a thread it takes or holds.
<1>4. ASSUME NEW d \in Callers \ {c}, Busy(d)
      PROVE  /\ states'[call[d].thread] \in {"Subscribing", "RetryWait"}
             /\ call'[c].at \in Subscribes => call'[c].thread # call[d].thread
  <2> DEFINE u == call[d].thread
  <2>1. u \in Threads /\ states[u] \in {"Subscribing", "RetryWait"} /\ Claimed(u)
    BY <1>3, <1>4 DEF Claimed, Retained
  <2>2. Busy(c) => call[c].thread # u
    BY <1>4 DEF OneSubscribes
  <2> HIDE DEF u
  <2>3. CASE states' = states /\ call'[c].at \notin Subscribes
    BY <2>1, <2>3 DEF u
  <2>4. ASSUME NEW t \in Threads, ~Claimed(t), NEW s,
               states' = [states EXCEPT ![t] = s],
               call'[c].at \in Subscribes => call'[c].thread = t
        PROVE  /\ states'[u] \in {"Subscribing", "RetryWait"}
               /\ call'[c].at \in Subscribes => call'[c].thread # u
    BY <2>1, <2>4
  <2>5. ASSUME NEW s, Busy(c),
               states' = [states EXCEPT ![call[c].thread] = s],
               call'[c].at \in Subscribes => call'[c].thread = call[c].thread
        PROVE  /\ states'[u] \in {"Subscribing", "RetryWait"}
               /\ call'[c].at \in Subscribes => call'[c].thread # u
    BY <2>1, <2>2, <2>5
  <2> QED
    BY <2>3, <2>4, <2>5 DEF CallMoves, Effect, u
<1>5. call'[c].at \in Subscribes =>
        states'[call'[c].thread] \in {"Subscribing", "RetryWait"}
  <2>1. ASSUME NEW t \in Threads, states' = [states EXCEPT ![t] = "Subscribing"],
               call'[c].thread = t
        PROVE  states'[call'[c].thread] \in {"Subscribing", "RetryWait"}
    BY <2>1
  <2>2. ASSUME NEW s \in {"Subscribing", "RetryWait"}, Busy(c),
               states' = [states EXCEPT ![call[c].thread] = s],
               call'[c].thread = call[c].thread
        PROVE  states'[call'[c].thread] \in {"Subscribing", "RetryWait"}
    BY <1>3, <2>2
  <2> QED
    BY <2>1, <2>2 DEF CallMoves, Effect
<1>6. ClaimsStand'
  BY <1>1, <1>4, <1>5 DEF ClaimsStand
<1>7. OneSubscribes'
  <2> SUFFICES ASSUME NEW a \in Callers, NEW b \in Callers, a # b,
                      call'[a].at \in Subscribes, call'[b].at \in Subscribes
               PROVE  call'[a].thread # call'[b].thread
    BY DEF OneSubscribes
  <2>1. CASE a # c /\ b # c
    BY <1>1, <2>1 DEF OneSubscribes
  <2>2. CASE a = c
    BY <1>1, <1>4, <2>2
  <2>3. CASE b = c
    BY <1>1, <1>4, <2>3
  <2> QED
    BY <2>1, <2>2, <2>3
<1> QED
  BY <1>2, <1>6, <1>7

\* Subscribed is written after the promotion, which no prune undoes.
LEMMA PromotionKept ==
  ASSUME IngestTypes, CallsHold, PromotedFirst, SubscribedRetained,
         KeepsEntries, NEW c \in Callers, CallMoves(c),
         call'[c].at = "retain" => Kept(snapshot'[call'[c].thread])
  PROVE  PromotedFirst' /\ SubscribedRetained'
<1>1. PromotedFirst'
  <2> SUFFICES ASSUME NEW d \in Callers, call'[d].at = "retain"
               PROVE  Kept(snapshot'[call'[d].thread])
    BY DEF PromotedFirst, Kept
  <2>1. CASE d # c
    <3>1. call'[d] = call[d] /\ Kept(snapshot[call[d].thread])
      BY <2>1 DEF CallMoves, PromotedFirst
    <3>2. call[d].thread \in Threads
      BY <3>1 DEF CallsHold, Holding, Discovers, Subscribes
    <3> QED
      BY <3>1, <3>2 DEF KeepsEntries
  <2> QED
    BY <2>1
<1>2. SubscribedRetained'
  <2> SUFFICES ASSUME NEW t \in Threads, states'[t] = "Subscribed"
               PROVE  Kept(snapshot'[t])
    BY DEF SubscribedRetained, Kept
  <2>1. CASE states[t] = "Subscribed"
    BY <2>1 DEF SubscribedRetained, Kept, KeepsEntries
  <2>2. CASE states[t] # "Subscribed"
    <3>1. call[c].at = "retain" /\ call[c].thread = t
      <4> DEFINE u == call[c].thread
      <4>1. ASSUME NEW v \in Threads, NEW s, s # "Subscribed",
                   states' = [states EXCEPT ![v] = s]
            PROVE  FALSE
        BY <2>2, <4>1 DEF IngestTypes
      <4>2. states' # states
        BY <2>2
      <4>3. PICK s \in State : /\ call[c].at \in Subscribes
                               /\ states' = [states EXCEPT ![u] = s]
                               /\ s = "Subscribed" => call[c].at = "retain"
        BY <4>1, <4>2 DEF CallMoves, Effect
      <4>4. u \in Threads
        BY <4>3 DEF CallsHold, Holding, Discovers
      <4>5. u = t /\ s = "Subscribed"
        BY <2>2, <4>3, <4>4 DEF IngestTypes
      <4> QED
        BY <4>3, <4>5
    <3> QED
      BY <3>1 DEF PromotedFirst, KeepsEntries
  <2> QED
    BY <2>1, <2>2
<1> QED
  BY <1>1, <1>2

-----------------------------------------------------------------------------
(* The invariant.                                                          *)

LEMMA InitEstablishes ==
  ASSUME IngestionAssumption, Init
  PROVE  IngestInv
<1> USE DEF Init
<1>1. \A c \in Callers : call[c].at = "idle"
  BY DEF At
<1>2. CallsHold /\ ClaimsStand /\ OneSubscribes /\ PromotedFirst
  BY <1>1
  DEF CallsHold, ClaimsStand, OneSubscribes, PromotedFirst, Holding, Discovers,
      Subscribes
<1>3. SubscribedRetained
  BY DEF SubscribedRetained
<1>4. Managed = {}
  BY DEF Managed, Retained
<1>5. IsFiniteSet(Managed) /\ CapHolds
  <2>1. Cardinality({}) = 0 /\ IsFiniteSet({})
    BY FS_EmptySet
  <2>2. SubscriptionCap \in Nat
    BY DEF IngestionAssumption
  <2> QED
    BY <1>4, <2>1, <2>2 DEF CapHolds
<1>6. DaemonTypes
  <2>1. wire \in Seq(Message) /\ Len(wire) = 0
    OBVIOUS
  <2> QED
    BY <2>1 DEF DaemonTypes, IngestionAssumption
<1>7. IngestTypes /\ ReducerTypes /\ HistoryTypes
  BY AbsentIsEntry
  DEF IngestTypes, ReducerTypes, HistoryTypes, State, Versions,
      IngestionAssumption
<1>8. CallTypes
  BY AtIsCall DEF CallTypes, Places
<1> QED
  BY <1>2, <1>3, <1>5, <1>6, <1>7, <1>8, TypesInParts DEF IngestInv

\* A step of a caller.
LEMMA CallerPreserves ==
  ASSUME IngestionAssumption, IngestInv, Next, NEW c \in Callers, CallMoves(c),
         call'[c].at = "retain" => Kept(snapshot'[call'[c].thread])
  PROVE  IngestInv'
<1>1. /\ DaemonTypes /\ IngestTypes /\ CallTypes /\ ReducerTypes
      /\ HistoryTypes /\ CapHolds /\ IsFiniteSet(Managed)
      /\ CallsHold /\ ClaimsStand /\ OneSubscribes
      /\ PromotedFirst /\ SubscribedRetained
  BY TypesInParts DEF IngestInv
<1>2. DaemonTypes' /\ ReducerTypes' /\ HistoryTypes' /\ KeepsEntries
  BY <1>1, DaemonKeepsTypes, ReducerMoves, HistoryKeepsTypes
<1>3. CallTypes' /\ Effect(c)
  BY DEF CallMoves
<1>4. states' \in [Threads -> State] /\ IsFiniteSet(Managed') /\ CapHolds'
  BY <1>1, <1>3, ManagedWithinCap
<1>5. IngestTypes'
  BY <1>1, <1>4, IngestKeepsTypes DEF IngestTypes
<1>6. CallsHold' /\ ClaimsStand' /\ OneSubscribes'
  BY <1>1, ClaimsKept
<1>7. PromotedFirst' /\ SubscribedRetained'
  BY <1>1, <1>2, PromotionKept
<1>8. TypeOK'
  BY <1>2, <1>3, <1>4, <1>5
  DEF TypeOK, DaemonTypes, IngestTypes, CallTypes, ReducerTypes, HistoryTypes,
      CapHolds, Message, Call
<1> QED
  BY <1>4, <1>6, <1>7, <1>8 DEF IngestInv

\* A step of the daemon, the connection or the ingress task, which leave
\* states and the calls alone.
LEMMA OthersPreserve ==
  ASSUME IngestionAssumption, IngestInv, Next, UNCHANGED <<states, call>>
  PROVE  IngestInv'
<1>1. /\ DaemonTypes /\ IngestTypes /\ CallTypes /\ ReducerTypes
      /\ HistoryTypes /\ CapHolds /\ CallsHold /\ PromotedFirst
      /\ SubscribedRetained
  BY TypesInParts DEF IngestInv
<1>2. DaemonTypes' /\ ReducerTypes' /\ HistoryTypes' /\ KeepsEntries
  BY <1>1, DaemonKeepsTypes, ReducerMoves, HistoryKeepsTypes
<1>3. IngestTypes' /\ CallTypes'
  BY <1>1, IngestKeepsTypes DEF IngestTypes, CallTypes
<1>4. Managed' = Managed
  BY DEF Managed
<1>5. IsFiniteSet(Managed') /\ CapHolds'
  BY <1>1, <1>4 DEF IngestInv, CapHolds
<1>6. CallsHold' /\ ClaimsStand' /\ OneSubscribes'
  BY DEF IngestInv, CallsHold, ClaimsStand, OneSubscribes
<1>7. PromotedFirst'
  <2>1. \A c \in Callers : call[c].at = "retain" => call[c].thread \in Threads
    BY <1>1 DEF CallsHold, Holding, Discovers, Subscribes
  <2> QED
    BY <1>1, <1>2, <2>1 DEF PromotedFirst, KeepsEntries, Kept
<1>8. SubscribedRetained'
  BY <1>1, <1>2 DEF SubscribedRetained, KeepsEntries, Kept
<1>9. TypeOK'
  BY <1>2, <1>3, <1>5
  DEF TypeOK, DaemonTypes, IngestTypes, CallTypes, ReducerTypes, HistoryTypes,
      CapHolds, Message, Call
<1> QED
  BY <1>5, <1>6, <1>7, <1>8, <1>9 DEF IngestInv

LEMMA NextPreserves ==
  ASSUME IngestionAssumption, IngestInv, Next
  PROVE  IngestInv'
<1>1. /\ DaemonTypes /\ IngestTypes /\ CallTypes /\ ReducerTypes
      /\ CallsHold /\ ClaimsStand
  BY TypesInParts DEF IngestInv
<1>2. CASE DaemonStep \/ ApplyMessage
  <2>1. UNCHANGED <<states, call>>
    BY <1>2
    DEF DaemonStep, Moves, Disconnect, Connect, ApplyMessage, ingestVars
  <2> QED
    BY <2>1, OthersPreserve
<1>3. CASE ReconcileStep
  <2>1. CallMoves(Reconciler) /\ call'[Reconciler].at # "retain"
    BY <1>1, <1>3, ReconcileStepMoves
  <2>2. Reconciler \in Callers
    BY DEF Callers
  <2> QED
    BY <2>1, <2>2, CallerPreserves
<1>4. ASSUME NEW c \in Callers, DiscoverStep(c)
      PROVE  IngestInv'
  <2>1. CallMoves(c) /\ (call'[c].at = "retain" => FinishSubscription(c))
    BY <1>1, <1>4, DiscoverStepMoves
  <2>2. ASSUME FinishSubscription(c)
        PROVE  Kept(snapshot'[call'[c].thread])
    <3>1. call[c].at = "granted" /\ Step(c, "retain")
      BY <2>2 DEF FinishSubscription
    <3>2. call'[c].thread = call[c].thread
      BY <1>1, <3>1, StepKeepsCalls DEF Places, Discovers, Subscribes
    <3>3. call[c].thread \in Threads
      BY <1>1, <3>1 DEF CallsHold, Holding, Discovers, Subscribes
    <3>4. snapshot'[call[c].thread] = Promoted(snapshot[call[c].thread])
      BY <1>1, <2>2, <3>3 DEF FinishSubscription, ReducerTypes
    <3>5. snapshot[call[c].thread] \in Entry
      BY <1>1, <3>3 DEF ReducerTypes
    <3> QED
      BY <3>2, <3>4, <3>5 DEF Promoted, Kept, Entry
  <2> QED
    BY <2>1, <2>2, CallerPreserves
<1> QED
  BY <1>2, <1>3, <1>4 DEF Next

LEMMA IngestInvariant == Spec => []IngestInv
<1> USE IngestionAssumption
<1>1. Init => IngestInv
  BY InitEstablishes
<1>2. IngestInv /\ [Next]_vars => IngestInv'
  <2> SUFFICES ASSUME IngestInv, [Next]_vars
               PROVE  IngestInv'
    OBVIOUS
  <2>1. CASE Next
    BY <2>1, NextPreserves
  <2>2. CASE UNCHANGED vars
    BY <2>2
    DEF vars, daemonVars, ingestVars, gate, reducerVars, history, IngestInv, TypeOK,
        Managed, CallsHold, ClaimsStand, OneSubscribes, PromotedFirst,
        SubscribedRetained
  <2> QED
    BY <2>1, <2>2
<1> QED
  BY <1>1, <1>2, PTL DEF Spec

\* The ingestor's and the reducer's data have their types, and the entries of
\* states that hold a slot (Subscribing, Subscribed, RetryWait) never exceed
\* subscription_cap, whichever tasks claim, retry and give up meanwhile.
THEOREM IngestTypesCorrect == Spec => []TypeOK
<1>1. IngestInv => TypeOK
  BY DEF IngestInv
<1> QED
  BY <1>1, IngestInvariant, PTL

\* discover's claim under the lock of states is exclusive for as long as the
\* call runs its resumes, waits and retries: one call at a time subscribes a
\* thread.
THEOREM OneCallSubscribes == Spec => []OneSubscribes
<1>1. IngestInv => OneSubscribes
  BY DEF IngestInv
<1> QED
  BY <1>1, IngestInvariant, PTL

\* A thread that states calls Subscribed has an entry of the reducer that is
\* there and promoted, past any apply, prune and late cancel_subscription.
THEOREM SubscribedIsRetained == Spec => []SubscribedRetained
<1>1. IngestInv => SubscribedRetained
  BY DEF IngestInv
<1> QED
  BY <1>1, IngestInvariant, PTL

-----------------------------------------------------------------------------
(* Threads with a turn in flight.  Each is settled, in the sense of        *)
(* ActiveDiscovered, or somebody is going to come across it: handle_signal, *)
(* the reconciliation under way, or the next one.                          *)

InHand(t) == \E c \in Callers : call[c].at \in Subscribes /\ call[c].thread = t

\* The daemon has subscribed a connection to the thread.
Joined == live \cup orphans

\* What ActiveDiscovered excuses.
Excused(t) == t \in missed \cup overlooked

Settled(t) == t \in Joined \/ Excused(t) \/ states[t] \in GaveUp \/ InHand(t)

Candidate(t) ==
  \/ t \in todo
  \/ rec.at \in {"probe", "probed", "discover"} /\ rec.thread = t

\* A message on its way tells of a turn of the thread.
Announced(t) ==
  \E i \in 1..Len(wire) : wire[i].thread = t /\ Active(wire[i].version)

\* The reconciliation under way has listed the threads of this connection.
HasListed == rec.at # "idle" /\ listedOn = conn

\* The thread is for a list still to come.  One that is not due yet, or may
\* not come as there has been one, is enough only while the connection is
\* lost or the news of the turn is on its way.
Unlisted(t) == t \in changed /\ ((due /\ ~HasListed) \/ ~up \/ Announced(t))

Covered(t) == Settled(t) \/ t \in signals \/ Candidate(t) \/ Unlisted(t)

\* What states says of a claim is backed by a call, or by the daemon.
Backed ==
  /\ \A t \in Threads :
       /\ states[t] \in {"Subscribing", "RetryWait"} => InHand(t)
       /\ states[t] = "Subscribed" => t \in Joined
  /\ \A c \in Callers :
       call[c].at \in {"granted", "retain"} => call[c].thread \in Joined

DiscoveryInv ==
  /\ Backed
  /\ rec.at \in {"idle", "marking"} => todo = {}
  /\ \A t \in Threads : Active(version[t]) => Covered(t)

LEMMA JoinedStays ==
  ASSUME Next
  PROVE  Joined \subseteq Joined'
<1>1. CASE DaemonStep
  BY <1>1, Zenon DEF DaemonStep, Moves, Disconnect, Connect, Joined, history
<1>2. CASE ApplyMessage
  BY <1>2, Zenon DEF ApplyMessage, Joined
<1>3. CASE ReconcileStep
  BY <1>3, Zenon
  DEF ReconcileStep, Listed, NextCandidate, ProbeServed, ProbeFails, Probed,
      ReconcileDiscovers, ReconcileEnds, Marked, daemonVars, history, Joined
<1>4. CASE \E c \in Callers : DiscoverStep(c)
  BY <1>4
  DEF DiscoverStep, HandleSignal, Observe, BeginSubscription, ResumeGranted,
      ResumeRetried, RetryElapses, ResumeFails, CancelSubscription,
      FinishSubscription, Retain, ReadServed, ReadApplied, ReadFails,
      daemonVars, history, Joined
<1> QED
  BY <1>1, <1>2, <1>3, <1>4 DEF Next

\* A caller holds on to the thread it subscribes until states has the end of
\* it, and what it calls granted the daemon has granted.
HoldsOn(c) ==
  /\ call[c].at \in Subscribes =>
       \/ call'[c].at \in Subscribes /\ call'[c].thread = call[c].thread
       \/ states'[call[c].thread] \in GaveUp \cup {"Subscribed"}
  /\ call'[c].at \in {"granted", "retain"} => call'[c].thread \in Joined'

LEMMA DiscoverHolds ==
  ASSUME IngestionAssumption, CallTypes, NEW c \in Callers, NEW t,
         Discover(c, t), call[c].at \notin Subscribes
  PROVE  HoldsOn(c)
<1>1. CASE Returns(c)
  <2>1. call'[c].at \in {"next", "idle"}
    BY <1>1, ReturnsKeepsCalls
  <2> QED
    BY <2>1 DEF HoldsOn
<1>2. CASE call' = [call EXCEPT ![c] = [At("begin") EXCEPT !.thread = t]]
  <2>1. call'[c].at = "begin"
    BY <1>2 DEF CallTypes, At
  <2> QED
    BY <2>1 DEF HoldsOn
<1> QED
  BY <1>1, <1>2 DEF Discover

LEMMA CallerHolds ==
  ASSUME IngestionAssumption, IngestInv, Backed, Next, NEW c \in Callers,
         DiscoverStep(c)
  PROVE  HoldsOn(c)
<1> DEFINE t == call[c].thread
<1>0. /\ CallTypes /\ IngestTypes /\ CallsHold /\ Joined \subseteq Joined'
      /\ call[c].at \in Subscribes => t \in Threads
      /\ call[c].at \in {"granted", "retain"} => t \in Joined
  BY TypesInParts, JoinedStays
  DEF IngestInv, CallsHold, Holding, Discovers, Backed
<1>1. ASSUME NEW at \in Places, Step(c, at)
      PROVE  call'[c].at = at /\ call'[c].thread = t
  BY <1>0, <1>1, StepKeepsCalls
<1>2. ASSUME Returns(c)
      PROVE  call'[c].at \in {"next", "idle"}
  BY <1>0, <1>2, ReturnsKeepsCalls
<1>3. {"resume", "granted", "wait", "retain", "cancel", "read", "answered"} \subseteq Places
  BY DEF Places, Discovers, Subscribes
<1>4. ASSUME NEW s, Becomes(t, s), t \in Threads
      PROVE  states'[t] = s
  BY <1>0, <1>4 DEF Becomes, IngestTypes
<1> USE DEF HoldsOn, Subscribes
<1>5. CASE HandleSignal(c) \/ Observe(c)
  BY <1>0, <1>5, DiscoverHolds DEF HandleSignal, Observe
<1>6. CASE BeginSubscription(c)
  BY <1>1, <1>3, <1>6 DEF BeginSubscription
<1>7. CASE ResumeGranted(c)
  <2>1. t \in Joined'
    BY <1>7 DEF ResumeGranted, Joined
  <2> QED
    BY <1>1, <1>3, <1>7, <2>1 DEF ResumeGranted
<1>8. CASE ResumeRetried(c)
  <2>1. call'[c].at = "wait" /\ call'[c].thread = t
    BY <1>0, <1>8 DEF ResumeRetried, CallTypes, Call
  <2> QED
    BY <2>1
<1>9. CASE RetryElapses(c)
  BY <1>1, <1>3, <1>9 DEF RetryElapses
<1>10. CASE ResumeFails(c)
  <2>1. call[c].at \in Subscribes /\ Step(c, "cancel")
        /\ (Becomes(t, "Failed") \/ Becomes(t, "Ephemeral"))
    BY <1>10 DEF ResumeFails
  <2>2. states'[t] \in GaveUp
    BY <1>0, <1>4, <2>1 DEF GaveUp
  <2> QED
    BY <1>1, <1>3, <2>1, <2>2
<1>11. CASE CancelSubscription(c)
  BY <1>2, <1>11 DEF CancelSubscription
<1>12. CASE FinishSubscription(c)
  BY <1>0, <1>1, <1>3, <1>12 DEF FinishSubscription
<1>13. CASE Retain(c)
  <2>1. call[c].at \in Subscribes /\ Step(c, "read") /\ Becomes(t, "Subscribed")
    BY <1>13 DEF Retain
  <2> QED
    BY <1>0, <1>1, <1>3, <1>4, <2>1
<1>14. CASE ReadServed(c)
  <2>1. call[c].at = "read" /\ call'[c].at = "answered"
    BY <1>0, <1>14 DEF ReadServed, CallTypes, Call
  <2> QED
    BY <2>1
<1>15. CASE ReadApplied(c) \/ ReadFails(c)
  BY <1>2, <1>15 DEF ReadApplied, ReadFails
<1> QED
  BY <1>5, <1>6, <1>7, <1>8, <1>9, <1>10, <1>11, <1>12, <1>13, <1>14, <1>15
  DEF DiscoverStep

LEMMA ReconcilerHolds ==
  ASSUME IngestionAssumption, IngestInv, ReconcileStep
  PROVE  HoldsOn(Reconciler)
<1> DEFINE c == Reconciler
<1>0. CallTypes /\ c \in Callers
  BY TypesInParts DEF IngestInv, Callers
<1> USE DEF HoldsOn, Subscribes, rec
<1>1. CASE ReconcileDiscovers
  BY <1>0, <1>1, DiscoverHolds DEF ReconcileDiscovers
<1>2. CASE ~ReconcileDiscovers
  <2>1. call[c].at \in {"idle", "next", "probe", "probed", "marking"}
    BY <1>2 DEF ReconcileStep, Listed, NextCandidate, ProbeServed, ProbeFails,
       Probed, ReconcileEnds, Marked
  <2>2. call'[c].at \in {"idle", "next", "probe", "probed", "discover", "marking"}
    <3>1. CASE Returns(c)
      BY <1>0, <3>1, ReturnsKeepsCalls
    <3>2. CASE Listed \/ Probed \/ Marked
      BY <1>0, <3>2, StepKeepsCalls DEF Listed, Probed, Marked, Places, Reconciles
    <3>3. CASE NextCandidate
      BY <1>0, <3>3 DEF NextCandidate, CallTypes, Call
    <3>4. CASE ReconcileEnds
      BY <1>0, <3>4 DEF ReconcileEnds, CallTypes, At
    <3>5. CASE ProbeServed /\ ~Returns(c)
      BY <1>0, <3>5 DEF ProbeServed, CallTypes, Call
    <3> QED
      BY <1>2, <3>1, <3>2, <3>3, <3>4, <3>5 DEF ReconcileStep, ProbeFails
  <2> QED
    BY <2>1, <2>2
<1> QED
  BY <1>1, <1>2

\* A caller's step leaves every claim backed.
LEMMA BackedByCaller ==
  ASSUME IngestionAssumption, IngestInv, Backed, Next, NEW c \in Callers,
         CallMoves(c), HoldsOn(c)
  PROVE  Backed'
<1>0. /\ IngestTypes /\ CallsHold /\ ClaimsStand /\ Joined \subseteq Joined'
      /\ \A d \in Callers \ {c} : call'[d] = call[d]
      /\ Effect(c)
  BY TypesInParts, JoinedStays DEF IngestInv, CallMoves
<1>1. ASSUME NEW d \in Callers, call'[d].at \in {"granted", "retain"}
      PROVE  call'[d].thread \in Joined'
  BY <1>0, <1>1 DEF HoldsOn, Backed
<1>2. ASSUME NEW t \in Threads, states'[t] = "Subscribed"
      PROVE  t \in Joined'
  <2>1. CASE states[t] = "Subscribed"
    BY <1>0, <2>1 DEF Backed
  <2>2. CASE states[t] # "Subscribed"
    <3>1. ASSUME NEW u \in Threads, NEW s, s # "Subscribed"
          PROVE  states' # [states EXCEPT ![u] = s]
      BY <1>0, <1>2, <2>2, <3>1 DEF IngestTypes
    <3>2. PICK s \in State : /\ call[c].at \in Subscribes
                             /\ states' = [states EXCEPT ![call[c].thread] = s]
                             /\ s = "Subscribed" => call[c].at = "retain"
      BY <1>0, <1>2, <2>2, <3>1 DEF Effect
    <3>3. call[c].thread \in Threads
      BY <1>0, <3>2 DEF CallsHold, Holding, Discovers
    <3>4. call[c].thread = t /\ call[c].at = "retain"
      BY <1>0, <1>2, <2>2, <3>2, <3>3 DEF IngestTypes
    <3> QED
      BY <1>0, <3>4 DEF Backed
  <2> QED
    BY <2>1, <2>2
<1>3. ASSUME NEW t \in Threads, states'[t] \in {"Subscribing", "RetryWait"}
      PROVE  InHand(t)'
  <2>1. CASE states[t] \in {"Subscribing", "RetryWait"}
    <3>1. PICK d \in Callers : call[d].at \in Subscribes /\ call[d].thread = t
      BY <2>1 DEF Backed, InHand
    <3>2. call'[d].at \in Subscribes /\ call'[d].thread = t
      BY <1>0, <1>3, <3>1 DEF HoldsOn, GaveUp
    <3> QED
      BY <3>2 DEF InHand
  <2>2. CASE states[t] \notin {"Subscribing", "RetryWait"}
    <3>1. ASSUME NEW u \in Threads, states' = [states EXCEPT ![u] = "CapacityDegraded"]
          PROVE  FALSE
      BY <1>0, <1>3, <2>2, <3>1 DEF IngestTypes
    <3>2. ASSUME call[c].at \in Subscribes, NEW s,
                 states' = [states EXCEPT ![call[c].thread] = s]
          PROVE  FALSE
      <4>1. /\ call[c].thread \in Threads
            /\ states[call[c].thread] \in {"Subscribing", "RetryWait"}
        BY <1>0, <3>2 DEF CallsHold, ClaimsStand, Holding, Discovers
      <4> QED
        BY <1>0, <1>3, <2>2, <3>2, <4>1 DEF IngestTypes
    <3>3. PICK u \in Threads : /\ states' = [states EXCEPT ![u] = "Subscribing"]
                               /\ call'[c].at = "begin" /\ call'[c].thread = u
      BY <1>0, <1>3, <2>2, <3>1, <3>2 DEF Effect
    <3>4. u = t
      BY <1>0, <1>3, <2>2, <3>3 DEF IngestTypes
    <3> QED
      BY <3>3, <3>4 DEF InHand, Subscribes
  <2> QED
    BY <2>1, <2>2
<1> QED
  BY <1>1, <1>2, <1>3 DEF Backed

\* Whatever states says, once it says more than Unseen the thread is settled.
LEMMA DecidedIsSettled ==
  ASSUME Backed, NEW t \in Threads, states[t] \in Retained \cup GaveUp
  PROVE  Settled(t)
BY DEF Backed, Settled, Retained

LEMMA SettledByCaller ==
  ASSUME IngestionAssumption, IngestInv, Backed', Next, NEW c \in Callers,
         CallMoves(c), HoldsOn(c), NEW t \in Threads, Settled(t),
         Excused(t) => Excused(t)'
  PROVE  Settled(t)'
<1>0. /\ IngestTypes /\ CallsHold /\ ClaimsStand /\ Joined \subseteq Joined'
      /\ \A d \in Callers \ {c} : call'[d] = call[d]
      /\ Effect(c)
  BY TypesInParts, JoinedStays DEF IngestInv, CallMoves
<1>1. CASE t \in Joined \/ Excused(t)
  BY <1>0, <1>1 DEF Settled
<1>2. states'[t] \in Retained \cup GaveUp => Settled(t)'
  BY DEF Backed, Settled, Retained
<1>3. CASE states[t] \in GaveUp
  <2>1. ASSUME NEW u \in Threads, NEW s \in {"CapacityDegraded", "Subscribing"},
               states' = [states EXCEPT ![u] = s]
        PROVE  states'[t] \in Retained \cup GaveUp
    BY <1>0, <1>3, <2>1 DEF IngestTypes, Retained, GaveUp
  <2>2. ASSUME call[c].at \in Subscribes, NEW s,
               states' = [states EXCEPT ![call[c].thread] = s]
        PROVE  states'[t] \in Retained \cup GaveUp
    <3>1. /\ call[c].thread \in Threads
          /\ states[call[c].thread] \in {"Subscribing", "RetryWait"}
      BY <1>0, <2>2 DEF CallsHold, ClaimsStand, Holding, Discovers
    <3>2. call[c].thread # t
      BY <1>3, <3>1 DEF GaveUp
    <3> QED
      BY <1>0, <1>3, <2>2, <3>1, <3>2 DEF IngestTypes
  <2> QED
    BY <1>0, <1>2, <1>3, <2>1, <2>2 DEF Effect
<1>4. CASE InHand(t)
  <2>1. PICK d \in Callers : call[d].at \in Subscribes /\ call[d].thread = t
    BY <1>4 DEF InHand
  <2>2. CASE d # c
    BY <1>0, <2>1, <2>2 DEF Settled, InHand
  <2>3. CASE d = c
    <3>1. \/ call'[c].at \in Subscribes /\ call'[c].thread = t
          \/ states'[t] \in GaveUp \cup {"Subscribed"}
      BY <2>1, <2>3 DEF HoldsOn
    <3> QED
      BY <1>2, <3>1 DEF Settled, InHand, Retained
  <2> QED
    BY <2>2, <2>3
<1> QED
  BY <1>1, <1>3, <1>4 DEF Settled

\* discover settles the thread it is called on.
LEMMA DiscoverSettles ==
  ASSUME IngestInv, Backed', NEW c \in Callers, NEW t \in Threads, Discover(c, t)
  PROVE  Settled(t)'
<1>1. IngestTypes
  BY TypesInParts DEF IngestInv
<1>2. states'[t] \in Retained \cup GaveUp
  BY <1>1 DEF Discover, Claimed, Becomes, Retained, GaveUp, IngestTypes
<1> QED
  BY <1>2 DEF Backed, Settled, Retained

\* The reconciler returns to its candidates from whatever it discovers.
LEMMA ReconcilerReturns ==
  ASSUME CallTypes, Returns(Reconciler)
  PROVE  call'[Reconciler].at = "next"
  BY DEF Returns, CallTypes, At, Callers

LEMMA ReconcilerDiscovers ==
  ASSUME IngestionAssumption, CallTypes, DiscoverStep(Reconciler)
  PROVE  /\ rec.at \notin {"idle", "probe", "probed", "discover"}
         /\ call'[Reconciler].at \notin {"idle", "marking"}
<1> DEFINE c == Reconciler
<1>0. c \in Callers
  BY DEF Callers
<1>1. ASSUME NEW at \in {"resume", "granted", "retain", "cancel", "read"}, Step(c, at)
      PROVE  call'[c].at \notin {"idle", "marking"}
  <2>1. at \in Places
    BY <1>1 DEF Places, Discovers, Subscribes
  <2> QED
    BY <1>0, <1>1, <2>1, StepKeepsCalls
<1>2. ~HandleSignal(c) /\ ~Observe(c)
  BY DEF HandleSignal, Observe
<1>3. rec.at \notin {"idle", "probe", "probed", "discover"}
  BY <1>2
  DEF rec, DiscoverStep, BeginSubscription, ResumeGranted, ResumeRetried,
      RetryElapses, ResumeFails, CancelSubscription, FinishSubscription,
      Retain, ReadServed, ReadApplied, ReadFails
<1>4. ASSUME \/ BeginSubscription(c) \/ ResumeGranted(c) \/ RetryElapses(c)
             \/ ResumeFails(c) \/ FinishSubscription(c) \/ Retain(c)
      PROVE  call'[c].at \notin {"idle", "marking"}
  BY <1>1, <1>4
  DEF BeginSubscription, ResumeGranted, RetryElapses, ResumeFails,
      FinishSubscription, Retain
<1>5. ASSUME CancelSubscription(c) \/ ReadApplied(c) \/ ReadFails(c)
      PROVE  call'[c].at \notin {"idle", "marking"}
  BY <1>0, <1>5, ReconcilerReturns DEF CancelSubscription, ReadApplied, ReadFails
<1>6. ASSUME ResumeRetried(c) \/ ReadServed(c)
      PROVE  call'[c].at \notin {"idle", "marking"}
  BY <1>0, <1>6 DEF ResumeRetried, ReadServed, CallTypes, Call
<1> QED
  BY <1>2, <1>3, <1>4, <1>5, <1>6 DEF DiscoverStep

LEMMA DiscoveryByCaller ==
  ASSUME IngestionAssumption, IngestInv, DiscoveryInv, NEW c \in Callers,
         DiscoverStep(c)
  PROVE  DiscoveryInv'
<1>0. /\ DaemonTypes /\ CallTypes /\ IngestTypes /\ CallsHold /\ ClaimsStand
      /\ Backed /\ Next
  BY TypesInParts DEF IngestInv, DiscoveryInv, Next
<1>1. CallMoves(c) /\ HoldsOn(c) /\ Backed'
  BY <1>0, DiscoverStepMoves, CallerHolds, BackedByCaller
<1>2. /\ UNCHANGED <<version, conn, up, wire, changed, todo>>
      /\ UNCHANGED <<due, listedOn, overlooked>>
      /\ missed' = missed
  BY DEF DiscoverStep, HandleSignal, Observe, BeginSubscription, ResumeGranted,
     ResumeRetried, RetryElapses, ResumeFails, CancelSubscription,
     FinishSubscription, Retain, ReadServed, ReadApplied, ReadFails,
     daemonVars, gate, history
<1>3. c # Reconciler => call'[Reconciler] = call[Reconciler]
  BY <1>1 DEF CallMoves, Callers
<1>4. rec'.at \in {"idle", "marking"} => todo' = {}
  BY <1>0, <1>2, <1>3, ReconcilerDiscovers DEF DiscoveryInv, rec
<1>5. ASSUME NEW t \in Threads, Active(version'[t])
      PROVE  Covered(t)'
  <2>1. Covered(t)
    BY <1>2, <1>5 DEF DiscoveryInv
  <2>2. CASE Settled(t)
    BY <1>0, <1>1, <1>2, <2>2, SettledByCaller DEF Covered, Excused
  <2>3. CASE t \in signals
    <3>1. CASE HandleSignal(c)
      <4>1. PICK u \in signals : Discover(c, u) /\ signals' = signals \ {u}
        BY <3>1 DEF HandleSignal
      <4>2. u = t => Settled(t)'
        BY <1>1, <4>1, DiscoverSettles
      <4> QED
        BY <2>3, <4>1, <4>2 DEF Covered
    <3>2. CASE ~HandleSignal(c)
      <4>1. signals' = signals
        BY <3>2
        DEF DiscoverStep, Observe, BeginSubscription, ResumeGranted,
            ResumeRetried, RetryElapses, ResumeFails, CancelSubscription,
            FinishSubscription, Retain, ReadServed, ReadApplied, ReadFails
      <4> QED
        BY <2>3, <4>1 DEF Covered
    <3> QED
      BY <3>1, <3>2
  <2>4. CASE Candidate(t)
    BY <1>0, <1>2, <1>3, <2>4, ReconcilerDiscovers DEF Covered, Candidate, rec
  <2>5. CASE Unlisted(t)
    <3>1. HasListed' => HasListed
      BY <1>0, <1>2, <1>3, ReconcilerDiscovers DEF HasListed, rec
    <3> QED
      BY <1>2, <2>5, <3>1 DEF Covered, Unlisted, Announced
  <2> QED
    BY <2>1, <2>2, <2>3, <2>4, <2>5 DEF Covered
<1> QED
  BY <1>1, <1>4, <1>5 DEF DiscoveryInv

LEMMA DiscoveryByReconciler ==
  ASSUME IngestionAssumption, IngestInv, DiscoveryInv, ReconcileStep
  PROVE  DiscoveryInv'
<1> DEFINE c == Reconciler
<1>0. /\ DaemonTypes /\ CallTypes /\ IngestTypes /\ CallsHold /\ ClaimsStand
      /\ Backed /\ Next /\ c \in Callers
  BY TypesInParts DEF IngestInv, DiscoveryInv, Next, Callers
<1>1. CallMoves(c) /\ HoldsOn(c) /\ Backed'
  BY <1>0, ReconcileStepMoves, ReconcilerHolds, BackedByCaller
<1>2. UNCHANGED <<version, conn, up, wire, signals>> /\ missed \subseteq missed'
  BY DEF ReconcileStep, Listed, NextCandidate, ProbeServed, ProbeFails, Probed,
     ReconcileDiscovers, ReconcileEnds, Marked, daemonVars, history
<1>3. ASSUME NEW t \in Threads, Settled(t), Excused(t) => Excused(t)'
      PROVE  Settled(t)'
  BY <1>0, <1>1, <1>2, <1>3, SettledByCaller
<1>4. \A t \in Threads : Announced(t)' <=> Announced(t)
  BY <1>2 DEF Announced
\* It suffices to look at a thread that was a candidate, or for the next list,
\* while the histories lose nothing.
<1>5. ASSUME rec'.at \in {"idle", "marking"} => todo' = {},
             \A t \in Threads : Excused(t) => Excused(t)',
             \A t \in Threads :
               Active(version[t]) /\ (Candidate(t) \/ Unlisted(t)) => Covered(t)'
      PROVE  DiscoveryInv'
  BY <1>1, <1>2, <1>3, <1>5 DEF DiscoveryInv, Covered
<1>6. CASE Listed
  <2>1. /\ rec.at = "idle" /\ todo = {} /\ todo' = changed
        /\ call'[c].at = "next" /\ UNCHANGED missed
    BY <1>0, <1>6, StepKeepsCalls
    DEF Listed, DiscoveryInv, Places, Reconciles, history
  <2>2. \A t \in Threads : t \in changed => Candidate(t)'
    BY <2>1 DEF Candidate
  <2>3. ASSUME NEW t \in Threads, Settled(t), t \notin changed
        PROVE  Settled(t)'
    <3>1. t \notin overlooked
      BY <1>0, <2>3 DEF IngestTypes
    <3> QED
      BY <1>3, <2>1, <2>3, <3>1 DEF Excused
  <2>4. ASSUME NEW t \in Threads, Active(version'[t])
        PROVE  Covered(t)'
    <3>1. Covered(t)
      BY <1>2, <2>4 DEF DiscoveryInv
    <3>2. ~Candidate(t) /\ (t \in signals => t \in signals')
      BY <1>2, <2>1 DEF Candidate
    <3> QED
      BY <2>2, <2>3, <3>1, <3>2 DEF Covered, Unlisted
  <2> QED
    BY <1>1, <2>1, <2>4 DEF DiscoveryInv, rec
<1>7. ASSUME UNCHANGED <<changed, gate>>, rec.at # "idle",
             rec'.at \in {"idle", "marking"} => todo' = {},
             \A t \in Threads :
               Active(version[t]) /\ Candidate(t) => Covered(t)'
      PROVE  DiscoveryInv'
  <2>1. \A t \in Threads : Unlisted(t) => Covered(t)'
    BY <1>2, <1>4, <1>7 DEF Unlisted, Covered, HasListed, gate
  <2> QED
    BY <1>2, <1>5, <1>7, <2>1 DEF Excused, gate
<1>8. CASE NextCandidate
  <2>1. PICK u \in todo : /\ todo' = todo \ {u}
                          /\ call' = [call EXCEPT ![c].at = "probe", ![c].thread = u]
    BY <1>8 DEF NextCandidate
  <2>2. call'[c].at = "probe" /\ call'[c].thread = u
    BY <1>0, <2>1 DEF CallTypes, Call
  <2>3. rec.at = "next" /\ UNCHANGED <<changed, gate>>
    BY <1>8 DEF NextCandidate
  <2> QED
    BY <1>7, <2>1, <2>2, <2>3 DEF rec, Candidate, Covered
<1>9. CASE ProbeServed
  <2>1. rec.at = "probe" /\ UNCHANGED <<changed, gate, todo>>
    BY <1>9 DEF ProbeServed
  <2>2. CASE Active(version[rec.thread])
    <3>1. call'[c].at = "probed" /\ call'[c].thread = rec.thread
      BY <1>0, <1>9, <2>2 DEF ProbeServed, CallTypes, Call, rec
    <3> QED
      BY <1>7, <2>1, <3>1 DEF rec, Candidate, Covered
  <2>3. CASE ~Active(version[rec.thread])
    <3>1. call'[c].at = "next"
      BY <1>0, <1>9, <2>3, ReconcilerReturns DEF ProbeServed
    <3> QED
      BY <1>7, <2>1, <2>3, <3>1 DEF rec, Candidate, Covered
  <2> QED
    BY <2>2, <2>3
<1>10. CASE ProbeFails
  <2>1. /\ rec.at \in {"probe", "probed"} /\ UNCHANGED <<changed, gate, todo>>
        /\ missed' = missed \cup {rec.thread}
        /\ call'[c].at = "next"
    BY <1>0, <1>10, ReconcilerReturns DEF ProbeFails
  <2> QED
    BY <1>7, <2>1 DEF rec, Candidate, Covered, Settled, Excused
<1>11. CASE Probed
  <2>1. /\ rec.at = "probed" /\ UNCHANGED <<changed, gate, todo>>
        /\ call'[c].at = "discover" /\ call'[c].thread = rec.thread
    BY <1>0, <1>11, StepKeepsCalls DEF Probed, Places, Reconciles, rec
  <2> QED
    BY <1>7, <2>1 DEF rec, Candidate, Covered
<1>12. CASE ReconcileDiscovers
  <2>1. /\ rec.at = "discover" /\ UNCHANGED <<changed, gate, todo>>
        /\ Discover(c, rec.thread) /\ rec.thread \in Threads
    BY <1>0, <1>12 DEF ReconcileDiscovers, CallsHold, Holding, rec
  <2>2. \A t \in Threads : t = rec.thread => Settled(t)'
    BY <1>0, <1>1, <2>1, DiscoverSettles
  <2>3. call'[c].at \notin {"idle", "marking"}
    BY <1>0, <2>1, ReconcilerReturns DEF Discover, CallTypes, At
  <2> QED
    BY <1>7, <2>1, <2>2, <2>3 DEF rec, Candidate, Covered
<1>13. CASE ReconcileEnds
  <2>1. /\ rec.at = "next" /\ todo = {} /\ todo' = {}
        /\ UNCHANGED <<changed, gate>>
    BY <1>13 DEF ReconcileEnds
  <2> QED
    BY <1>7, <2>1 DEF Candidate
\* A mark of this connection's list closes what has no list to come; that of
\* an earlier one excuses it.
<1>14. CASE Marked
  <2>1. /\ rec.at = "marking" /\ todo = {} /\ todo' = {}
        /\ call'[c].at = "idle" /\ UNCHANGED <<changed, listedOn, missed>>
    BY <1>0, <1>14, StepKeepsCalls
    DEF Marked, DiscoveryInv, Places, Reconciles, history
  <2>2. /\ up => overlooked' = IF listedOn = conn THEN overlooked ELSE changed
        /\ ~up => UNCHANGED <<due, overlooked>>
    BY <1>14 DEF Marked
  <2>3. overlooked \subseteq overlooked'
    BY <1>0, <2>2 DEF IngestTypes
  <2>4. ASSUME NEW t \in Threads, Unlisted(t)
        PROVE  Covered(t)'
    <3>1. CASE ~up \/ Announced(t)
      BY <1>2, <1>4, <2>1, <2>4, <3>1 DEF Unlisted, Covered
    <3>2. CASE up /\ ~Announced(t)
      <4>1. t \in changed /\ listedOn # conn
        BY <2>1, <2>4, <3>2 DEF Unlisted, HasListed
      <4> QED
        BY <2>2, <3>2, <4>1 DEF Covered, Settled, Excused
    <3> QED
      BY <3>1, <3>2
  <2>5. \A t \in Threads : ~Candidate(t)
    BY <2>1 DEF Candidate
  <2> QED
    BY <1>5, <2>1, <2>3, <2>4, <2>5 DEF Excused
<1> QED
  BY <1>6, <1>8, <1>9, <1>10, <1>11, <1>12, <1>13, <1>14 DEF ReconcileStep

\* The wire, when a message is sent, taken, or lost with the connection.
LEMMA MessageSent ==
  ASSUME DaemonTypes, NEW m \in Message
  PROVE  /\ Len(Append(wire, m)) = Len(wire) + 1 /\ Len(wire) \in Nat
         /\ \A i \in 1..Len(wire) : Append(wire, m)[i] = wire[i]
         /\ Append(wire, m)[Len(wire) + 1] = m
         /\ 1..(Len(wire) + 1) = (1..Len(wire)) \cup {Len(wire) + 1}
  BY DEF DaemonTypes

LEMMA MessageTaken ==
  ASSUME DaemonTypes, wire # <<>>
  PROVE  /\ Len(wire) \in Nat \ {0} /\ Len(Tail(wire)) = Len(wire) - 1
         /\ Head(wire) = wire[1]
         /\ \A i \in 1..Len(Tail(wire)) :
              i + 1 \in 1..Len(wire) /\ Tail(wire)[i] = wire[i + 1]
         /\ \A i \in 1..Len(wire) :
              i # 1 => i - 1 \in 1..Len(Tail(wire)) /\ Tail(wire)[i - 1] = wire[i]
<1>1. /\ Len(wire) \in Nat \ {0} /\ Len(Tail(wire)) = Len(wire) - 1
      /\ Head(wire) = wire[1]
      /\ \A i \in 1..Len(Tail(wire)) :
           i + 1 \in 1..Len(wire) /\ Tail(wire)[i] = wire[i + 1]
  BY DEF DaemonTypes
<1>2. ASSUME NEW i \in 1..Len(wire), i # 1
      PROVE  i - 1 \in 1..Len(Tail(wire)) /\ Tail(wire)[i - 1] = wire[i]
  <2>1. i - 1 \in 1..Len(Tail(wire)) /\ (i - 1) + 1 = i
    BY <1>1, <1>2
  <2> QED
    BY <1>1, <2>1
<1> QED
  BY <1>1, <1>2

LEMMA SettledElsewhere ==
  ASSUME UNCHANGED <<states, call>>, Joined \subseteq Joined',
         NEW t \in Threads, Settled(t), Excused(t) => Excused(t)'
  PROVE  Settled(t)'
  BY DEF Settled, InHand

\* A turn that starts is told of, or is for a list of the next connection.
LEMMA DiscoveryByDaemon ==
  ASSUME IngestionAssumption, IngestInv, DiscoveryInv, DaemonStep
  PROVE  DiscoveryInv'
<1>0. /\ DaemonTypes /\ IngestTypes /\ CallTypes /\ Joined \subseteq Joined'
      /\ UNCHANGED <<states, call, todo, signals>>
  BY TypesInParts, JoinedStays
  DEF IngestInv, Next, DaemonStep, Moves, Disconnect, Connect, ingestVars
<1>1. Backed' /\ (rec'.at \in {"idle", "marking"} => todo' = {})
  BY <1>0 DEF DiscoveryInv, Backed, InHand, rec
<1>2. ASSUME NEW t \in Threads, Candidate(t) \/ t \in signals
      PROVE  Covered(t)'
  BY <1>0, <1>2 DEF Candidate, Covered, rec
<1>3. ASSUME \A t \in Threads : Active(version'[t]) => Covered(t)'
      PROVE  DiscoveryInv'
  BY <1>1, <1>3 DEF DiscoveryInv
<1>4. CASE Disconnect
  <2>1. ASSUME NEW t \in Threads, Active(version'[t])
        PROVE  Covered(t)'
    <3>1. /\ Covered(t) /\ ~up'
          /\ UNCHANGED <<version, changed, missed, overlooked>>
      BY <1>4, <2>1 DEF Disconnect, DiscoveryInv, ingestVars, gate
    <3>2. Settled(t) => Settled(t)'
      BY <1>0, <3>1, SettledElsewhere DEF Excused
    <3> QED
      BY <1>2, <3>1, <3>2 DEF Covered, Unlisted
  <2> QED
    BY <1>3, <2>1
<1>5. CASE Connect
  <2>1. ASSUME NEW t \in Threads, Active(version'[t])
        PROVE  Covered(t)'
    <3>1. /\ Covered(t) /\ due'
          /\ UNCHANGED <<version, changed, missed, overlooked>>
      BY <1>5, <2>1 DEF Connect, DiscoveryInv, history
    <3>2. Settled(t) => Settled(t)'
      BY <1>0, <3>1, SettledElsewhere DEF Excused
    <3>3. listedOn' # conn'
      BY <1>0, <1>5 DEF Connect, IngestTypes, DaemonTypes
    <3> QED
      BY <1>2, <3>1, <3>2, <3>3 DEF Covered, Unlisted, HasListed
  <2> QED
    BY <1>3, <2>1
<1>6. ASSUME NEW u \in Threads, Moves(u)
      PROVE  DiscoveryInv'
  <2> DEFINE m == [thread |-> u, version |-> version[u] + 1,
                   told |-> u \in live, on |-> conn]
  <2>1. /\ version[u] + 1 \in Versions
        /\ version' = [version EXCEPT ![u] = version[u] + 1]
        /\ changed' = changed \cup {u} /\ missed' = missed \ {u}
        /\ overlooked' = overlooked \ {u}
        /\ UNCHANGED <<conn, up, due, listedOn>>
        /\ up => wire' = Append(wire, m)
        /\ ~up => wire' = wire
    BY <1>0, <1>6 DEF Moves, DaemonTypes, Versions, IngestionAssumption
  <2>2. m \in Message
    <3> DEFINE told == u \in live
    <3>1. told \in BOOLEAN
      OBVIOUS
    <3> HIDE DEF told
    <3>2. [thread |-> u, version |-> version[u] + 1, told |-> told,
           on |-> conn] \in Message
      BY <1>0, <2>1, <3>1 DEF Message, DaemonTypes
    <3> QED
      BY <3>2, Zenon DEF told
  <2>3. m.thread = u /\ m.version = version[u] + 1
    OBVIOUS
  <2> HIDE DEF m
  <2>4. \A t \in Threads : Announced(t) => Announced(t)'
    BY <1>0, <2>1, <2>2, MessageSent DEF Announced
  <2>5. Active(version[u] + 1) => Unlisted(u)'
    <3>1. CASE up
      <4>1. /\ wire' = Append(wire, m) /\ Len(wire') = Len(wire) + 1
            /\ Len(wire) \in Nat /\ wire'[Len(wire) + 1] = m
        BY <1>0, <2>1, <2>2, <3>1, MessageSent
      <4>2. Active(version[u] + 1) => Announced(u)'
        BY <2>3, <4>1 DEF Announced
      <4> QED
        BY <2>1, <4>2 DEF Unlisted
    <3>2. CASE ~up
      BY <2>1, <3>2 DEF Unlisted
    <3> QED
      BY <3>1, <3>2
  <2>6. ASSUME NEW t \in Threads, Active(version'[t])
        PROVE  Covered(t)'
    <3>1. CASE t = u
      BY <1>0, <2>1, <2>5, <2>6, <3>1 DEF Covered, DaemonTypes
    <3>2. CASE t # u
      <4>1. Covered(t) /\ (Excused(t) => Excused(t)')
        BY <1>0, <2>1, <2>6, <3>2 DEF DiscoveryInv, DaemonTypes, Excused
      <4>2. Settled(t) => Settled(t)'
        BY <1>0, <4>1, SettledElsewhere
      <4>3. Unlisted(t) => Unlisted(t)'
        BY <1>0, <2>1, <2>4 DEF Unlisted, HasListed, rec
      <4> QED
        BY <1>2, <4>1, <4>2, <4>3 DEF Covered
    <3> QED
      BY <3>1, <3>2
  <2> QED
    BY <1>3, <2>6
<1> QED
  BY <1>4, <1>5, <1>6 DEF DaemonStep

\* The news of a turn becomes a signal when it is applied.
LEMMA DiscoveryByMessage ==
  ASSUME IngestionAssumption, IngestInv, DiscoveryInv, ApplyMessage
  PROVE  DiscoveryInv'
<1>0. /\ DaemonTypes /\ wire # <<>> /\ wire' = Tail(wire)
      /\ UNCHANGED <<version, live, conn, up, states, call, changed, todo>>
      /\ UNCHANGED <<due, listedOn, overlooked, orphans, missed>>
      /\ signals' = IF Signalled(Head(wire).version)
                    THEN signals \cup {Head(wire).thread} ELSE signals
  BY TypesInParts DEF IngestInv, ApplyMessage, gate
<1>1. Backed' /\ (rec'.at \in {"idle", "marking"} => todo' = {})
  BY <1>0 DEF DiscoveryInv, Backed, InHand, Joined, rec
<1>2. ASSUME NEW t \in Threads, Announced(t)
      PROVE  Announced(t)' \/ t \in signals'
  <2>1. PICK i \in 1..Len(wire) : wire[i].thread = t /\ Active(wire[i].version)
    BY <1>2 DEF Announced
  <2>2. CASE i = 1
    BY <1>0, <2>1, <2>2, MessageTaken DEF Signalled
  <2>3. CASE i # 1
    BY <1>0, <2>1, <2>3, MessageTaken DEF Announced
  <2> QED
    BY <2>2, <2>3
<1>3. ASSUME NEW t \in Threads, Active(version'[t])
      PROVE  Covered(t)'
  <2>1. Covered(t)
    BY <1>0, <1>3 DEF DiscoveryInv
  <2>2. Settled(t) => Settled(t)'
    BY <1>0 DEF Settled, InHand, Joined, Excused
  <2>3. Candidate(t) \/ t \in signals => Covered(t)'
    BY <1>0 DEF Candidate, Covered, rec
  <2>4. Unlisted(t) => Covered(t)'
    BY <1>0, <1>2 DEF Unlisted, Covered, HasListed, rec
  <2> QED
    BY <2>1, <2>2, <2>3, <2>4 DEF Covered
<1> QED
  BY <1>1, <1>3 DEF DiscoveryInv

LEMMA DiscoveryStart ==
  ASSUME IngestionAssumption, Init
  PROVE  DiscoveryInv
<1>1. \A c \in Callers : call[c].at = "idle"
  BY DEF Init, At
<1>2. Backed
  BY <1>1 DEF Init, Backed
<1>3. \A t \in Threads : Active(version[t]) => Unlisted(t)
  BY DEF Init, Unlisted, HasListed, Active
<1> QED
  BY <1>2, <1>3 DEF DiscoveryInv, Covered, Init

\* Everything the library does to come across a turn in flight ends in a
\* subscription, in states giving the thread up, or in a read that failed.
LEMMA DiscoverySettles ==
  ASSUME IngestInv, DiscoveryInv
  PROVE  ActiveDiscovered
<1> SUFFICES ASSUME Quiet, NEW t \in Threads, Active(version[t])
             PROVE  t \in Joined \/ Excused(t) \/ states[t] \in GaveUp
  BY DEF ActiveDiscovered, Joined, Excused
<1>1. \A c \in Callers : call[c].at = "idle"
  BY DEF Quiet
<1>2. rec.at = "idle" /\ todo = {} /\ signals = {}
  BY <1>1 DEF Quiet, DiscoveryInv, rec, Callers
<1>3. ~InHand(t)
  BY <1>1 DEF InHand, Subscribes
<1>4. ~Announced(t)
  BY DEF Quiet, Announced
<1>5. ~Candidate(t) /\ ~Unlisted(t)
  BY <1>2, <1>4 DEF Candidate, Unlisted, Quiet
<1> QED
  BY <1>2, <1>3, <1>5 DEF DiscoveryInv, Covered, Settled

\* README, "The library discovers work from multiple signals": nothing falls
\* between the signals, the watermark, the list under way and a connection
\* that is lost at any point of them, up to the mark it reopens the gate
\* with: the mark of an earlier connection's list leaves behind only threads
\* that changed since that list and have not moved on this connection.  For
\* any threads, callers, cap, retry limit and number of connections.
THEOREM NobodyOverlooked == Spec => []ActiveDiscovered
<1> USE IngestionAssumption
<1>1. Init => DiscoveryInv
  BY DiscoveryStart
<1>2. IngestInv /\ DiscoveryInv /\ [Next]_vars => DiscoveryInv'
  <2> SUFFICES ASSUME IngestInv, DiscoveryInv, [Next]_vars
               PROVE  DiscoveryInv'
    OBVIOUS
  <2>1. CASE UNCHANGED vars
    BY <2>1, Zenon
    DEF vars, daemonVars, ingestVars, history, DiscoveryInv, Backed, Covered,
        Settled, InHand, Joined, Excused, Candidate, Unlisted, HasListed,
        Announced, gate, rec
  <2> QED
    BY <2>1, DiscoveryByDaemon, DiscoveryByMessage, DiscoveryByReconciler,
       DiscoveryByCaller DEF Next
<1>3. IngestInv /\ DiscoveryInv => ActiveDiscovered
  BY DiscoverySettles
<1> QED
  BY <1>1, <1>2, <1>3, IngestInvariant, PTL DEF Spec

-----------------------------------------------------------------------------
(* The turn of a subscribed thread.  A connection that subscribed to the   *)
(* thread is told of all its versions in order, so that what the reducer   *)
(* has heard last and what is on its way make up the present turn, unless  *)
(* a version came late (doubt).                                            *)

\* The messages w tell connection c that thread t is at version v.
Tells(w, c, t, v) ==
  \E i \in 1..Len(w) : /\ w[i].thread = t /\ w[i].version = v
                       /\ w[i].told /\ w[i].on = c

InOrder(w) ==
  \A i, j \in 1..Len(w) :
    i < j /\ w[i].thread = w[j].thread => w[i].version < w[j].version

\* No message is ahead of the threads' versions ver or of connection c.
NotAhead(w, ver, c) ==
  \A i \in 1..Len(w) : w[i].version <= ver[w[i].thread] /\ w[i].on <= c

\* Everything that happened to t after version v is on its way.
Follows(t, v) ==
  \A w \in Versions : v < w /\ w <= version[t] => Tells(wire, conn, t, w)

\* A connection is told of a thread only once it is subscribed to it, and
\* then of everything that happens to it.
ToldInv ==
  /\ ~up => live = {}
  /\ InOrder(wire)
  /\ NotAhead(wire, version, conn)
  /\ up => \A t \in Threads : \A v \in Versions :
             Tells(wire, conn, t, v) => t \in live /\ Follows(t, v)

\* The answer that c holds, unless the reducer has heard of a newer version,
\* and what follows it make up the present.
AnswerOf(c) ==
  /\ call[c].at \in {"read", "answered"} => states[call[c].thread] = "Subscribed"
  /\ call[c].at \in {"answered", "probed"} =>
       call[c].answer <= version[call[c].thread]
  /\ call[c].at = "answered" /\ call[c].thread \in live
       /\ newest[call[c].thread] <= call[c].answer
       => Follows(call[c].thread, call[c].answer)

Reading(t) ==
  \E c \in Callers : call[c].at \in {"read", "answered"} /\ call[c].thread = t

\* The read after the subscription has been applied, or has failed.
ReadDone(t) == states[t] = "Subscribed" /\ ~Reading(t)

Synced(t) == snapshot[t].turn = TurnOf(newest[t]) /\ Follows(t, newest[t])

KnowInv ==
  /\ ToldInv
  /\ \A c \in Callers : AnswerOf(c)
  /\ \A t \in Threads : newest[t] <= version[t]
  /\ \A t \in live : ReadDone(t) /\ doubt[t] = "none" => Synced(t)

\* The queue q of messages, when one more is sent.
LEMMA OneMoreTold ==
  ASSUME NEW q \in Seq(Message), NEW m \in Message
  PROVE  /\ \A c, t, v : Tells(Append(q, m), c, t, v) <=>
              \/ Tells(q, c, t, v)
              \/ m.thread = t /\ m.version = v /\ m.told /\ m.on = c
         /\ (/\ InOrder(q)
             /\ \A i \in 1..Len(q) : q[i].thread = m.thread => q[i].version < m.version)
            => InOrder(Append(q, m))
<1>1. /\ Len(Append(q, m)) = Len(q) + 1 /\ Len(q) \in Nat
      /\ \A i \in 1..Len(q) : Append(q, m)[i] = q[i]
      /\ Append(q, m)[Len(q) + 1] = m
      /\ 1..(Len(q) + 1) = (1..Len(q)) \cup {Len(q) + 1}
  OBVIOUS
<1>2. ASSUME NEW c, NEW t, NEW v
      PROVE  Tells(Append(q, m), c, t, v) <=>
              \/ Tells(q, c, t, v)
              \/ m.thread = t /\ m.version = v /\ m.told /\ m.on = c
  BY <1>1, Zenon DEF Tells
<1>3. ASSUME InOrder(q),
             \A i \in 1..Len(q) : q[i].thread = m.thread => q[i].version < m.version
      PROVE  InOrder(Append(q, m))
  <2> DEFINE a == Append(q, m)
  <2> SUFFICES ASSUME NEW i \in 1..Len(a), NEW j \in 1..Len(a), i < j,
                      a[i].thread = a[j].thread
               PROVE  a[i].version < a[j].version
    BY DEF InOrder
  <2>1. i \in 1..Len(q) /\ a[i] = q[i]
    BY <1>1
  <2>2. CASE j \in 1..Len(q)
    BY <1>1, <1>3, <2>1, <2>2 DEF InOrder
  <2>3. CASE j = Len(q) + 1
    BY <1>1, <1>3, <2>1, <2>3
  <2> QED
    BY <1>1, <2>2, <2>3
<1> QED
  BY <1>2, <1>3

\* When its head is taken.
LEMMA OneLessTold ==
  ASSUME NEW q \in Seq(Message), q # <<>>
  PROVE  /\ \A c, t, v : Tells(q, c, t, v) <=>
              \/ Tells(Tail(q), c, t, v)
              \/ /\ Head(q).thread = t /\ Head(q).version = v
                 /\ Head(q).told /\ Head(q).on = c
         /\ InOrder(q) =>
              /\ InOrder(Tail(q))
              /\ \A c, v : Tells(Tail(q), c, Head(q).thread, v) => Head(q).version < v
<1>1. /\ Len(q) \in Nat \ {0} /\ Len(Tail(q)) = Len(q) - 1 /\ Head(q) = q[1]
      /\ \A i \in 1..Len(Tail(q)) : i + 1 \in 1..Len(q) /\ Tail(q)[i] = q[i + 1]
  OBVIOUS
<1>2. ASSUME NEW i \in 1..Len(q), i # 1
      PROVE  i - 1 \in 1..Len(Tail(q)) /\ Tail(q)[i - 1] = q[i]
  <2>1. i - 1 \in 1..Len(Tail(q)) /\ (i - 1) + 1 = i
    BY <1>1, <1>2
  <2> QED
    BY <1>1, <2>1
<1>3. 1 \in 1..Len(q)
  BY <1>1
<1>4. ASSUME NEW c, NEW t, NEW v
      PROVE  Tells(q, c, t, v) <=>
              \/ Tells(Tail(q), c, t, v)
              \/ /\ Head(q).thread = t /\ Head(q).version = v
                 /\ Head(q).told /\ Head(q).on = c
  <2>1. Tells(Tail(q), c, t, v) => Tells(q, c, t, v)
    BY <1>1, Zenon DEF Tells
  <2>2. /\ Head(q).thread = t /\ Head(q).version = v
        /\ Head(q).told /\ Head(q).on = c
        => Tells(q, c, t, v)
    BY <1>1, <1>3 DEF Tells
  <2>3. ASSUME NEW i \in 1..Len(q), q[i].thread = t, q[i].version = v,
               q[i].told, q[i].on = c
        PROVE  \/ Tells(Tail(q), c, t, v)
               \/ /\ Head(q).thread = t /\ Head(q).version = v
                  /\ Head(q).told /\ Head(q).on = c
    <3>1. CASE i = 1
      BY <1>1, <2>3, <3>1
    <3>2. CASE i # 1
      BY <1>2, <2>3, <3>2, Zenon DEF Tells
    <3> QED
      BY <3>1, <3>2
  <2> QED
    BY <2>1, <2>2, <2>3 DEF Tells
<1>5. ASSUME InOrder(q)
      PROVE  InOrder(Tail(q))
  <2> DEFINE a == Tail(q)
  <2> SUFFICES ASSUME NEW i \in 1..Len(a), NEW j \in 1..Len(a), i < j,
                      a[i].thread = a[j].thread
               PROVE  a[i].version < a[j].version
    BY DEF InOrder
  <2>1. /\ i + 1 \in 1..Len(q) /\ a[i] = q[i + 1]
        /\ j + 1 \in 1..Len(q) /\ a[j] = q[j + 1] /\ i + 1 < j + 1
    BY <1>1
  <2> QED
    BY <1>5, <2>1 DEF InOrder
<1>6. ASSUME InOrder(q), NEW c, NEW v, Tells(Tail(q), c, Head(q).thread, v)
      PROVE  Head(q).version < v
  <2>1. PICK i \in 1..Len(Tail(q)) : /\ Tail(q)[i].thread = Head(q).thread
                                     /\ Tail(q)[i].version = v
    BY <1>6 DEF Tells
  <2>2. /\ i + 1 \in 1..Len(q) /\ 1 < i + 1
        /\ q[i + 1].thread = q[1].thread /\ q[i + 1].version = v
    BY <1>1, <2>1
  <2>3. q[1].version < q[i + 1].version
    BY <1>3, <1>6, <2>2 DEF InOrder
  <2> QED
    BY <1>1, <2>2, <2>3
<1> QED
  BY <1>4, <1>5, <1>6

\* When it is cut.
LEMMA CutInOrder ==
  ASSUME NEW q \in Seq(Message), NEW n \in 0..Len(q), InOrder(q)
  PROVE  /\ InOrder(SubSeq(q, 1, n))
         /\ \A i \in 1..Len(SubSeq(q, 1, n)) :
              i \in 1..Len(q) /\ SubSeq(q, 1, n)[i] = q[i]
<1> DEFINE a == SubSeq(q, 1, n)
<1>1. \A i \in 1..Len(a) : i \in 1..Len(q) /\ a[i] = q[i]
  OBVIOUS
<1>2. InOrder(a)
  BY <1>1 DEF InOrder
<1> QED
  BY <1>1, <1>2

\* The version of every message is a version of a thread it is not ahead of.
LEMMA MessageTypes ==
  ASSUME IngestionAssumption, DaemonTypes, NEW i \in 1..Len(wire)
  PROVE  /\ wire[i].thread \in Threads /\ wire[i].version \in Nat
         /\ wire[i].on \in Nat /\ version[wire[i].thread] \in Nat
<1>1. wire[i] \in Message
  BY DEF DaemonTypes
<1>2. /\ wire[i].thread \in Threads /\ wire[i].version \in Versions
      /\ wire[i].on \in 1..MaxConns
  BY <1>1 DEF Message
<1>3. version[wire[i].thread] \in Versions
  BY <1>2 DEF DaemonTypes
<1>4. Versions \subseteq Nat /\ 1..MaxConns \subseteq Nat
  BY DEF Versions, IngestionAssumption
<1> QED
  BY <1>2, <1>3, <1>4

\* A thread moves.
LEMMA ToldBySending ==
  ASSUME IngestionAssumption, DaemonTypes, ToldInv, NEW u \in Threads, Moves(u)
  PROVE  /\ ToldInv'
         /\ \A t \in live : \A v \in Versions : Follows(t, v) => Follows(t, v)'
<1> DEFINE m == [thread |-> u, version |-> version[u] + 1,
                 told |-> u \in live, on |-> conn]
<1>1. /\ version[u] \in Versions /\ version[u] + 1 \in Versions
      /\ version' = [version EXCEPT ![u] = version[u] + 1]
      /\ UNCHANGED <<live, conn, up>>
      /\ up => wire' = Append(wire, m)
      /\ ~up => wire' = wire
  BY DEF Moves, DaemonTypes, Versions, IngestionAssumption
<1>2. m \in Message
  <2> DEFINE told == u \in live
  <2>1. told \in BOOLEAN
    OBVIOUS
  <2> HIDE DEF told
  <2>2. [thread |-> u, version |-> version[u] + 1, told |-> told,
         on |-> conn] \in Message
    BY <1>1, <2>1 DEF Message, DaemonTypes
  <2> QED
    BY <2>2, Zenon DEF told
<1>3. /\ m.thread = u /\ m.version = version[u] + 1 /\ m.on = conn
      /\ m.told <=> u \in live
  OBVIOUS
<1> HIDE DEF m
<1>4. /\ wire \in Seq(Message) /\ conn \in Nat /\ live \subseteq Threads
      /\ version \in [Threads -> Versions] /\ Versions \subseteq Nat
  BY DEF DaemonTypes, Versions, IngestionAssumption
<1>5. \A i \in 1..Len(wire) :
        /\ wire[i].version <= version'[wire[i].thread] /\ wire[i].on <= conn
        /\ wire[i].thread = u => wire[i].version < version[u] + 1
  <2> SUFFICES ASSUME NEW i \in 1..Len(wire)
               PROVE  /\ wire[i].version <= version'[wire[i].thread] /\ wire[i].on <= conn
                      /\ wire[i].thread = u => wire[i].version < version[u] + 1
    OBVIOUS
  <2>1. wire[i].version <= version[wire[i].thread] /\ wire[i].on <= conn
    BY DEF ToldInv, NotAhead
  <2> QED
    BY <1>1, <1>4, <2>1, MessageTypes
<1>6. CASE ~up
  <2>1. live = {} /\ ToldInv'
    <3>1. NotAhead(wire', version', conn')
      BY <1>1, <1>5, <1>6 DEF NotAhead
    <3> QED
      BY <1>1, <1>6, <3>1 DEF ToldInv
  <2> QED
    BY <2>1
<1>7. CASE up
  <2>1. wire' = Append(wire, m)
    BY <1>1, <1>7
  <2>2. /\ \A c, t, v : Tells(wire', c, t, v) <=>
             \/ Tells(wire, c, t, v)
             \/ u = t /\ version[u] + 1 = v /\ u \in live /\ conn = c
        /\ InOrder(wire')
    <3>1. InOrder(wire)
      BY DEF ToldInv
    <3> QED
      BY <1>2, <1>3, <1>4, <1>5, <2>1, <3>1, OneMoreTold
  <2>3. NotAhead(wire', version', conn')
    <3>1. /\ Len(wire') = Len(wire) + 1 /\ Len(wire) \in Nat
          /\ \A i \in 1..Len(wire) : wire'[i] = wire[i]
          /\ wire'[Len(wire) + 1] = m
      BY <1>2, <2>1, MessageSent
    <3>2. /\ m.version <= version'[m.thread] /\ m.on <= conn
      <4>1. version'[u] = version[u] + 1 /\ version[u] + 1 \in Nat
        BY <1>1, <1>4
      <4> QED
        BY <1>3, <1>4, <4>1
    <3>3. 1..Len(wire') = (1..Len(wire)) \cup {Len(wire) + 1}
      BY <3>1
    <3> QED
      BY <1>1, <1>5, <3>1, <3>2, <3>3 DEF NotAhead
  <2>4. ASSUME NEW t \in live, NEW v \in Versions, Follows(t, v)
        PROVE  Follows(t, v)'
    <3> SUFFICES ASSUME NEW w \in Versions, v < w, w <= version'[t]
                 PROVE  Tells(wire', conn, t, w)
      BY <1>1 DEF Follows
    <3>1. CASE w <= version[t]
      BY <2>2, <2>4, <3>1 DEF Follows
    <3>2. CASE t = u /\ w = version[u] + 1
      BY <2>2, <3>2
    <3>3. w <= version[t] \/ (t = u /\ w = version[u] + 1)
      <4>1. /\ t \in Threads /\ w \in Nat /\ version[t] \in Nat /\ version[u] \in Nat
            /\ version'[t] = IF t = u THEN version[u] + 1 ELSE version[t]
        BY <1>1, <1>4
      <4> QED
        BY <4>1
    <3> QED
      BY <3>1, <3>2, <3>3
  <2>5. ASSUME NEW t \in Threads, NEW v \in Versions, Tells(wire', conn, t, v)
        PROVE  t \in live /\ Follows(t, v)'
    <3>1. CASE Tells(wire, conn, t, v)
      BY <1>7, <2>4, <3>1 DEF ToldInv
    <3>2. CASE u = t /\ version[u] + 1 = v /\ u \in live
      BY <1>1, <1>4, <3>2 DEF Follows
    <3> QED
      BY <2>2, <2>5, <3>1, <3>2
  <2>6. ToldInv'
    BY <1>1, <1>7, <2>2, <2>3, <2>5 DEF ToldInv
  <2> QED
    BY <2>4, <2>6
<1> QED
  BY <1>6, <1>7

\* A connection is lost, or made.
LEMMA ToldByConnection ==
  ASSUME IngestionAssumption, DaemonTypes, ToldInv, Disconnect \/ Connect
  PROVE  ToldInv' /\ live' = {}
<1>1. wire \in Seq(Message) /\ conn \in Nat
  BY DEF DaemonTypes
<1>2. CASE Disconnect
  <2>1. PICK n \in 0..Len(wire) : wire' = SubSeq(wire, 1, n)
    BY <1>2 DEF Disconnect
  <2>2. InOrder(wire') /\ NotAhead(wire', version, conn)
    BY <1>1, <2>1, CutInOrder DEF ToldInv, NotAhead
  <2> QED
    BY <1>2, <2>2 DEF Disconnect, ToldInv
<1>3. CASE Connect
  <2>1. conn' = conn + 1 /\ UNCHANGED <<version, live, wire>> /\ live = {} /\ up'
    BY <1>3 DEF Connect, ToldInv
  <2>2. \A i \in 1..Len(wire) : wire[i].on <= conn /\ wire[i].on \in Nat
    BY MessageTypes DEF ToldInv, NotAhead
  <2>3. NotAhead(wire, version, conn + 1)
    BY <1>1, <2>2 DEF ToldInv, NotAhead
  <2>4. \A t, v : ~Tells(wire, conn + 1, t, v)
    BY <1>1, <2>2 DEF Tells
  <2> QED
    BY <2>1, <2>3, <2>4 DEF ToldInv
<1> QED
  BY <1>2, <1>3

\* A message is applied.
LEMMA ToldByTaking ==
  ASSUME IngestionAssumption, DaemonTypes, ToldInv, wire # <<>>,
         wire' = Tail(wire), UNCHANGED <<version, live, conn, up>>
  PROVE  /\ ToldInv'
         /\ \A t \in Threads : \A v \in Versions :
              /\ Follows(t, v)
              /\ Head(wire).thread = t /\ Head(wire).told /\ Head(wire).on = conn
                   => Head(wire).version <= v
              => Follows(t, v)'
<1> DEFINE m == Head(wire)
<1>1. /\ wire \in Seq(Message) /\ Versions \subseteq Nat
      /\ m \in Message /\ m.version \in Versions
  <2>1. m \in Message /\ wire \in Seq(Message)
    BY NextMessage DEF DaemonTypes
  <2>2. Versions \subseteq Nat
    BY DEF Versions, IngestionAssumption
  <2> HIDE DEF m
  <2>3. m.version \in Versions
    BY <2>1 DEF Message
  <2> QED
    BY <2>1, <2>2, <2>3 DEF m
<1>2. /\ \A c, t, v : Tells(wire, c, t, v) <=>
           \/ Tells(wire', c, t, v)
           \/ m.thread = t /\ m.version = v /\ m.told /\ m.on = c
      /\ InOrder(wire')
      /\ \A c, v : Tells(wire', c, m.thread, v) => m.version < v
  BY <1>1, OneLessTold DEF ToldInv
<1>3. NotAhead(wire', version', conn')
  BY MessageTaken DEF ToldInv, NotAhead
<1> HIDE DEF m
<1>4. ASSUME NEW t \in Threads, NEW v \in Versions, Follows(t, v),
             m.thread = t /\ m.told /\ m.on = conn => m.version <= v
      PROVE  Follows(t, v)'
  <2> SUFFICES ASSUME NEW w \in Versions, v < w, w <= version[t]
               PROVE  Tells(wire', conn, t, w)
    BY DEF Follows
  <2>1. Tells(wire, conn, t, w)
    BY <1>4 DEF Follows
  <2>2. ~(m.thread = t /\ m.version = w /\ m.told /\ m.on = conn)
    BY <1>1, <1>4
  <2> QED
    BY <1>2, <2>1, <2>2
<1>5. ASSUME up, NEW t \in Threads, NEW v \in Versions, Tells(wire', conn, t, v)
      PROVE  t \in live /\ Follows(t, v)'
  <2>1. t \in live /\ Follows(t, v)
    BY <1>2, <1>5 DEF ToldInv
  <2>2. m.thread = t => m.version < v
    <3>1. m.thread = t => Tells(wire', conn, m.thread, v)
      BY <1>5
    <3>2. Tells(wire', conn, m.thread, v) => m.version < v
      BY <1>2, Zenon
    <3> QED
      BY <3>1, <3>2
  <2>3. m.thread = t => m.version <= v
    <3>1. m.version \in Nat /\ v \in Nat
      BY <1>1
    <3> QED
      BY <2>2, <3>1
  <2> QED
    BY <1>4, <2>1, <2>3
<1>6. ToldInv'
  BY <1>2, <1>3, <1>5 DEF ToldInv
<1> QED
  BY <1>4, <1>6 DEF m

\* A step that leaves the wire alone.
LEMMA ToldElsewhere ==
  ASSUME ToldInv, UNCHANGED <<version, conn, up, wire>>, live \subseteq live',
         up \/ live' = live
  PROVE  /\ ToldInv'
         /\ \A t, v : Follows(t, v) <=> Follows(t, v)'
<1>1. \A t, v : Follows(t, v) <=> Follows(t, v)'
  BY DEF Follows
<1> QED
  BY <1>1 DEF ToldInv

\* A thread moves, or the connection is lost or made.
LEMMA KnowByDaemon ==
  ASSUME IngestionAssumption, IngestInv, KnowInv, DaemonStep
  PROVE  KnowInv'
<1>0. /\ DaemonTypes /\ CallTypes /\ HistoryTypes /\ CallsHold /\ ToldInv
      /\ UNCHANGED <<states, call, snapshot, newest, doubt>>
  BY TypesInParts
  DEF IngestInv, KnowInv, DaemonStep, Moves, Disconnect, Connect, ingestVars,
      reducerVars, history
<1>1. ToldInv' /\ \A t \in live' : t \in live /\ \A v \in Versions :
                    Follows(t, v) => Follows(t, v)'
  <2>1. CASE Disconnect \/ Connect
    BY <1>0, <2>1, ToldByConnection
  <2>2. ASSUME NEW u \in Threads, Moves(u)
        PROVE  ToldInv' /\ \A t \in live' : t \in live /\ \A v \in Versions :
                    Follows(t, v) => Follows(t, v)'
    <3>1. live' = live
      BY <2>2 DEF Moves
    <3> QED
      BY <1>0, <2>2, <3>1, ToldBySending
  <2> QED
    BY <2>1, <2>2 DEF DaemonStep
<1>2. ASSUME NEW t \in Threads
      PROVE  version[t] \in Nat /\ version'[t] \in Nat /\ version[t] <= version'[t]
  <2>1. version \in [Threads -> Nat]
    BY <1>0 DEF DaemonTypes, Versions, IngestionAssumption
  <2>2. CASE Disconnect \/ Connect
    BY <2>1, <2>2 DEF Disconnect, Connect
  <2>3. ASSUME NEW u \in Threads, Moves(u)
        PROVE  version'[t] \in Nat /\ version[t] <= version'[t]
    BY <2>1, <2>3 DEF Moves
  <2> QED
    BY <2>1, <2>2, <2>3 DEF DaemonStep
<1>3. \A t \in Threads : newest[t] \in Versions /\ newest[t] \in Nat
  BY <1>0 DEF HistoryTypes, Versions, IngestionAssumption
<1>4. ASSUME NEW c \in Callers
      PROVE  AnswerOf(c)'
  <2>1. AnswerOf(c)
    BY DEF KnowInv
  <2>2. call[c].answer \in Versions /\ call[c].answer \in Nat
    BY <1>0 DEF CallTypes, Call, Versions, IngestionAssumption
  <2>3. call[c].at \in {"answered", "probed"} => call[c].thread \in Threads
    BY <1>0 DEF CallsHold, Holding, Discovers
  <2>4. call'[c].at \in {"answered", "probed"} =>
          call'[c].answer <= version'[call'[c].thread]
    BY <1>0, <1>2, <2>1, <2>2, <2>3 DEF AnswerOf
  <2>5. /\ call'[c].at = "answered" /\ call'[c].thread \in live'
        /\ newest'[call'[c].thread] <= call'[c].answer
        => Follows(call'[c].thread, call'[c].answer)
    BY <1>0, <1>1, <2>1 DEF AnswerOf
  <2> QED
    BY <1>0, <1>1, <2>1, <2>2, <2>4, <2>5 DEF AnswerOf
<1>5. ASSUME NEW t \in Threads
      PROVE  newest'[t] <= version'[t]
  <2>1. newest[t] <= version[t]
    BY DEF KnowInv
  <2> QED
    BY <1>0, <1>2, <1>3, <2>1
<1>6. ASSUME NEW t \in live', ReadDone(t)', doubt'[t] = "none"
      PROVE  Synced(t)'
  <2>1. t \in live /\ t \in Threads
    BY <1>0, <1>1, <1>6 DEF DaemonTypes
  <2>2. Synced(t)
    BY <1>0, <1>6, <2>1 DEF KnowInv, ReadDone, Reading
  <2> QED
    BY <1>0, <1>1, <1>3, <1>6, <2>1, <2>2 DEF Synced
<1> QED
  BY <1>1, <1>4, <1>5, <1>6 DEF KnowInv

\* What the application of version v does to the turn of a thread.
LEMMA AppliedTurn ==
  ASSUME IngestionAssumption, ReducerTypes, NEW t \in Threads,
         NEW v \in Versions, NEW told
  PROVE  Applied(t, v, told).turn =
           IF told /\ Active(v) THEN v
           ELSE IF told /\ snapshot[t].turn = v - 1 THEN 0
           ELSE snapshot[t].turn
<1>1. Upserted(t) \in Entry /\ Upserted(t).turn = snapshot[t].turn
  BY DEF ReducerTypes, Entry, Upserted
<1> DEFINE e == Upserted(t)
<1> HIDE DEF e
<1>2. e \in Entry /\ e.turn = snapshot[t].turn
  BY <1>1 DEF e
<1>3. Applied(t, v, told) =
        [e EXCEPT !.turn = IF told /\ Active(v) THEN v
                           ELSE IF told /\ e.turn = v - 1 THEN 0
                           ELSE e.turn]
  BY DEF Applied, e
<1> QED
  BY <1>2, <1>3 DEF Entry

\* When a turn that the reducer has been told of ends, or it misses one that
\* never started, no turn is left.
LEMMA TurnEnds ==
  ASSUME NEW n \in Nat, NEW v \in Nat, ~Active(v), v = n \/ v = n + 1
  PROVE  (IF TurnOf(n) = v - 1 THEN 0 ELSE TurnOf(n)) = 0
<1>1. CASE v = n
  BY <1>1 DEF TurnOf
<1>2. CASE v = n + 1
  <2>1. CASE Active(n)
    BY <1>2, <2>1 DEF TurnOf
  <2>2. CASE ~Active(n)
    BY <2>2 DEF TurnOf
  <2> QED
    BY <2>1, <2>2
<1> QED
  BY <1>1, <1>2

\* A message is applied: told is of version v of thread t, on connection on.
LEMMA KnowAfterMessage ==
  ASSUME IngestionAssumption, IngestInv, KnowInv, ApplyMessage,
         NEW t \in Threads, NEW v \in Versions, NEW told \in BOOLEAN, NEW on \in Nat,
         Head(wire).thread = t, Head(wire).version = v,
         Head(wire).told = told, Head(wire).on = on
  PROVE  KnowInv'
<1> DEFINE sure == on = conn /\ (Active(v) \/ snapshot[t].turn = v - 1)
           e == Applied(t, v, told)
<1>0. /\ DaemonTypes /\ CallTypes /\ HistoryTypes /\ ReducerTypes /\ CallsHold
      /\ ToldInv /\ wire # <<>> /\ wire' = Tail(wire)
      /\ UNCHANGED <<version, live, conn, up, states, call>>
      /\ snapshot' = [snapshot EXCEPT ![t] =
           IF t \notin subscribing /\ Prunable(e) THEN Absent ELSE e]
      /\ IF told THEN Learns(t, v, sure) ELSE UNCHANGED <<newest, doubt>>
  BY TypesInParts DEF IngestInv, KnowInv, ApplyMessage
<1>1. /\ t \in Threads /\ v \in Versions /\ v \in Nat
      /\ Versions \subseteq Nat /\ live \subseteq Threads
      /\ \A u \in Threads : newest[u] \in Versions /\ version[u] \in Versions
  BY <1>0 DEF DaemonTypes, HistoryTypes, Versions, IngestionAssumption
<1>2. /\ ToldInv'
      /\ \A u \in Threads : \A w \in Versions :
           Follows(u, w) /\ (t = u /\ told /\ on = conn => v <= w)
             => Follows(u, w)'
  BY <1>0, ToldByTaking
<1>3. snapshot'[t].turn = IF told /\ Active(v) THEN v
                          ELSE IF told /\ snapshot[t].turn = v - 1 THEN 0
                          ELSE snapshot[t].turn
  <2>1. e.turn = IF told /\ Active(v) THEN v
                 ELSE IF told /\ snapshot[t].turn = v - 1 THEN 0
                 ELSE snapshot[t].turn
    BY <1>0, <1>1, AppliedTurn
  <2> HIDE DEF e
  <2>2. snapshot'[t] = IF t \notin subscribing /\ Prunable(e) THEN Absent ELSE e
    BY <1>0, <1>1 DEF ReducerTypes
  <2>3. snapshot'[t].turn = e.turn
    BY <2>2 DEF Prunable, Absent
  <2> QED
    BY <2>1, <2>3
<1>4. \A u \in Threads : u # t => snapshot'[u] = snapshot[u]
  BY <1>0 DEF ReducerTypes
<1>5. v <= version[t]
  <2>1. v = wire[1].version /\ t = wire[1].thread /\ 1 \in 1..Len(wire)
    BY <1>0, MessageTaken
  <2> QED
    BY <1>0, <2>1 DEF ToldInv, NotAhead
\* The histories: newest and doubt change for t only, and only if told.
<1>6. \A u \in Threads : u # t \/ ~told =>
        newest'[u] = newest[u] /\ doubt'[u] = doubt[u]
  BY <1>0 DEF Learns, HistoryTypes
<1> HIDE DEF sure, e
<1>7. ASSUME told
      PROVE  /\ newest'[t] = IF v > newest[t] THEN v ELSE newest[t]
             /\ doubt'[t] = DoubtAfter(t, v, sure)
  <2>1. Learns(t, v, sure)
    BY <1>0, <1>7
  <2>2. newest' = [newest EXCEPT ![t] = IF v > newest[t] THEN v ELSE newest[t]]
    BY <2>1 DEF Learns
  <2>3. doubt' = [doubt EXCEPT ![t] = DoubtAfter(t, v, sure)]
    BY <2>1 DEF Learns
  <2>4. newest'[t] = IF v > newest[t] THEN v ELSE newest[t]
    BY <1>0, <2>2 DEF HistoryTypes
  <2>5. doubt'[t] = DoubtAfter(t, v, sure)
    BY <1>0, <2>3, Zenon DEF HistoryTypes
  <2> QED
    BY <2>4, <2>5
\* A message of this connection that tells of t tells of version v.
<1>11. told /\ on = conn => Tells(wire, conn, t, v)
  <2>1. Head(wire) = wire[1] /\ 1 \in 1..Len(wire)
    BY <1>0, MessageTaken
  <2> QED
    BY <2>1, Zenon DEF Tells
<1>8. \A u \in Threads :
        /\ newest'[u] \in Versions /\ newest[u] <= newest'[u]
        /\ newest'[u] <= version[u]
        /\ u = t /\ told => v <= newest'[u]
  <2> SUFFICES ASSUME NEW u \in Threads
               PROVE  /\ newest'[u] \in Versions /\ newest[u] <= newest'[u]
                      /\ newest'[u] <= version[u]
                      /\ u = t /\ told => v <= newest'[u]
    OBVIOUS
  <2>1. newest[u] <= version[u] /\ newest[u] \in Nat /\ newest[u] \in Versions
    BY <1>1 DEF KnowInv
  <2>2. CASE u # t \/ ~told
    BY <1>6, <2>1, <2>2
  <2>3. CASE u = t /\ told
    <3>0. /\ newest'[u] = IF v > newest[u] THEN v ELSE newest[u]
          /\ v \in Nat /\ v \in Versions /\ v <= version[u]
      BY <1>1, <1>5, <1>7, <2>3
    <3>1. CASE v > newest[u]
      BY <2>1, <3>0, <3>1
    <3>2. CASE ~(v > newest[u])
      BY <2>1, <3>0, <3>2
    <3> QED
      BY <3>1, <3>2
  <2> QED
    BY <2>2, <2>3
<1>9. ASSUME NEW c \in Callers
      PROVE  AnswerOf(c)'
  <2>1. AnswerOf(c)
    BY DEF KnowInv
  <2>2. call[c].answer \in Versions
    BY <1>0 DEF CallTypes, Call
  <2>3. ASSUME call'[c].at = "answered", call'[c].thread \in live',
               newest'[call'[c].thread] <= call'[c].answer
        PROVE  Follows(call[c].thread, call[c].answer)'
    <3> DEFINE u == call[c].thread
               a == call[c].answer
    <3>1. /\ u \in Threads /\ a \in Versions /\ newest'[u] <= a
          /\ call' = call /\ live' = live
      BY <1>0, <1>1, <2>2, <2>3
    <3>2. newest[u] <= a /\ (u = t /\ told => v <= a)
      <4>1. /\ newest[u] \in Nat /\ newest'[u] \in Nat /\ a \in Nat
            /\ newest[u] <= newest'[u]
        BY <1>1, <1>8, <3>1
      <4>2. u = t /\ told => v <= newest'[u]
        BY <1>8, <3>1
      <4> QED
        BY <1>1, <3>1, <4>1, <4>2
    <3>3. Follows(u, a)
      BY <2>1, <2>3, <3>1, <3>2 DEF AnswerOf
    <3>4. \A w \in Threads : \A x \in Versions :
            w = u /\ x = a => Follows(w, x)'
      BY <1>2, <3>1, <3>2, <3>3
    <3> QED
      BY <3>1, <3>4
  <2> QED
    BY <1>0, <2>1, <2>3 DEF AnswerOf
<1>10. ASSUME NEW u \in live', ReadDone(u)', doubt'[u] = "none"
       PROVE  Synced(u)'
  <2>1. u \in live /\ u \in Threads /\ (doubt[u] = "none" => Synced(u))
    BY <1>0, <1>1, <1>10 DEF KnowInv, ReadDone, Reading
  <2>2. CASE u # t \/ ~told
    <3>1. newest'[u] = newest[u] /\ doubt'[u] = doubt[u]
      BY <1>6, <2>1, <2>2
    <3>2. snapshot'[u].turn = snapshot[u].turn
      BY <1>3, <1>4, <2>1, <2>2
    <3>3. Synced(u) /\ newest[u] \in Versions
      BY <1>1, <1>10, <2>1, <3>1
    <3>4. \A w \in Versions : w = newest[u] => Follows(u, w)'
      BY <1>2, <2>1, <2>2, <3>3 DEF Synced
    <3> QED
      BY <3>1, <3>2, <3>3, <3>4 DEF Synced
  <2>3. CASE u = t /\ told
    <3>1. ~(v < newest[t]) /\ (sure \/ doubt[t] = "none")
      <4>1. DoubtAfter(t, v, sure) = "none"
        BY <1>7, <1>10, <2>3
      <4> QED
        BY <4>1, Zenon DEF DoubtAfter
    <3>2. newest'[t] = v /\ newest[t] <= v /\ newest[t] \in Nat
      <4>1. newest'[t] = IF v > newest[t] THEN v ELSE newest[t]
        BY <1>7, <2>3
      <4>2. newest[t] \in Nat /\ v \in Nat
        BY <1>1
      <4> QED
        BY <3>1, <4>1, <4>2
\* All that is left to show is that the turn is that of version v, and that
\* what happened since is still on its way.
    <3>3. ASSUME snapshot'[t].turn = TurnOf(v), Follows(t, v)'
          PROVE  Synced(u)'
      BY <1>0, <2>3, <3>2, <3>3 DEF Synced
    <3>4. CASE sure
      <4>1. snapshot'[t].turn = TurnOf(v)
        <5>1. CASE Active(v)
          BY <1>3, <2>3, <5>1 DEF TurnOf
        <5>2. CASE ~Active(v)
          <6>1. snapshot[t].turn = v - 1
            BY <3>4, <5>2 DEF sure
          <6> QED
            BY <1>3, <2>3, <5>2, <6>1 DEF TurnOf
        <5> QED
          BY <5>1, <5>2
      <4>2. Tells(wire, conn, t, v)
        <5>1. on = conn
          BY <3>4 DEF sure
        <5> QED
          BY <1>11, <2>3, <5>1
      <4>3. Follows(t, v)
        BY <1>0, <1>1, <2>1, <4>2 DEF ToldInv
      <4>4. Follows(t, v)'
        <5>1. v <= v
          BY <1>1
        <5>2. \A w \in Versions : w = v => Follows(t, w)'
          BY <1>1, <1>2, <4>3, <5>1
        <5> QED
          BY <1>1, <5>2
      <4> QED
        BY <3>3, <4>1, <4>4
    <3>5. CASE ~sure
      <4>1. Synced(t) /\ doubt[t] = "none"
        BY <2>1, <2>3, <3>1, <3>5
\* If v is new, it follows newest, and only the next version can do so first.
      <4>2. ASSUME newest[t] < v
            PROVE  v = newest[t] + 1 /\ on = conn
        <5>1. /\ newest[t] + 1 \in Versions
              /\ newest[t] + 1 <= v
          BY <1>1, <3>2, <4>2 DEF Versions, IngestionAssumption
        <5>2. Tells(wire, conn, t, newest[t] + 1) /\ Tells(wire, conn, t, v)
          <6>0. version[t] \in Nat
            BY <1>1
          <6>1. version[t] \in Nat /\ newest[t] < newest[t] + 1
            BY <3>2, <6>0
          <6>2. newest[t] + 1 <= version[t]
            BY <1>1, <1>5, <3>2, <5>1, <6>1
          <6>3. Follows(t, newest[t])
            BY <4>1 DEF Synced
          <6> QED
            BY <1>1, <1>5, <4>2, <5>1, <6>1, <6>2, <6>3 DEF Follows
        <5>3. /\ \A c, w : Tells(wire, c, t, w) =>
                   Tells(wire', c, t, w) \/ (v = w /\ on = c)
              /\ \A c, w : Tells(wire', c, t, w) => v < w
          <6>1. wire \in Seq(Message) /\ InOrder(wire)
            BY <1>0 DEF DaemonTypes, ToldInv
          <6> QED
            BY <1>0, <6>1, OneLessTold
        <5>4. \/ v < newest[t] + 1 \/ v = newest[t] + 1
          BY <5>2, <5>3
        <5>5. v < v \/ on = conn
          BY <5>2, <5>3
        <5> QED
          BY <1>1, <3>2, <5>1, <5>4, <5>5
      <4>3. Follows(t, v)'
        <5>1. CASE on = conn
          <6>1. Tells(wire, conn, t, v)
            BY <1>11, <2>3, <5>1
          <6>2. Follows(t, v)
            BY <1>0, <1>1, <2>1, <2>3, <6>1 DEF ToldInv
          <6>3. \A w \in Versions : w = v => Follows(t, w)'
            <7>1. v <= v
              BY <1>1
            <7> QED
              BY <1>1, <1>2, <6>2, <7>1
          <6> QED
            BY <1>1, <6>3
        <5>2. CASE on # conn
          <6>1. v = newest[t]
            BY <1>1, <3>2, <4>2, <5>2
          <6>2. \A w \in Versions : w = v => Follows(t, w)'
            BY <1>1, <1>2, <4>1, <5>2, <6>1 DEF Synced
          <6> QED
            BY <1>1, <6>2
        <5> QED
          BY <5>1, <5>2
      <4>4. snapshot'[t].turn = TurnOf(v)
        <5>1. CASE Active(v)
          BY <1>3, <2>3, <5>1 DEF TurnOf
        <5>2. CASE ~Active(v)
          <6>1. snapshot[t].turn = TurnOf(newest[t])
            BY <4>1 DEF Synced
          <6>2. v = newest[t] \/ v = newest[t] + 1
            BY <1>1, <3>2, <4>2
          <6>3. (IF TurnOf(newest[t]) = v - 1 THEN 0 ELSE TurnOf(newest[t])) = 0
            BY <1>1, <3>2, <5>2, <6>2, TurnEnds
          <6>4. snapshot'[t].turn = 0
            BY <1>3, <2>3, <5>2, <6>1, <6>3
          <6> QED
            BY <5>2, <6>4 DEF TurnOf
        <5> QED
          BY <5>1, <5>2
      <4> QED
        BY <3>3, <4>3, <4>4
    <3> QED
      BY <3>1, <3>4, <3>5
  <2> QED
    BY <2>2, <2>3
<1> QED
  BY <1>0, <1>2, <1>8, <1>9, <1>10 DEF KnowInv

\* A message is applied.
LEMMA KnowByMessage ==
  ASSUME IngestionAssumption, IngestInv, KnowInv, ApplyMessage
  PROVE  KnowInv'
<1> DEFINE m == Head(wire)
<1>1. m \in Message
  BY NextMessage, TypesInParts DEF IngestInv, DaemonTypes, ApplyMessage
<1>2. /\ m.thread \in Threads /\ m.version \in Versions
      /\ m.told \in BOOLEAN /\ m.on \in Nat
  BY <1>1 DEF Message
<1> QED
  BY <1>2, KnowAfterMessage

\* What all steps of a caller leave alone.
CallFrame(c) ==
  /\ UNCHANGED <<version, conn, up, wire>>
  /\ live \subseteq live' /\ (up \/ live' = live)
  /\ \A d \in Callers \ {c} : call'[d] = call[d]

\* A step of a caller that tells the reducer nothing.
LEMMA KnowByRest ==
  ASSUME IngestionAssumption, IngestInv, KnowInv, NEW c \in Callers,
         CallFrame(c), AnswerOf(c)', newest' = newest, live' \subseteq Threads,
         \A t \in Threads : /\ snapshot'[t].turn = snapshot[t].turn
                            /\ states[t] = "Subscribed" => states'[t] = "Subscribed",
         \A t \in live' \ live : states'[t] # "Subscribed",
         \A t \in live : ReadDone(t)' /\ doubt'[t] = "none"
                           => ReadDone(t) /\ doubt[t] = "none"
  PROVE  KnowInv'
<1>0. /\ DaemonTypes /\ CallTypes /\ CallsHold /\ ToldInv /\ live \subseteq Threads
      /\ UNCHANGED <<version, conn, up, wire>>
  BY TypesInParts DEF IngestInv, KnowInv, CallFrame, DaemonTypes
<1>1. ToldInv' /\ \A t, v : Follows(t, v) <=> Follows(t, v)'
  BY <1>0, ToldElsewhere DEF CallFrame
<1>2. ASSUME NEW d \in Callers
      PROVE  AnswerOf(d)'
  <2>1. CASE d = c
    BY <2>1
  <2>2. CASE d # c
    <3>1. AnswerOf(d) /\ call'[d] = call[d]
      BY <2>2 DEF KnowInv, CallFrame
    <3>2. call[d].at \in {"read", "answered"} =>
            call[d].thread \in Threads /\ states[call[d].thread] = "Subscribed"
      BY <1>0, <3>1 DEF AnswerOf, CallsHold, Holding, Discovers
    <3>3. call[d].at = "answered" /\ call[d].thread \in live' =>
            call[d].thread \in live
      BY <3>2
    <3>4. /\ call'[d].at \in {"read", "answered"} =>
               states'[call'[d].thread] = "Subscribed"
          /\ call'[d].at \in {"answered", "probed"} =>
               call'[d].answer <= version'[call'[d].thread]
      BY <1>0, <3>1, <3>2 DEF AnswerOf
    <3>5. /\ call'[d].at = "answered" /\ call'[d].thread \in live'
          /\ newest'[call'[d].thread] <= call'[d].answer
          => Follows(call[d].thread, call[d].answer)
      BY <3>1, <3>3 DEF AnswerOf
    <3>6. \A t, v : t = call[d].thread /\ v = call[d].answer
                      /\ Follows(call[d].thread, call[d].answer) => Follows(t, v)'
      BY <1>1
    <3> QED
      BY <3>1, <3>4, <3>5, <3>6 DEF AnswerOf
  <2> QED
    BY <2>1, <2>2
<1>3. \A t \in Threads : newest'[t] <= version'[t]
  BY <1>0 DEF KnowInv
<1>4. ASSUME NEW t \in live', ReadDone(t)', doubt'[t] = "none"
      PROVE  Synced(t)'
  <2>1. t \in live /\ t \in Threads
    BY <1>0, <1>4 DEF ReadDone
  <2>2. Synced(t)
    BY <1>4, <2>1 DEF KnowInv
  <2>3. \A v : v = newest[t] => Follows(t, v)'
    BY <1>1, <2>2 DEF Synced
  <2> QED
    BY <2>1, <2>2, <2>3 DEF Synced
<1> QED
  BY <1>1, <1>2, <1>3, <1>4 DEF KnowInv

\* What a thread/read said of thread t, version a, is applied.
LEMMA KnowByRead ==
  ASSUME IngestionAssumption, IngestInv, KnowInv, NEW c \in Callers,
         CallFrame(c), AnswerOf(c)', live' = live, states' = states,
         NEW t \in Threads, NEW a \in Versions, NEW sure \in BOOLEAN,
         a <= version[t], ReconcileThread(t, a, sure),
         sure /\ t \in live /\ newest[t] <= a => Follows(t, a),
         \A u \in live : ReadDone(u)' => ReadDone(u) \/ (sure /\ u = t)
  PROVE  KnowInv'
<1>0. /\ DaemonTypes /\ CallTypes /\ CallsHold /\ ToldInv /\ HistoryTypes
      /\ ReducerTypes /\ live \subseteq Threads
      /\ UNCHANGED <<version, conn, up, wire>>
  BY TypesInParts DEF IngestInv, KnowInv, CallFrame, DaemonTypes
<1>1. ToldInv' /\ \A u, v : Follows(u, v) <=> Follows(u, v)'
  BY <1>0, ToldElsewhere DEF CallFrame
<1>2. /\ Versions \subseteq Nat
      /\ \A u \in Threads : newest[u] \in Versions /\ version[u] \in Versions
  BY <1>0 DEF DaemonTypes, HistoryTypes, Versions, IngestionAssumption
<1>3. \A u \in Threads : u # t => /\ newest'[u] = newest[u] /\ doubt'[u] = doubt[u]
                                  /\ snapshot'[u] = snapshot[u]
  BY <1>0 DEF ReconcileThread, Learns, HistoryTypes, ReducerTypes
<1>4. /\ newest'[t] = IF a > newest[t] THEN a ELSE newest[t]
      /\ doubt'[t] = DoubtAfter(t, a, sure)
      /\ snapshot'[t].turn = TurnOf(a)
  <2>1. snapshot'[t] = [present |-> TRUE, subscribed |-> snapshot[t].subscribed,
                        turn |-> TurnOf(a)]
    BY <1>0 DEF ReconcileThread, ReducerTypes
  <2> QED
    BY <1>0, <2>1 DEF ReconcileThread, Learns, HistoryTypes
<1>5. \A u \in Threads : /\ newest'[u] \in Versions /\ newest[u] <= newest'[u]
                         /\ newest'[u] <= version[u]
  <2> SUFFICES ASSUME NEW u \in Threads
               PROVE  /\ newest'[u] \in Versions /\ newest[u] <= newest'[u]
                      /\ newest'[u] <= version[u]
    OBVIOUS
  <2>1. newest[u] <= version[u] /\ newest[u] \in Nat /\ newest[u] \in Versions
    BY <1>2 DEF KnowInv
  <2>2. CASE u # t
    BY <1>3, <2>1, <2>2
  <2>3. CASE u = t /\ a > newest[t]
    <3>1. newest'[t] = a /\ a \in Nat
      BY <1>2, <1>4, <2>3
    <3> QED
      BY <2>1, <2>3, <3>1
  <2>4. CASE u = t /\ ~(a > newest[t])
    BY <1>4, <2>1, <2>4
  <2> QED
    BY <2>2, <2>3, <2>4
<1>6. ASSUME NEW d \in Callers
      PROVE  AnswerOf(d)'
  <2>1. CASE d = c
    BY <2>1
  <2>2. CASE d # c
    <3>1. AnswerOf(d) /\ call'[d] = call[d]
      BY <2>2 DEF KnowInv, CallFrame
    <3>2. call[d].at = "answered" => call[d].thread \in Threads
      BY <1>0 DEF CallsHold, Holding, Discovers
    <3>3. call[d].answer \in Versions
      BY <1>0 DEF CallTypes, Call
    <3>4. /\ call'[d].at = "answered" /\ call'[d].thread \in live'
          /\ newest'[call'[d].thread] <= call'[d].answer
          => Follows(call[d].thread, call[d].answer)
      <4> SUFFICES ASSUME call[d].at = "answered", call[d].thread \in live,
                          newest'[call[d].thread] <= call[d].answer
                   PROVE  Follows(call[d].thread, call[d].answer)
        BY <3>1
      <4>1. /\ newest[call[d].thread] \in Nat /\ newest'[call[d].thread] \in Nat
            /\ call[d].answer \in Nat
            /\ newest[call[d].thread] <= newest'[call[d].thread]
        BY <1>2, <1>5, <3>2, <3>3
      <4>2. newest[call[d].thread] <= call[d].answer
        BY <4>1
      <4> QED
        BY <3>1, <4>2 DEF AnswerOf
    <3>5. \A u, v : u = call[d].thread /\ v = call[d].answer
                      /\ Follows(call[d].thread, call[d].answer) => Follows(u, v)'
      BY <1>1
    <3> QED
      BY <1>0, <3>1, <3>4, <3>5 DEF AnswerOf
  <2> QED
    BY <2>1, <2>2
<1>7. ASSUME NEW u \in live', ReadDone(u)', doubt'[u] = "none"
      PROVE  Synced(u)'
  <2>1. u \in live /\ u \in Threads
    BY <1>0
  <2>2. CASE u # t
    <3>1. Synced(u)
      BY <1>3, <1>7, <2>1, <2>2 DEF KnowInv
    <3>2. \A v : v = newest[u] => Follows(u, v)'
      BY <1>1, <3>1 DEF Synced
    <3> QED
      BY <1>3, <2>1, <2>2, <3>1, <3>2 DEF Synced
  <2>3. CASE u = t
    <3>1. ~(a < newest[t]) /\ (sure \/ doubt[t] = "none")
      BY <1>4, <1>7, <2>3 DEF DoubtAfter
    <3>2. newest[t] <= a /\ newest'[t] = a
      BY <1>2, <1>4, <3>1
    <3>3. Follows(t, a)
      <4>1. CASE sure
        BY <2>1, <2>3, <3>2, <4>1
      <4>2. CASE ~sure
        <5>1. Synced(t)
          BY <1>7, <2>1, <2>3, <3>1, <4>2 DEF KnowInv
        <5>2. \A w \in Versions : a < w => newest[t] < w
          <6>1. newest[t] \in Nat /\ a \in Nat
            BY <1>2
          <6> QED
            BY <1>2, <3>2, <6>1
        <5> QED
          BY <5>1, <5>2 DEF Synced, Follows
      <4> QED
        BY <4>1, <4>2
    <3>4. Follows(t, a)'
      BY <1>1, <3>3
    <3> QED
      BY <1>4, <2>3, <3>2, <3>4 DEF Synced
  <2> QED
    BY <2>2, <2>3
<1> QED
  BY <1>0, <1>1, <1>5, <1>6, <1>7 DEF KnowInv

SameSubscribed ==
  \A t \in Threads : states[t] = "Subscribed" <=> states'[t] = "Subscribed"

SameTurns == \A t \in Threads : snapshot'[t].turn = snapshot[t].turn

\* A step of a caller that has nothing to do with a read after a subscription.
LEMMA KnowByOthers ==
  ASSUME IngestionAssumption, IngestInv, KnowInv, NEW c \in Callers,
         CallFrame(c), newest' = newest, doubt' = doubt, live' \subseteq Threads,
         SameTurns, SameSubscribed,
         \A t \in live' \ live : states[t] # "Subscribed",
         call[c].at \notin {"read", "answered"},
         call'[c].at \notin {"read", "answered", "probed"}
  PROVE  KnowInv'
<1>1. AnswerOf(c)'
  BY DEF AnswerOf
<1>2. \A t \in Threads : ReadDone(t)' => ReadDone(t)
  BY DEF ReadDone, Reading, CallFrame, SameSubscribed
<1>3. live \subseteq Threads
  BY TypesInParts DEF IngestInv, DaemonTypes
<1> QED
  BY <1>1, <1>2, <1>3, KnowByRest DEF SameTurns, SameSubscribed

LEMMA CallerFrame ==
  ASSUME IngestionAssumption, IngestInv, NEW c \in Callers, DiscoverStep(c)
  PROVE  CallFrame(c) /\ live' \subseteq Threads
<1>0. DaemonTypes /\ CallTypes /\ IngestTypes /\ CallsHold /\ ClaimsStand
  BY TypesInParts DEF IngestInv
<1>1. \A d \in Callers \ {c} : call'[d] = call[d]
  BY <1>0, DiscoverStepMoves DEF CallMoves
<1>2. CASE ResumeGranted(c)
  <2>1. call[c].thread \in Threads
    BY <1>0, <1>2 DEF ResumeGranted, CallsHold, Holding, Discovers, Subscribes
  <2> QED
    BY <1>0, <1>1, <1>2, <2>1 DEF ResumeGranted, CallFrame, DaemonTypes
<1>3. CASE ~ResumeGranted(c)
  <2>1. UNCHANGED daemonVars
    BY <1>3 DEF DiscoverStep, HandleSignal, Observe, BeginSubscription,
      ResumeRetried, RetryElapses, ResumeFails, CancelSubscription,
      FinishSubscription, Retain, ReadServed, ReadApplied, ReadFails
  <2> QED
    BY <1>0, <1>1, <2>1 DEF daemonVars, CallFrame, DaemonTypes
<1> QED
  BY <1>2, <1>3

\* discover's claim.
LEMMA DiscoverAside ==
  ASSUME IngestionAssumption, IngestInv, NEW c \in Callers, NEW t \in Threads,
         Discover(c, t)
  PROVE  SameSubscribed /\ call'[c].at \notin {"read", "answered", "probed"}
<1>0. CallTypes /\ IngestTypes
  BY TypesInParts DEF IngestInv
<1>1. CASE Returns(c)
  <2>1. call'[c].at \in {"next", "idle"}
    BY <1>0, <1>1, ReturnsKeepsCalls
  <2>2. states' = states \/ (~Claimed(t) /\ Becomes(t, "CapacityDegraded"))
                         \/ (~Claimed(t) /\ Becomes(t, "Subscribing"))
    BY DEF Discover
  <2> QED
    BY <1>0, <2>1, <2>2 DEF Becomes, Claimed, Retained, IngestTypes, SameSubscribed
<1>2. CASE /\ ~Claimed(t) /\ Becomes(t, "Subscribing")
           /\ call' = [call EXCEPT ![c] = [At("begin") EXCEPT !.thread = t]]
  <2>1. call'[c].at = "begin"
    BY <1>0, <1>2 DEF CallTypes, At
  <2> QED
    BY <1>0, <1>2, <2>1 DEF Becomes, Claimed, Retained, IngestTypes, SameSubscribed
<1> QED
  BY <1>1, <1>2 DEF Discover

\* A call before its thread is Subscribed.
LEMMA KnowBySubscribing ==
  ASSUME IngestionAssumption, IngestInv, KnowInv, NEW c \in Callers,
         DiscoverStep(c), call[c].at \notin {"retain", "read", "answered"}
  PROVE  KnowInv'
<1> DEFINE t == call[c].thread
<1>0. /\ CallTypes /\ IngestTypes /\ ReducerTypes /\ CallsHold /\ ClaimsStand
      /\ CallFrame(c) /\ live' \subseteq Threads
  BY TypesInParts, CallerFrame DEF IngestInv
<1>1. /\ call[c].at \in Subscribes \cup {"cancel"} => t \in Threads
      /\ call[c].at \in Subscribes => states[t] # "Subscribed"
  BY <1>0 DEF CallsHold, Holding, Discovers, ClaimsStand
<1>2. /\ newest' = newest /\ doubt' = doubt
  BY DEF DiscoverStep, HandleSignal, Observe, BeginSubscription, ResumeGranted,
      ResumeRetried, RetryElapses, ResumeFails, CancelSubscription,
      FinishSubscription, Retain, ReadServed, ReadApplied, ReadFails, history
<1>3. \A u \in live' \ live : states[u] # "Subscribed"
  <2>1. CASE ResumeGranted(c)
    BY <1>1, <2>1 DEF ResumeGranted, Subscribes
  <2>2. CASE ~ResumeGranted(c)
    BY <2>2 DEF DiscoverStep, HandleSignal, Observe, BeginSubscription,
      ResumeRetried, RetryElapses, ResumeFails, CancelSubscription,
      FinishSubscription, Retain, ReadServed, ReadApplied, ReadFails, daemonVars
  <2> QED
    BY <2>1, <2>2
<1>4. ASSUME NEW at \in Places, Step(c, at)
      PROVE  call'[c].at = at
  BY <1>0, <1>4, StepKeepsCalls
<1>5. ASSUME NEW s, s # "Subscribed", Becomes(t, s), call[c].at \in Subscribes
      PROVE  SameSubscribed
  BY <1>0, <1>1, <1>5 DEF Becomes, IngestTypes, SameSubscribed
<1>6. {"resume", "granted", "wait", "cancel", "retain"} \subseteq Places
  BY DEF Places, Discovers, Subscribes
<1>7. SameTurns /\ SameSubscribed
      /\ call'[c].at \notin {"read", "answered", "probed"}
  <2>1. CASE HandleSignal(c) \/ Observe(c)
    <3>1. PICK u \in Threads : Discover(c, u)
      BY <1>0, <2>1 DEF HandleSignal, Observe, IngestTypes
    <3>2. snapshot' = snapshot
      BY <2>1 DEF HandleSignal, Observe, reducerVars
    <3> QED
      BY <3>1, <3>2, DiscoverAside DEF SameTurns
  <2>2. CASE BeginSubscription(c)
    <3>1. /\ t \in Threads /\ states' = states /\ Step(c, "resume")
          /\ snapshot' = [snapshot EXCEPT ![t] = Upserted(t)]
      BY <1>1, <2>2 DEF BeginSubscription, Subscribes
    <3>2. Upserted(t).turn = snapshot[t].turn
      BY <1>0, <3>1 DEF Upserted, ReducerTypes, Entry
    <3> QED
      BY <1>0, <1>4, <1>6, <3>1, <3>2 DEF SameTurns, SameSubscribed, ReducerTypes
  <2>3. CASE ResumeGranted(c)
    BY <1>4, <1>6, <2>3 DEF ResumeGranted, reducerVars, SameTurns, SameSubscribed
  <2>4. CASE ResumeRetried(c)
    <3>1. call'[c].at = "wait"
      BY <1>0, <2>4 DEF ResumeRetried, CallTypes, Call
    <3> QED
      BY <1>5, <2>4, <3>1 DEF ResumeRetried, Subscribes, reducerVars, SameTurns
  <2>5. CASE RetryElapses(c)
    BY <1>4, <1>5, <1>6, <2>5 DEF RetryElapses, Subscribes, reducerVars, SameTurns
  <2>6. CASE ResumeFails(c)
    BY <1>4, <1>5, <1>6, <2>6 DEF ResumeFails, Subscribes, reducerVars, SameTurns
  <2>7. CASE CancelSubscription(c)
    <3>1. call'[c].at \in {"next", "idle"} /\ states' = states
      BY <1>0, <2>7, ReturnsKeepsCalls DEF CancelSubscription
    <3>2. /\ t \in Threads
          /\ snapshot' = [snapshot EXCEPT ![t] = IF Prunable(snapshot[t])
                                                 THEN Absent ELSE snapshot[t]]
      BY <1>1, <2>7 DEF CancelSubscription
    <3> QED
      BY <1>0, <3>1, <3>2 DEF Prunable, Absent, SameTurns, SameSubscribed, ReducerTypes
  <2>8. CASE FinishSubscription(c)
    <3>1. /\ t \in Threads /\ states' = states /\ Step(c, "retain")
          /\ snapshot' = [snapshot EXCEPT ![t] = Promoted(snapshot[t])]
      BY <1>1, <2>8 DEF FinishSubscription, Subscribes
    <3>2. Promoted(snapshot[t]).turn = snapshot[t].turn
      BY <1>0, <3>1 DEF Promoted, ReducerTypes, Entry
    <3> QED
      BY <1>0, <1>4, <1>6, <3>1, <3>2 DEF SameTurns, SameSubscribed, ReducerTypes
  <2> QED
    BY <2>1, <2>2, <2>3, <2>4, <2>5, <2>6, <2>7, <2>8
    DEF DiscoverStep, Retain, ReadServed, ReadApplied, ReadFails
<1> QED
  BY <1>0, <1>2, <1>3, <1>7, KnowByOthers

\* A call from the end of its subscription to the end of its read.
LEMMA KnowByReading ==
  ASSUME IngestionAssumption, IngestInv, KnowInv, NEW c \in Callers,
         DiscoverStep(c), call[c].at \in {"retain", "read", "answered"},
         NEW t \in Threads, call[c].thread = t
  PROVE  KnowInv'
<1>0. /\ DaemonTypes /\ CallTypes /\ IngestTypes /\ ReducerTypes /\ HistoryTypes
      /\ CallFrame(c) /\ live' \subseteq Threads /\ AnswerOf(c)
      /\ version[t] \in Nat
  <2>1. DaemonTypes /\ AnswerOf(c)
    BY TypesInParts DEF IngestInv, KnowInv
  <2>2. version[t] \in Nat
    BY <2>1 DEF DaemonTypes, Versions, IngestionAssumption
  <2> QED
    BY <2>1, <2>2, TypesInParts, CallerFrame DEF IngestInv
<1>1. ~HandleSignal(c) /\ ~Observe(c) /\ ~BeginSubscription(c)
      /\ ~ResumeGranted(c) /\ ~ResumeRetried(c) /\ ~RetryElapses(c)
      /\ ~ResumeFails(c) /\ ~CancelSubscription(c) /\ ~FinishSubscription(c)
  BY DEF HandleSignal, Observe, BeginSubscription, ResumeGranted, ResumeRetried,
      RetryElapses, ResumeFails, CancelSubscription, FinishSubscription
\* Only t is read by c, before and after.
<1>2. ASSUME NEW u \in Threads, u # t
      PROVE  ReadDone(u)' => \/ ReadDone(u)
                             \/ states'[u] # states[u]
                             \/ call'[c].thread = u
  BY <1>0, <1>2 DEF ReadDone, Reading, CallFrame
<1>3. CASE Retain(c)
  <2>1. /\ Step(c, "read") /\ Becomes(t, "Subscribed")
        /\ UNCHANGED <<live, snapshot, newest, doubt>>
    BY <1>3 DEF Retain, daemonVars, reducerVars, history
  <2>2. call'[c].at = "read" /\ call'[c].thread = t
    BY <1>0, <2>1, StepKeepsCalls DEF Places, Discovers
  <2>3. /\ states'[t] = "Subscribed"
        /\ \A u \in Threads : u # t => states'[u] = states[u]
    BY <1>0, <2>1 DEF Becomes, IngestTypes
  <2>4. AnswerOf(c)'
    BY <2>2, <2>3 DEF AnswerOf
  <2>5. ~ReadDone(t)'
    BY <2>2 DEF ReadDone, Reading
  <2>6. \A u \in Threads : ReadDone(u)' => ReadDone(u)
    BY <1>2, <2>2, <2>3, <2>5
  <2>7. \A u \in Threads : states[u] = "Subscribed" => states'[u] = "Subscribed"
    BY <2>3
  <2>8. live \subseteq Threads
    BY <1>0 DEF DaemonTypes
  <2> QED
    BY <1>0, <2>1, <2>4, <2>6, <2>7, <2>8, KnowByRest
<1>4. CASE ReadServed(c)
  <2>1. /\ call' = [call EXCEPT ![c].at = "answered", ![c].answer = version[t]]
        /\ UNCHANGED <<version, live, states, snapshot, newest, doubt>>
        /\ call[c].at = "read"
    BY <1>4 DEF ReadServed, daemonVars, reducerVars, history
  <2>2. /\ call'[c].at = "answered" /\ call'[c].thread = t
        /\ call'[c].answer = version[t]
    BY <1>0, <2>1 DEF CallTypes, Call
  <2>3. AnswerOf(c)'
    <3>1. \A w \in Versions : ~(version[t] < w /\ w <= version[t])
      BY <1>0 DEF Versions, IngestionAssumption
    <3>2. \A u, v : u = t /\ v = version[t] => Follows(u, v)'
      BY <2>1, <3>1 DEF Follows
    <3>3. states[t] = "Subscribed"
      BY <1>0, <2>1 DEF AnswerOf
    <3>4. version[t] <= version[t]
      BY <1>0
    <3> QED
      BY <2>1, <2>2, <3>2, <3>3, <3>4 DEF AnswerOf
  <2>4. \A u \in Threads : ReadDone(u)' => ReadDone(u)
    <3>1. ~ReadDone(t)'
      BY <2>2 DEF ReadDone, Reading
    <3> QED
      BY <1>2, <2>1, <2>2, <3>1
  <2>5. live \subseteq Threads
    BY <1>0 DEF DaemonTypes
  <2> QED
    BY <1>0, <2>1, <2>3, <2>4, <2>5, KnowByRest
<1>5. ASSUME Returns(c), states' = states, live' = live
      PROVE  /\ AnswerOf(c)'
             /\ \A u \in live : u # t /\ ReadDone(u)' => ReadDone(u)
  <2>1. call'[c].at \in {"next", "idle"} /\ call[c].at \in {"retain", "read", "answered"}
    BY <1>0, <1>5, ReturnsKeepsCalls
  <2>2. AnswerOf(c)'
    BY <2>1 DEF AnswerOf
  <2>3. ASSUME NEW u \in live, u # t, ReadDone(u)'
        PROVE  ReadDone(u)
    BY <1>0, <1>5, <2>3 DEF ReadDone, Reading, CallFrame
  <2> QED
    BY <2>2, <2>3
<1>6. CASE ReadFails(c)
  <2>1. /\ Returns(c) /\ doubt' = [doubt EXCEPT ![t] = "unread"]
        /\ UNCHANGED <<live, states, snapshot, newest>>
    BY <1>6 DEF ReadFails, daemonVars, reducerVars
  <2>2. /\ doubt'[t] = "unread"
        /\ \A u \in Threads : u # t => doubt'[u] = doubt[u]
    BY <1>0, <2>1 DEF HistoryTypes
  <2>3. live \subseteq Threads
    BY <1>0 DEF DaemonTypes
  <2>4. \A u \in live : ReadDone(u)' /\ doubt'[u] = "none"
                          => ReadDone(u) /\ doubt[u] = "none"
    BY <1>5, <2>1, <2>2, <2>3
  <2>5. AnswerOf(c)'
    BY <1>5, <2>1
  <2> QED
    BY <1>0, <2>1, <2>3, <2>4, <2>5, KnowByRest
<1>7. CASE ReadApplied(c)
  <2> DEFINE a == call[c].answer
  <2>1. /\ Returns(c) /\ ReconcileThread(t, a, TRUE) /\ call[c].at = "answered"
        /\ UNCHANGED <<live, states>>
    BY <1>7 DEF ReadApplied, daemonVars
  <2>2. a \in Versions /\ a <= version[t]
    BY <1>0, <2>1 DEF CallTypes, Call, AnswerOf
  <2>3. t \in live /\ newest[t] <= a => Follows(t, a)
    BY <1>0, <2>1 DEF AnswerOf
  <2>4. AnswerOf(c)' /\ \A u \in live : u # t /\ ReadDone(u)' => ReadDone(u)
    BY <1>5, <2>1
  <2> HIDE DEF a
  <2> QED
    BY <1>0, <2>1, <2>2, <2>3, <2>4, KnowByRead
<1> QED
  BY <1>1, <1>3, <1>4, <1>6, <1>7 DEF DiscoverStep

LEMMA KnowByCaller ==
  ASSUME IngestionAssumption, IngestInv, KnowInv, NEW c \in Callers, DiscoverStep(c)
  PROVE  KnowInv'
<1>1. CASE call[c].at \in {"retain", "read", "answered"}
  <2>1. call[c].thread \in Threads
    BY <1>1 DEF IngestInv, CallsHold, Holding, Discovers, Subscribes
  <2> QED
    BY <1>1, <2>1, KnowByReading
<1>2. CASE call[c].at \notin {"retain", "read", "answered"}
  BY <1>2, KnowBySubscribing
<1> QED
  BY <1>1, <1>2

\* The reconciliation.
LEMMA KnowByReconciler ==
  ASSUME IngestionAssumption, IngestInv, KnowInv, ReconcileStep
  PROVE  KnowInv'
<1> DEFINE c == Reconciler
<1>0. /\ DaemonTypes /\ CallTypes /\ IngestTypes /\ CallsHold /\ c \in Callers
      /\ AnswerOf(c)
  BY TypesInParts DEF IngestInv, KnowInv, Callers
<1>1. UNCHANGED daemonVars
  BY DEF ReconcileStep, Listed, NextCandidate, ProbeServed, ProbeFails, Probed,
      ReconcileDiscovers, ReconcileEnds, Marked
<1>2. CallFrame(c) /\ live' = live /\ live' \subseteq Threads
  <2>1. CallMoves(c)
    BY <1>0, TypesInParts, ReconcileStepMoves DEF IngestInv
  <2> QED
    BY <1>0, <1>1, <2>1 DEF CallMoves, CallFrame, daemonVars, DaemonTypes
<1>3. call[c].at \notin {"read", "answered"}
  BY DEF ReconcileStep, Listed, NextCandidate, ProbeServed, ProbeFails, Probed,
      ReconcileDiscovers, ReconcileEnds, Marked, rec
<1>4. ASSUME UNCHANGED <<states, snapshot, newest, doubt>>,
             call'[c].at \notin {"read", "answered", "probed"}
      PROVE  KnowInv'
  <2>1. SameTurns /\ SameSubscribed
    BY <1>4 DEF SameTurns, SameSubscribed
  <2> QED
    BY <1>0, <1>2, <1>3, <1>4, <2>1, KnowByOthers
<1>5. CASE Listed
  <2>1. call'[c].at = "next"
    BY <1>0, <1>5, StepKeepsCalls DEF Listed, Places, Reconciles
  <2> QED
    BY <1>4, <1>5, <2>1 DEF Listed, reducerVars, history
<1>6. CASE NextCandidate
  <2>1. call'[c].at = "probe"
    BY <1>0, <1>6 DEF NextCandidate, CallTypes, Call
  <2> QED
    BY <1>4, <1>6, <2>1 DEF NextCandidate, reducerVars, history
<1>7. CASE ProbeServed
  <2>1. UNCHANGED <<states, snapshot, newest, doubt>>
    BY <1>7 DEF ProbeServed, reducerVars, history
  <2>2. CASE Returns(c)
    <3>1. call'[c].at \in {"next", "idle"}
      BY <1>0, <2>2, ReturnsKeepsCalls
    <3> QED
      BY <1>4, <2>1, <3>1
  <2>3. CASE call' = [call EXCEPT ![c].at = "probed",
                                  ![c].answer = version[call[c].thread]]
    <3>1. /\ call'[c].at = "probed" /\ call'[c].thread = call[c].thread
          /\ call'[c].answer = version[call[c].thread]
      BY <1>0, <2>3 DEF CallTypes, Call
    <3>2. call[c].thread \in Threads
      BY <1>0, <1>7 DEF ProbeServed, rec, CallsHold, Holding
    <3>3. version[call[c].thread] \in Nat
      BY <1>0, <3>2 DEF DaemonTypes, Versions, IngestionAssumption
    <3>4. call'[c].answer <= version'[call'[c].thread]
      BY <1>1, <3>1, <3>3 DEF daemonVars
    <3>5. AnswerOf(c)'
      BY <3>1, <3>4 DEF AnswerOf
    <3>6. \A u \in Threads : ReadDone(u)' => ReadDone(u)
      BY <1>2, <1>3, <2>1 DEF ReadDone, Reading, CallFrame
    <3> QED
      BY <1>0, <1>2, <2>1, <3>5, <3>6, KnowByRest
  <2> QED
    BY <1>7, <2>2, <2>3 DEF ProbeServed, rec
<1>8. CASE ProbeFails
  <2>1. call'[c].at \in {"next", "idle"}
    BY <1>0, <1>8, ReturnsKeepsCalls DEF ProbeFails
  <2> QED
    BY <1>4, <1>8, <2>1 DEF ProbeFails, reducerVars
<1>9. CASE Probed
  <2> DEFINE t == call[c].thread
             a == call[c].answer
  <2>1. /\ call[c].at = "probed" /\ ReconcileThread(t, a, FALSE)
        /\ Step(c, "discover") /\ states' = states
    BY <1>9 DEF Probed, rec
  <2>2. t \in Threads /\ a \in Versions /\ a <= version[t]
    BY <1>0, <2>1 DEF CallsHold, Holding, CallTypes, Call, AnswerOf
  <2>3. call'[c].at = "discover"
    BY <1>0, <2>1, StepKeepsCalls DEF Places, Reconciles
  <2>4. AnswerOf(c)' /\ \A u \in live : ReadDone(u)' => ReadDone(u)
    BY <1>2, <1>3, <2>1, <2>3 DEF AnswerOf, ReadDone, Reading, CallFrame
  <2> HIDE DEF t, a
  <2> QED
    BY <1>0, <1>2, <2>1, <2>2, <2>4, KnowByRead
<1>10. CASE ReconcileDiscovers
  <2> DEFINE t == call[c].thread
  <2>1. /\ Discover(c, t) /\ UNCHANGED <<snapshot, newest, doubt>>
        /\ call[c].at = "discover"
    BY <1>10 DEF ReconcileDiscovers, rec, reducerVars, history
  <2>2. t \in Threads
    BY <1>0, <2>1 DEF CallsHold, Holding
  <2>3. SameSubscribed /\ call'[c].at \notin {"read", "answered", "probed"}
    BY <1>0, <2>1, <2>2, DiscoverAside
  <2>4. SameTurns
    BY <2>1 DEF SameTurns
  <2> QED
    BY <1>0, <1>2, <1>3, <2>1, <2>3, <2>4, KnowByOthers
<1>11. CASE ReconcileEnds
  <2>1. call'[c].at \in {"marking", "idle"}
    BY <1>0, <1>11 DEF ReconcileEnds, CallTypes, At
  <2> QED
    BY <1>4, <1>11, <2>1 DEF ReconcileEnds, reducerVars, history
<1>12. CASE Marked
  <2>1. call'[c].at = "idle"
    BY <1>0, <1>12, StepKeepsCalls DEF Marked, Places
  <2> QED
    BY <1>4, <1>12, <2>1 DEF Marked, reducerVars, history
<1> QED
  BY <1>5, <1>6, <1>7, <1>8, <1>9, <1>10, <1>11, <1>12 DEF ReconcileStep

LEMMA KnowStart ==
  ASSUME IngestionAssumption, Init
  PROVE  KnowInv
<1>1. wire = <<>> /\ live = {} /\ Len(wire) = 0
  BY DEF Init
<1>2. ToldInv
  BY <1>1 DEF ToldInv, InOrder, NotAhead, Tells
<1>3. \A c \in Callers : call[c].at = "idle"
  BY DEF Init, At
<1>4. \A c \in Callers : AnswerOf(c)
  BY <1>3 DEF AnswerOf
<1>5. \A t \in Threads : newest[t] = 0 /\ version[t] \in Nat
  BY DEF Init, Versions, IngestionAssumption
<1>6. \A t \in Threads : newest[t] <= version[t]
  BY <1>5
<1> QED
  BY <1>1, <1>2, <1>4, <1>6 DEF KnowInv

\* Nothing on its way and nobody reading: what was heard last is the present.
LEMMA QuietKnows ==
  ASSUME IngestionAssumption, IngestInv, KnowInv
  PROVE  TurnsKnown
<1> SUFFICES ASSUME Quiet, NEW t \in live, states[t] = "Subscribed",
                    doubt[t] = "none"
             PROVE  KnowsTurn(t)
  BY DEF TurnsKnown
<1>1. /\ t \in Threads /\ newest[t] \in Nat /\ version[t] \in Versions
      /\ version[t] \in Nat
  BY TypesInParts
  DEF IngestInv, DaemonTypes, HistoryTypes, Versions, IngestionAssumption
<1>2. ReadDone(t)
  BY DEF Quiet, ReadDone, Reading
<1>3. Synced(t) /\ newest[t] <= version[t]
  BY <1>1, <1>2 DEF KnowInv
<1>4. ~Tells(wire, conn, t, version[t])
  BY DEF Quiet, Tells
<1>5. ~(newest[t] < version[t])
  BY <1>1, <1>3, <1>4 DEF Synced, Follows
<1>6. newest[t] = version[t]
  BY <1>1, <1>3, <1>5
<1>7. snapshot[t].present
  BY <1>1 DEF IngestInv, SubscribedRetained
<1> QED
  BY <1>3, <1>6, <1>7 DEF Synced, KnowsTurn

\* thread-ingestion/spec.md, "Close the turn-start race": whatever the
\* resume, the read, the turn's own events and the reconciliation's reads do in
\* whatever order, over any number of connections, the reducer's turn of a
\* subscribed thread is the daemon's once nothing is under way, unless a
\* version came late or a read failed.
THEOREM TurnIsKnown == Spec => []TurnsKnown
<1> USE IngestionAssumption
<1>1. Init => KnowInv
  BY KnowStart
<1>2. IngestInv /\ KnowInv /\ [Next]_vars => KnowInv'
  <2> SUFFICES ASSUME IngestInv, KnowInv, [Next]_vars
               PROVE  KnowInv'
    OBVIOUS
  <2>1. CASE UNCHANGED vars
    BY <2>1
    DEF vars, daemonVars, ingestVars, reducerVars, history, KnowInv, ToldInv,
        Follows, AnswerOf, ReadDone, Reading, Synced
  <2> QED
    BY <2>1, KnowByDaemon, KnowByMessage, KnowByReconciler, KnowByCaller DEF Next
<1>3. IngestInv /\ KnowInv => TurnsKnown
  BY QuietKnows
<1> QED
  BY <1>1, <1>2, <1>3, IngestInvariant, PTL DEF Spec
=============================================================================
