---------------------------- MODULE EventFanout ----------------------------
(***************************************************************************)
(* The path of an event from the ingress task to the consumers:            *)
(* AuthoritativeIngress::process (ingest/src/lib.rs), the reducer's        *)
(* sequence and bounded lifecycle log with events_since                    *)
(* (reducer/src/lib.rs), the two broadcast topics of EventHub, one         *)
(* LifecycleStream and one DeltaStream (streaming/src/lib.rs).             *)
(*                                                                         *)
(* Event n is the n-th frame: the transport numbers them and the ingress   *)
(* task processes them one at a time, so the log and the topics are in     *)
(* sequence order and are modelled as sets of sequence numbers.  Between   *)
(* the steps of process, and between those of recv, the other task runs.   *)
(* The broadcast channel is tokio's: a send to a full buffer overwrites    *)
(* the oldest event, and a receiver that has missed some gets Lagged once  *)
(* and continues with the oldest event that is left.                       *)
(***************************************************************************)
EXTENDS Integers, Sequences, FiniteSets

CONSTANTS
  LogCap,      \* capacity of the reducer's lifecycle log (4096)
  HubCap,      \* capacity of the lifecycle topic (1024)
  DeltaCap,    \* capacity of the delta topic (2048)
  MaxFrames    \* bound: frames received

ASSUME FanoutAssumption ==
  /\ LogCap \in Nat \ {0}
  /\ HubCap \in Nat \ {0}
  /\ DeltaCap \in Nat \ {0}
  /\ MaxFrames \in Nat

VARIABLES
  planes,      \* planes[n]: the plane of event n
  phase,       \* how far process is with the last event
  atSequence,  \* Snapshot.at_sequence of the reducer
  log,         \* the lifecycle log
  hub,         \* events in the buffer of the lifecycle topic
  overwritten, \* the last event the lifecycle topic has overwritten
  mode,        \* where the LifecycleStream is
  cursor,      \* LifecycleStream.cursor
  position,    \* last event its receiver has passed
  since,       \* history: the sequence the consumer asked to continue from
  attached,    \* history: the last event published when it subscribed
  skipped,     \* history: events up to here the first Event leapt over
  delivered,   \* history: events the stream has handed over
  excused,     \* history: events up to here were reported by a GapTooOld
  deltas,      \* deltas sent to the delta topic
  deltaNext,   \* deltas its receiver has passed
  deltaGot,    \* history: deltas the DeltaStream has handed over
  dropped      \* DeltaStream.dropped

reducerVars == <<atSequence, log>>
hubVars     == <<hub, overwritten>>
streamVars  == <<mode, cursor, position, since, attached, skipped, delivered,
                 excused>>
deltaVars   == <<deltaNext, deltaGot, dropped>>
fanoutVars == <<planes, phase, atSequence, log, hub, overwritten, mode, cursor,
          position, since, attached, skipped, delivered, excused, deltas,
          deltaNext, deltaGot, dropped>>

Plane == {"lifecycle", "delta"}
Received == Len(planes)
Lifecycle == {n \in 1..Received : planes[n] = "lifecycle"}

\* The last event that is in the log if it belongs there, and the last one
\* that has been published.
Logged    == IF phase = "applied" THEN Received - 1 ELSE Received
Published == IF phase = "idle" THEN Received ELSE Received - 1

Larger(a, b) == IF a > b THEN a ELSE b
Oldest(events) == CHOOSE n \in events : \A m \in events : n <= m

\* Mutant of Pushed: the front is never popped.
PushedForever(events, n, cap) == events \cup {n}

\* push_back on a buffer with room for cap events.
Pushed(events, n, cap) ==
  IF Cardinality(events) < cap THEN events \cup {n}
  ELSE (events \cup {n}) \ {Oldest(events)}

FanoutTypeOK ==
  /\ planes \in Seq(Plane)
  /\ Received <= MaxFrames
  /\ phase \in {"idle", "applied", "logged"}
  /\ phase # "idle" => Received > 0
  /\ atSequence \in 0..Received
  /\ log \subseteq 1..Received /\ Cardinality(log) <= LogCap
  /\ hub \subseteq 1..Received /\ Cardinality(hub) <= HubCap
  /\ overwritten \in 0..Received
  /\ mode \in {"none", "idle", "lagged", "gap"}
  /\ cursor \in 0..Received
  /\ position \in 0..Received
  /\ since \in 0..Received
  /\ attached \in 0..Received
  /\ skipped \in 0..Received
  /\ delivered \subseteq 1..Received
  /\ excused \in 0..Received
  /\ deltas \in Nat /\ deltaNext \in Nat /\ deltaGot \in Nat /\ dropped \in Nat

FanoutInit ==
  /\ planes = <<>>
  /\ phase = "idle"
  /\ atSequence = 0
  /\ log = {}
  /\ hub = {}
  /\ overwritten = 0
  /\ mode = "none"
  /\ cursor = 0
  /\ position = 0
  /\ since = 0
  /\ attached = 0
  /\ skipped = 0
  /\ delivered = {}
  /\ excused = 0
  /\ deltas = 0
  /\ deltaNext = 0
  /\ deltaGot = 0
  /\ dropped = 0

-----------------------------------------------------------------------------
(* AuthoritativeIngress::process, under the reducer's state lock, then its *)
(* log lock, then the hub.                                                 *)

Apply(plane) ==
  /\ phase = "idle"
  /\ Received < MaxFrames
  /\ planes' = Append(planes, plane)
  /\ atSequence' = Larger(atSequence, Received + 1)
  /\ phase' = "applied"
  /\ UNCHANGED <<log, hubVars, streamVars, deltas, deltaVars>>

Log ==
  /\ phase = "applied"
  /\ log' = IF planes[Received] = "lifecycle"
            THEN Pushed(log, Received, LogCap) ELSE log
  /\ phase' = "logged"
  /\ UNCHANGED <<planes, atSequence, hubVars, streamVars, deltas, deltaVars>>

\* Mutant of Publish: fan-out need not wait for the log.
PublishUnordered ==
  /\ phase \in {"applied", "logged"}
  /\ planes[Received] = "lifecycle"
  /\ hub' = Pushed(hub, Received, HubCap)
  /\ overwritten' = IF Cardinality(hub) < HubCap THEN overwritten
                                                ELSE Oldest(hub)
  /\ phase' = "idle"
  /\ UNCHANGED <<planes, reducerVars, streamVars, deltas, deltaVars>>

Publish ==
  /\ phase = "logged"
  /\ IF planes[Received] = "lifecycle"
     THEN /\ hub' = Pushed(hub, Received, HubCap)
          /\ overwritten' = IF Cardinality(hub) < HubCap THEN overwritten
                                                        ELSE Oldest(hub)
          /\ UNCHANGED deltas
     ELSE /\ deltas' = deltas + 1
          /\ UNCHANGED hubVars
  /\ phase' = "idle"
  /\ UNCHANGED <<planes, reducerVars, streamVars, deltaVars>>

-----------------------------------------------------------------------------
(* events_since.  The log lock is dropped before the snapshot is taken.    *)

\* Mutant of TooOld: the bound off by one.
TooOldByTwo(sequence) == log # {} /\ sequence + 2 < Oldest(log)

TooOld(sequence) == log # {} /\ sequence + 1 < Oldest(log)
EventsSince(sequence) == {n \in log : n > sequence}

(* LifecycleStream.                                                        *)

\* EventHub::lifecycle, with a sequence the consumer has seen.
Subscribe(after) ==
  /\ mode = "none"
  /\ mode' = "idle"
  /\ cursor' = after
  /\ position' = Published
  /\ since' = after
  /\ attached' = Published
  /\ UNCHANGED <<planes, phase, reducerVars, hubVars, skipped, delivered,
                 excused, deltas, deltaVars>>

\* The cursor follows the event, whatever lies between the two: the first
\* Event moves it past all that was published after the sequence asked for and
\* before the subscription.
RecvEvent ==
  /\ mode = "idle"
  /\ overwritten <= position
  /\ \E n \in hub :
       /\ n > position
       /\ \A m \in hub : m > position => n <= m
       /\ cursor' = n
       /\ position' = n
       /\ delivered' = delivered \cup {n}
  /\ skipped' = IF cursor = since THEN attached ELSE skipped
  /\ UNCHANGED <<planes, phase, reducerVars, hubVars, mode, since, attached,
                 excused, deltas, deltaVars>>

\* Mutant of RecvLagged: the cursor follows the receiver.
RecvLaggedMovesCursor ==
  /\ mode = "idle"
  /\ overwritten > position
  /\ position' = overwritten
  /\ cursor' = overwritten
  /\ mode' = "lagged"
  /\ UNCHANGED <<planes, phase, reducerVars, hubVars, since, attached,
                 skipped, delivered, excused, deltas, deltaVars>>

\* The receiver reports Lagged and moves on to the oldest event left.
RecvLagged ==
  /\ mode = "idle"
  /\ overwritten > position
  /\ position' = overwritten
  /\ mode' = "lagged"
  /\ UNCHANGED <<planes, phase, reducerVars, hubVars, cursor, since, attached,
                 skipped, delivered, excused, deltas, deltaVars>>

\* Mutant of Replay: the cursor taken from the snapshot, not from the log.
ReplayToSnapshot ==
  /\ mode = "lagged"
  /\ ~TooOld(cursor)
  /\ cursor' = atSequence
  /\ delivered' = delivered \cup EventsSince(cursor)
  /\ mode' = "idle"
  /\ UNCHANGED <<planes, phase, reducerVars, hubVars, position, since,
                 attached, skipped, excused, deltas, deltaVars>>

Replay ==
  /\ mode = "lagged"
  /\ ~TooOld(cursor)
  /\ \E last \in EventsSince(cursor) \cup {cursor} :
       /\ \A n \in EventsSince(cursor) : n <= last
       /\ cursor' = last
  /\ delivered' = delivered \cup EventsSince(cursor)
  /\ mode' = "idle"
  /\ UNCHANGED <<planes, phase, reducerVars, hubVars, position, since,
                 attached, skipped, excused, deltas, deltaVars>>

FindGap ==
  /\ mode = "lagged"
  /\ TooOld(cursor)
  /\ mode' = "gap"
  /\ UNCHANGED <<planes, phase, reducerVars, hubVars, cursor, position, since,
                 attached, skipped, delivered, excused, deltas, deltaVars>>

\* GapTooOld, with a snapshot that holds the effect of every event up to it.
ReportGap ==
  /\ mode = "gap"
  /\ cursor' = atSequence
  /\ excused' = Larger(excused, atSequence)
  /\ mode' = "idle"
  /\ UNCHANGED <<planes, phase, reducerVars, hubVars, position, since,
                 attached, skipped, delivered, deltas, deltaVars>>

\* The consumer drops the recv() future while it waits for a reducer lock, as
\* a timeout or a select! around it does.
CancelRecv ==
  /\ mode \in {"lagged", "gap"}
  /\ mode' = "idle"
  /\ UNCHANGED <<planes, phase, reducerVars, hubVars, cursor, position, since,
                 attached, skipped, delivered, excused, deltas, deltaVars>>

-----------------------------------------------------------------------------
(* DeltaStream::recv, for a stream that subscribed before the first delta. *)

RecvDelta ==
  /\ deltaNext < deltas
  /\ deltaNext + DeltaCap >= deltas
  /\ deltaNext' = deltaNext + 1
  /\ deltaGot' = deltaGot + 1
  /\ UNCHANGED <<planes, phase, reducerVars, hubVars, streamVars, deltas,
                 dropped>>

\* Mutant of SkipDeltas: the count replaces the total.
SkipDeltasForgets ==
  /\ deltaNext + DeltaCap < deltas
  /\ dropped' = deltas - DeltaCap - deltaNext
  /\ deltaNext' = deltas - DeltaCap
  /\ UNCHANGED <<planes, phase, reducerVars, hubVars, streamVars, deltas,
                 deltaGot>>

SkipDeltas ==
  /\ deltaNext + DeltaCap < deltas
  /\ dropped' = dropped + (deltas - DeltaCap - deltaNext)
  /\ deltaNext' = deltas - DeltaCap
  /\ UNCHANGED <<planes, phase, reducerVars, hubVars, streamVars, deltas,
                 deltaGot>>

FanoutNext ==
  \/ \E plane \in Plane : Apply(plane)
  \/ Log \/ Publish
  \/ \E after \in 0..atSequence : Subscribe(after)
  \/ RecvEvent \/ RecvLagged \/ Replay \/ FindGap \/ ReportGap
  \/ RecvDelta \/ SkipDeltas

FanoutSpec == FanoutInit /\ [][FanoutNext]_fanoutVars

\* The same, for a consumer that cancels recv.
CancelSpec == FanoutInit /\ [][FanoutNext \/ CancelRecv]_fanoutVars

-----------------------------------------------------------------------------

\* events_since never passes for complete what is not: unless it answers
\* GapTooOld, it returns every lifecycle event after the sequence asked for.
ReplayComplete ==
  \A sequence \in 0..Received :
    ~TooOld(sequence) =>
      EventsSince(sequence) = {n \in Lifecycle : sequence < n /\ n <= Logged}

\* What the stream can no longer hand over unless it replays: what its receiver
\* has passed, and what came before its subscription once the cursor has left
\* the sequence asked for.
Passed(n) == IF n <= attached THEN cursor # since ELSE n <= position

\* README: a lagging receiver gets the retained transitions replayed, or a
\* GapTooOld.  Whenever recv is not in progress, each lifecycle event passed
\* after the sequence the consumer asked to continue from was handed over or is
\* covered by a reported gap, in whatever order topic, log and snapshot were
\* read.  The events of skipped are exempt: a stream that gets an Event before
\* it ever lags leaps over what was published between the sequence asked for
\* and the subscription, which OldRequestReported refutes of the README.
NoSilentLoss ==
  mode = "idle" =>
    \A n \in Lifecycle :
      since < n /\ Passed(n) =>
        n \in delivered \/ n <= excused \/ n <= skipped

\* The cursor moves back when the topic still holds events that a replay
\* already returned; but for the events of skipped it never overstates what the
\* consumer has: the next replay starts no later than the first event missing.
CursorIsSafe ==
  \A n \in Lifecycle :
    since < n /\ n <= cursor =>
      n \in delivered \/ n <= excused \/ n <= skipped

\* README: "If the requested sequence is older than the replay log, the stream
\* returns GapTooOld [...] missing historical transitions are reported
\* honestly."  Events after the requested sequence that the log has lost are
\* reported once the stream has gone on from that sequence.
OldRequestReported ==
  \A n \in Lifecycle \ log :
    since < n /\ n <= attached /\ cursor # since =>
      n \in delivered \/ n <= excused

\* Every delta the receiver has passed was handed over or counted.
DeltasAccounted == deltaGot + dropped = deltaNext

\* Reducer before fan-out: what a consumer can receive is in the snapshot
\* and, while the log retains it, in the log.
AuthoritativeFirst ==
  \A n \in hub : n <= atSequence /\ (n \in log \/ \A m \in log : n < m)

-----------------------------------------------------------------------------
(* The inductive invariant behind these properties.                        *)

\* The log holds a suffix of the lifecycle events, never an empty one once
\* there has been an event.
LogIsSuffix ==
  /\ \A n \in log : n \in Lifecycle /\ n <= Logged
  /\ \A n \in Lifecycle :
       n <= Logged => log # {} /\ (n \in log \/ \A m \in log : n < m)

\* The topic holds the lifecycle events that were published and are not yet
\* overwritten.
TopicIsSuffix ==
  /\ hub = {n \in Lifecycle : overwritten < n /\ n <= Published}
  /\ overwritten <= Published

\* What recv relies on between its steps.  A stream whose first item was a
\* replay or a gap has what came before its subscription too.
HeadSafe ==
  cursor # since =>
    \A n \in Lifecycle :
      since < n /\ n <= attached =>
        n \in delivered \/ n <= excused \/ n <= skipped

FanoutInv ==
  /\ atSequence = Received
  /\ LogIsSuffix
  /\ TopicIsSuffix
  /\ position <= Published
  /\ attached <= Published /\ skipped <= attached
  /\ CursorIsSafe
  /\ HeadSafe
  /\ NoSilentLoss
=============================================================================
