----------------------------- MODULE EventStore -----------------------------
(***************************************************************************)
(* The bounded in-memory event store (store/src/lib.rs), fed by the        *)
(* ingress task and by the threads that are being subscribed to.           *)
(*                                                                         *)
(* record and record_reconstructed_active_turn hold the store's write lock *)
(* while they push one event and prune, evict_idle_content while it walks  *)
(* the store; the lock is the variable writer, and each turn of their      *)
(* loops that evicts is a step made under it, so that queries, which take  *)
(* the read lock, see only what is left behind.                            *)
(* The ingress task applies an event to the reducer before it records it   *)
(* (AuthoritativeIngress::process, ingest/src/lib.rs), and an anchor takes *)
(* its sequence from the reducer before it takes the store's lock          *)
(* (ThreadIngestor::discover).  Frames are abstracted to their plane, one  *)
(* turn per thread, a size and a receipt time.                             *)
(***************************************************************************)
EXTENDS Integers, Sequences, SequencesExt, FiniteSetsExt

CONSTANTS
  Threads,     \* thread ids
  NoThread,    \* the thread id None
  Shapes,      \* <<kind, encoded size>> of the events there are
  ThreadCap,   \* per_thread_bytes (8 MiB in the code)
  GlobalCap,   \* global_bytes (64 MiB)
  Retention,   \* retention (10 minutes)
  Lag,         \* how much later started_at is than the transport's started
  MaxEvents,   \* bound: frames received
  MaxTime      \* bound: the monotonic clock

Kind == {"delta", "started", "other", "anchor"}

ASSUME StoreAssumption ==
  /\ NoThread \notin Threads
  /\ Shapes \subseteq Kind \X (Nat \ {0})
  /\ {ThreadCap, GlobalCap, Retention, Lag, MaxEvents, MaxTime} \subseteq Nat

VARIABLES
  events,      \* Inner.events
  bytes,       \* Inner.bytes
  threadBytes, \* Inner.thread_bytes
  gaps,        \* Inner.gaps
  writer,      \* the write lock: free, or which loop runs under it
  idle,        \* idle_threads, while evict_idle_content runs
  applied,     \* the reducer's at_sequence
  current,     \* events applied to the reducer and not yet recorded
  clock,       \* receipt time of the last frame
  anchor,      \* anchor[t]: sequence read for t's anchor, NotRead or Done
  fed          \* history: every event ever recorded

ingressVars == <<applied, current, clock>>
storeVars == <<events, bytes, threadBytes, gaps, writer, idle, ingressVars,
               anchor, fed>>

NotRead == 0
Done == -1

Event == [seq : 1..MaxEvents, thread : Threads \cup {NoThread}, kind : Kind,
          size : Nat, time : 0..MaxTime]
Gap == [before : 0..MaxEvents, deltas : Nat, lifecycle : Nat]

IsDelta(e) == e.kind = "delta"
Monus(a, b) == IF a > b THEN a - b ELSE 0
Later(a, b) == IF a > b THEN a ELSE b

StoreTypeOK ==
  /\ events \in Seq(Event)
  /\ bytes \in Nat
  /\ threadBytes \in [Threads -> Nat]
  /\ gaps \in [Threads \cup {NoThread} -> Gap]
  /\ writer \in {"free", "aging", "capping", "sweeping"}
  /\ idle \subseteq Threads
  /\ applied \in 0..MaxEvents
  /\ current \in Seq(Event) /\ Len(current) <= 1
  /\ clock \in 0..MaxTime
  /\ anchor \in [Threads -> {Done, NotRead} \cup 1..MaxEvents]
  /\ fed \subseteq Event

\* before = 0 stands for a thread that has no entry in gaps.
StoreInit ==
  /\ events = <<>>
  /\ bytes = 0
  /\ threadBytes = [t \in Threads |-> 0]
  /\ gaps = [t \in Threads \cup {NoThread} |->
               [before |-> 0, deltas |-> 0, lifecycle |-> 0]]
  /\ writer = "free"
  /\ idle = {}
  /\ applied = 0
  /\ current = <<>>
  /\ clock = 0
  /\ anchor = [t \in Threads |-> NotRead]
  /\ fed = {}

-----------------------------------------------------------------------------
(* The ingress task, between the reducer and the store.                    *)

ApplyFrame ==
  /\ current = <<>>
  /\ applied < MaxEvents
  /\ \E thread \in Threads \cup {NoThread}, shape \in Shapes,
        now \in clock..MaxTime :
       /\ shape[1] # "anchor"
       /\ shape[1] = "started" => thread # NoThread
       /\ current' = <<[seq |-> applied + 1, thread |-> thread,
                        kind |-> shape[1], size |-> shape[2], time |-> now]>>
       /\ clock' = now
  /\ applied' = applied + 1
  /\ UNCHANGED <<events, bytes, threadBytes, gaps, writer, idle, anchor, fed>>

\* record_locked, up to prune_locked.
Push(e) ==
  /\ events' = Append(events, e)
  /\ bytes' = bytes + e.size
  /\ threadBytes' = IF e.thread \in Threads
                    THEN [threadBytes EXCEPT ![e.thread] = @ + e.size]
                    ELSE threadBytes
  /\ writer' = "aging"
  /\ fed' = fed \cup {e}
  /\ UNCHANGED <<gaps, idle>>

Record ==
  /\ writer = "free"
  /\ current # <<>>
  /\ Push(Head(current))
  /\ current' = <<>>
  /\ UNCHANGED <<applied, clock, anchor>>

-----------------------------------------------------------------------------
(* A subscription that found a turn in flight.                             *)

\* Mutant of AnchorRead: the anchor takes the next sequence.
AnchorReadNext(t) ==
  /\ anchor[t] = NotRead
  /\ applied > 0
  /\ anchor' = [anchor EXCEPT ![t] = applied + 1]
  /\ UNCHANGED <<events, bytes, threadBytes, gaps, writer, idle, ingressVars,
                 fed>>

\* current_sequence().  An event has been applied: at the latest the response
\* to thread/resume went through the ingress queue first.
AnchorRead(t) ==
  /\ anchor[t] = NotRead
  /\ applied > 0
  /\ anchor' = [anchor EXCEPT ![t] = applied]
  /\ UNCHANGED <<events, bytes, threadBytes, gaps, writer, idle, ingressVars,
                 fed>>

\* Mutant of StartRetained: the caller looked before the lock.
StartRetainedBefore(t) ==
  \E i \in 1..Len(events) : /\ events[i].kind = "started"
                            /\ events[i].thread = t
                            /\ events[i].seq <= anchor[t]

StartRetained(t) ==
  \E i \in 1..Len(events) : /\ events[i].kind = "started"
                            /\ events[i].thread = t

AnchorSkipped(t) ==
  /\ writer = "free"
  /\ anchor[t] > 0
  /\ StartRetained(t)
  /\ anchor' = [anchor EXCEPT ![t] = Done]
  /\ UNCHANGED <<events, bytes, threadBytes, gaps, writer, idle, ingressVars,
                 fed>>

\* The store tells the time itself, by a clock that run starts at about the
\* same time as connection_loop starts the one of the frames.
AnchorRecord(t) ==
  /\ writer = "free"
  /\ anchor[t] > 0
  /\ ~StartRetained(t)
  /\ \E shape \in Shapes, now \in Monus(clock, Lag)..MaxTime :
       /\ shape[1] = "anchor"
       /\ Push([seq |-> anchor[t], thread |-> t, kind |-> "anchor",
                size |-> shape[2], time |-> now])
  /\ anchor' = [anchor EXCEPT ![t] = Done]
  /\ UNCHANGED ingressVars

-----------------------------------------------------------------------------
(* prune_locked and evict_idle_content.                                    *)

\* Mutant of WithGap: the sequence of the last eviction, not the largest.
WithGapLast(gap, e) ==
  [before |-> e.seq,
   deltas |-> gap.deltas + IF IsDelta(e) THEN 1 ELSE 0,
   lifecycle |-> gap.lifecycle + IF IsDelta(e) THEN 0 ELSE 1]

\* A thread's gap once e has been evicted too.
WithGap(gap, e) ==
  [before |-> Later(gap.before, e.seq),
   deltas |-> gap.deltas + IF IsDelta(e) THEN 1 ELSE 0,
   lifecycle |-> gap.lifecycle + IF IsDelta(e) THEN 0 ELSE 1]

\* remove_at.
EvictAt(i) ==
  LET e == events[i]
  IN  /\ events' = RemoveAt(events, i)
      /\ bytes' = Monus(bytes, e.size)
      /\ threadBytes' = IF e.thread \in Threads
                        THEN [threadBytes EXCEPT ![e.thread] = Monus(@, e.size)]
                        ELSE threadBytes
      /\ gaps' = [gaps EXCEPT ![e.thread] = WithGap(@, e)]
      /\ UNCHANGED <<ingressVars, anchor, fed>>

FrontTooOld ==
  /\ events # <<>>
  /\ Head(events).time < Monus(Last(events).time, Retention)

\* Mutant of AgeOut: one event a push.
AgeOutOnce ==
  /\ writer = "aging"
  /\ FrontTooOld
  /\ EvictAt(1)
  /\ writer' = "capping"
  /\ UNCHANGED idle

AgeOut ==
  /\ writer = "aging"
  /\ FrontTooOld
  /\ EvictAt(1)
  /\ UNCHANGED <<writer, idle>>

AgedOut ==
  /\ writer = "aging"
  /\ ~FrontTooOld
  /\ writer' = "capping"
  /\ UNCHANGED <<events, bytes, threadBytes, gaps, idle, ingressVars, anchor,
                 fed>>

OverThreads == {t \in Threads : threadBytes[t] > ThreadCap}

\* Mutant of OverCap: only the global cap is looked at.
OverGlobalCap == bytes > GlobalCap

OverCap == bytes > GlobalCap \/ OverThreads # {}

\* Mutant of Victim: the newest delta.
VictimNewest(over) ==
  LET found == {i \in 1..Len(events) :
                  /\ IsDelta(events[i])
                  /\ over # {} => events[i].thread \in over}
  IN  IF found # {} THEN Max(found) ELSE 1

\* The position of the event to evict for the sake of the threads over
\* their cap, or of the global cap if there are none: the first delta
\* there, else the first event of the whole store.
Victim(over) ==
  LET found == {i \in 1..Len(events) :
                  /\ IsDelta(events[i])
                  /\ over # {} => events[i].thread \in over}
  IN  IF found # {} THEN Min(found) ELSE 1

Evict ==
  /\ writer = "capping"
  /\ OverCap
  /\ events # <<>>
  /\ IF OverThreads = {} THEN EvictAt(Victim({}))
     ELSE \E t \in OverThreads : EvictAt(Victim({t}))
  /\ UNCHANGED <<writer, idle>>

Unlock ==
  /\ writer = "capping"
  /\ ~OverCap
  /\ writer' = "free"
  /\ UNCHANGED <<events, bytes, threadBytes, gaps, idle, ingressVars, anchor,
                 fed>>

\* evict_idle_content, from the newest event to the oldest.
SweepBegins(threads) ==
  /\ writer = "free"
  /\ writer' = "sweeping"
  /\ idle' = threads
  /\ UNCHANGED <<events, bytes, threadBytes, gaps, ingressVars, anchor, fed>>

IdleContent ==
  {i \in 1..Len(events) : IsDelta(events[i]) /\ events[i].thread \in idle}

Sweep ==
  /\ writer = "sweeping"
  /\ IdleContent # {}
  /\ EvictAt(Max(IdleContent))
  /\ UNCHANGED <<writer, idle>>

SweepEnds ==
  /\ writer = "sweeping"
  /\ IdleContent = {}
  /\ writer' = "free"
  /\ idle' = {}
  /\ UNCHANGED <<events, bytes, threadBytes, gaps, ingressVars, anchor, fed>>

StoreNext ==
  \/ ApplyFrame \/ Record
  \/ \E t \in Threads : AnchorRead(t) \/ AnchorSkipped(t) \/ AnchorRecord(t)
  \/ AgeOut \/ AgedOut \/ Evict \/ Unlock
  \/ \E threads \in SUBSET Threads \ {{}} : SweepBegins(threads)
  \/ Sweep \/ SweepEnds

StoreSpec == StoreInit /\ [][StoreNext]_storeVars

-----------------------------------------------------------------------------
(* What a query can count on; queries run when no writer does.             *)

SumOfSizes(S) == MapThenSumSet(LAMBDA i : events[i].size, S)
Retained == ToSet(events)
Lost(t) == {e \in fed \ Retained : e.thread = t}

\* The caps bound what is really retained, whatever the counters say, and a
\* thread's counter is no larger than it should be, or other events would be
\* evicted in its name.
CapsHold ==
  writer = "free" =>
    /\ SumOfSizes(1..Len(events)) <= GlobalCap
    /\ bytes = SumOfSizes(1..Len(events))
    /\ \A t \in Threads :
         LET mine == {i \in 1..Len(events) : events[i].thread = t}
         IN  SumOfSizes(mine) <= ThreadCap /\ threadBytes[t] = SumOfSizes(mine)

\* The gap a query of one thread returns (query_sequence, query_time) covers
\* every event of the thread that is gone, in whatever order prune_locked and
\* evict_idle_content took them, and counts them exactly.
ThreadGapsExact ==
  \A t \in Threads \cup {NoThread} :
    /\ gaps[t].before = Max({0} \cup {e.seq : e \in Lost(t)})
    /\ gaps[t].deltas = Cardinality({e \in Lost(t) : IsDelta(e)})
    /\ gaps[t].lifecycle = Cardinality({e \in Lost(t) : ~IsDelta(e)})

\* record_reconstructed_active_turn: "only when no genuine wire turn/started
\* for the same turn is already retained", although the turn may start, and
\* its start be recorded, between the thread/read and the store's lock.
NoAnchorAfterStart ==
  \A i, j \in 1..Len(events) :
    i < j /\ events[i].kind = "started" /\ events[j].kind = "anchor" =>
      events[i].thread # events[j].thread

\* event-store/spec.md: when a byte cap is reached the "oldest deltas" go.  A
\* delta that prune_locked evicts for a cap is older than every delta of its
\* thread that stays, and than every delta of the store if only the global cap
\* is exceeded; in that case no lifecycle record goes while there is a delta.
\* What goes when a thread over its cap has no delta is said by DeltasFirst.
OldestDeltaFirst ==
  [][writer = "capping" =>
       \A e \in Retained \ Retained', d \in Retained' :
         IsDelta(d) =>
           /\ IsDelta(e) /\ (d.thread = e.thread \/ OverThreads = {}) =>
                e.seq < d.seq
           /\ OverThreads = {} => IsDelta(e)]_storeVars

\* README: "When a byte cap is exceeded, older delta records are evicted before
\* lifecycle records."
DeltasFirst ==
  [][writer = "capping" /\ (\E d \in Retained : IsDelta(d)) =>
       \A e \in Retained \ Retained' : IsDelta(e)]_storeVars

\* When an event was received, at the latest, by the transport's clock.
ReceiptTime(e) == IF e.kind = "anchor" THEN e.time + Lag ELSE e.time

\* README: "Events older than the moving monotonic window are removed."  One
\* received before the window of the last event is only there if an anchor in
\* that window, which has a clock of its own, may have stood before it.
WindowHolds ==
  writer = "free" =>
    \A i \in 1..Len(events) :
      ReceiptTime(events[i]) + Retention < Last(events).time =>
        \E a \in fed : /\ a.kind = "anchor" /\ a # Last(events)
                       /\ a.time + Retention >= Last(events).time
=============================================================================
