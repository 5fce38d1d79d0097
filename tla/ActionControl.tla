--------------------------- MODULE ActionControl ---------------------------
(***************************************************************************)
(* Controller (control/src/lib.rs): start, steer and interrupt on one      *)
(* thread, whose actions share a lock (lock_for gives every thread its     *)
(* own), against a daemon that a GUI also drives.                          *)
(*                                                                         *)
(* An action makes one attempt after another (send_not_written_safe), and  *)
(* each attempt is a request of the transport, of which this module uses   *)
(* only the promise that TransportProofs.tla proves of Transport.tla:      *)
(* RequestContract.  The thread's turns and the notifications about them   *)
(* belong to the daemon; notifications reach the reducer in order, later   *)
(* or earlier than the response they are sent with, or not at all when the *)
(* connection goes.  The caller may drop an action's future at any await.  *)
(***************************************************************************)
EXTENDS Naturals, Sequences

CONSTANTS
  Starts, Steers, Interrupts,  \* the actions called on the thread, by kind
  Retries,                     \* not_written_retries (2 in the code)
  MaxTurns                     \* bound: turns of the thread

Ops == Starts \cup Steers \cup Interrupts
Attempts == Ops \X (1..Retries + 1)

ASSUME ControlAssumption ==
  /\ Starts \cap Steers = {} /\ Interrupts \cap (Starts \cup Steers) = {}
  /\ {Retries, MaxTurns} \subseteq Nat

CONSTANT Nobody
ASSUME NobodyAssumption == Nobody \notin Ops

VARIABLES
  stage,     \* stage[o]: where the call of o is
  target,    \* target[o]: the turn a steer or an interrupt names
  holder,    \* the action that holds the thread's lock
  tries,     \* tries[o]: attempts made
  outcome,   \* outcome[a]: what the transport said of attempt a
  executed,  \* executed[a]: what the daemon did with attempt a
  answer,    \* answer[o]: the turn id in the response to a start, or 0
  waiter,    \* waiter[o]: turn of the event its waiter got, or 0
  read,      \* read[o]: status thread/read found for the target
  result,    \* result[o]: what the caller got
  evidence,  \* evidence[o]: turn whose event it got as evidence, or 0
  turns,     \* the daemon's turns: their status, and who started them
  notices,   \* notifications on their way to the reducer
  heard      \* history: heard[o]: the reducer has applied a notification o
             \* is waiting for since o took the lock

requestVars == <<outcome, executed>>
localVars   == <<read, waiter, heard>>
callVars    == <<stage, target, holder, tries, answer, result, evidence>>
daemonVars  == <<turns, notices>>
controlVars == <<callVars, localVars, requestVars, daemonVars>>

Requests == INSTANCE RequestContract WITH Reqs <- Attempts

\* completed and failed are one: no code here tells them apart.
Terminal == {"completed", "interrupted"}
Gui == <<>>
Turn == [status : Terminal \cup {"active"}, by : Attempts \cup {Gui}]
Notice == [method : {"started", "completed"}, turn : 1..MaxTurns]
Results == {"Confirmed", "Rejected", "OutcomeUnknown"}

ControlTypeOK ==
  /\ stage \in [Ops -> {"idle", "locking", "sending", "waiting", "watching",
                        "reading", "done", "cancelled"}]
  /\ target \in [Ops -> 0..MaxTurns]
  /\ holder \in Ops \cup {Nobody}
  /\ tries \in [Ops -> 0..Retries + 1]
  /\ outcome \in [Attempts -> Requests!Refused \cup Requests!Unknown
                                \cup {"none", "Ok", "Rejected"}]
  /\ executed \in [Attempts -> {"no", "Ok", "Rejected"}]
  /\ answer \in [Ops -> 0..MaxTurns]
  /\ waiter \in [Ops -> 0..MaxTurns]
  /\ read \in [Ops -> Terminal \cup {"none", "active", "absent"}]
  /\ result \in [Ops -> Results \cup {"none"}]
  /\ evidence \in [Ops -> 0..MaxTurns]
  /\ turns \in Seq(Turn) /\ Len(turns) <= MaxTurns
  /\ notices \in Seq(Notice)
  /\ heard \in [Ops -> BOOLEAN]

ControlInit ==
  /\ stage = [o \in Ops |-> "idle"]
  /\ target = [o \in Ops |-> 0]
  /\ holder = Nobody
  /\ tries = [o \in Ops |-> 0]
  /\ Requests!Init
  /\ answer = [o \in Ops |-> 0]
  /\ waiter = [o \in Ops |-> 0]
  /\ read = [o \in Ops |-> "none"]
  /\ result = [o \in Ops |-> "none"]
  /\ evidence = [o \in Ops |-> 0]
  /\ turns = <<>>
  /\ notices = <<>>
  /\ heard = [o \in Ops |-> FALSE]

-----------------------------------------------------------------------------
(* The actions of Controller.                                              *)

\* What belongs to the call of o goes with it, and so does the lock.
Leave(o) ==
  /\ holder' = IF holder = o THEN Nobody ELSE holder
  /\ read' = [read EXCEPT ![o] = "none"]
  /\ waiter' = [waiter EXCEPT ![o] = 0]
  /\ heard' = [heard EXCEPT ![o] = FALSE]

Finish(o, res) ==
  /\ stage' = [stage EXCEPT ![o] = "done"]
  /\ result' = [result EXCEPT ![o] = res]
  /\ Leave(o)

Call(o, turn) ==
  /\ stage[o] = "idle"
  /\ turn = 0 <=> o \in Starts
  /\ target' = [target EXCEPT ![o] = turn]
  /\ stage' = [stage EXCEPT ![o] = "locking"]
  /\ UNCHANGED <<holder, tries, answer, result, evidence, localVars,
                 requestVars, daemonVars>>

\* The lock is taken, and register_waiter follows with no await between.
Lock(o) ==
  /\ stage[o] = "locking"
  /\ holder = Nobody
  /\ holder' = o
  /\ stage' = [stage EXCEPT ![o] = "sending"]
  /\ UNCHANGED <<target, tries, answer, result, evidence, localVars,
                 requestVars, daemonVars>>

Send(o) ==
  /\ stage[o] = "sending"
  /\ tries' = [tries EXCEPT ![o] = @ + 1]
  /\ stage' = [stage EXCEPT ![o] = "waiting"]
  /\ UNCHANGED <<target, holder, answer, result, evidence, localVars,
                 requestVars, daemonVars>>

Attempt(o) == <<o, tries[o]>>
Returned(o, res) == stage[o] = "waiting" /\ Requests!Return(Attempt(o), res)

\* Mutant of Retry: any attempt that was not answered is made again.
RetryUnanswered(o) ==
  /\ \E res \in {"NotWritten", "TimedOut"} : Returned(o, res)
  /\ tries[o] <= Retries
  /\ stage' = [stage EXCEPT ![o] = "sending"]
  /\ UNCHANGED <<target, holder, tries, answer, result, evidence, localVars,
                 daemonVars>>

\* Mutant of Retry: one retry too many.
RetryOnceMore(o) ==
  /\ Returned(o, "NotWritten")
  /\ tries[o] <= Retries + 1
  /\ stage' = [stage EXCEPT ![o] = "sending"]
  /\ UNCHANGED <<target, holder, tries, answer, result, evidence, localVars,
                 daemonVars>>

\* NotWritten, with a retry left; the pause before it is not observable.
Retry(o) ==
  /\ Returned(o, "NotWritten")
  /\ tries[o] <= Retries
  /\ stage' = [stage EXCEPT ![o] = "sending"]
  /\ UNCHANGED <<target, holder, tries, answer, result, evidence, localVars,
                 daemonVars>>

\* Ok.  A steer is confirmed by it; a start and an interrupt go on to watch
\* for their event.  The response to a start may carry the new turn's id.
Accepted(o) ==
  /\ Returned(o, "Ok")
  /\ IF o \in Steers
     THEN Finish(o, "Confirmed")
     ELSE /\ stage' = [stage EXCEPT ![o] = "watching"]
          /\ UNCHANGED <<result, holder, localVars>>
  /\ \/ o \in Starts /\ \E k \in 1..Len(turns) :
          turns[k].by = Attempt(o) /\ answer' = [answer EXCEPT ![o] = k]
     \/ UNCHANGED answer
  /\ UNCHANGED <<target, tries, evidence, daemonVars>>

\* An error of the daemon, or of a transport that did not write.
Refused(o) ==
  /\ \/ Returned(o, "Rejected") \/ Returned(o, "Closed")
     \/ Returned(o, "NotWritten") /\ tries[o] > Retries
  /\ Finish(o, "Rejected")
  /\ UNCHANGED <<target, tries, answer, evidence, daemonVars>>

\* WrittenOutcomeUnknown or TimedOut, which share an arm of every match and
\* are both called TimedOut here: an interrupt reads the thread.
Ambiguous(o) ==
  /\ Returned(o, "TimedOut")
  /\ IF o \in Interrupts
     THEN /\ stage' = [stage EXCEPT ![o] = "reading"]
          /\ UNCHANGED <<result, holder, localVars>>
     ELSE Finish(o, "OutcomeUnknown")
  /\ UNCHANGED <<target, tries, answer, evidence, daemonVars>>

\* Mutant of StartResolved: any turn that was seen to start will do.
StartResolvedByEvent(o) ==
  /\ stage[o] = "watching"
  /\ o \in Starts
  /\ Finish(o, IF answer[o] # 0 \/ waiter[o] # 0 THEN "Confirmed"
                                                  ELSE "OutcomeUnknown")
  /\ evidence' = [evidence EXCEPT ![o] = waiter[o]]
  /\ UNCHANGED <<target, tries, answer, requestVars, daemonVars>>

\* start, when its waiter has an event or the correlation window is over.
StartResolved(o) ==
  /\ stage[o] = "watching"
  /\ o \in Starts
  /\ Finish(o, IF answer[o] # 0 THEN "Confirmed" ELSE "OutcomeUnknown")
  /\ evidence' = IF waiter[o] = answer[o]
                 THEN [evidence EXCEPT ![o] = answer[o]] ELSE evidence
  /\ UNCHANGED <<target, tries, answer, requestVars, daemonVars>>

InterruptObserved(o) ==
  /\ stage[o] = "watching"
  /\ o \in Interrupts
  /\ waiter[o] # 0
  /\ Finish(o, "Confirmed")
  /\ evidence' = [evidence EXCEPT ![o] = waiter[o]]
  /\ UNCHANGED <<target, tries, answer, requestVars, daemonVars>>

WindowElapses(o) ==
  /\ stage[o] = "watching"
  /\ o \in Interrupts
  /\ waiter[o] = 0
  /\ stage' = [stage EXCEPT ![o] = "reading"]
  /\ UNCHANGED <<target, holder, tries, answer, result, evidence, localVars,
                 requestVars, daemonVars>>

\* reconcile_interrupt, when the daemon handles its thread/read ...
ReadHandled(o) ==
  /\ stage[o] = "reading"
  /\ read[o] = "none"
  /\ read' = [read EXCEPT ![o] = IF target[o] \in 1..Len(turns)
                                 THEN turns[target[o]].status ELSE "absent"]
  /\ UNCHANGED <<callVars, waiter, heard, requestVars, daemonVars>>

\* ... and when the read returns, with that status or with an error.
ReadReturns(o) ==
  /\ stage[o] = "reading"
  /\ \/ read[o] \in Terminal /\ Finish(o, "Confirmed")
     \/ Finish(o, "OutcomeUnknown")
  /\ UNCHANGED <<target, tries, answer, evidence, requestVars, daemonVars>>

\* The caller drops the future: nothing is undone but the lock.
Cancel(o) ==
  /\ stage[o] \in {"locking", "sending", "waiting", "watching", "reading"}
  /\ stage' = [stage EXCEPT ![o] = "cancelled"]
  /\ Leave(o)
  /\ UNCHANGED <<target, tries, answer, result, evidence, requestVars,
                 daemonVars>>

ControllerStep(o) ==
  \/ \E turn \in 0..MaxTurns : Call(o, turn)
  \/ Lock(o) \/ Send(o) \/ Retry(o) \/ Accepted(o) \/ Refused(o)
  \/ Ambiguous(o) \/ StartResolved(o) \/ InterruptObserved(o)
  \/ WindowElapses(o) \/ ReadHandled(o) \/ ReadReturns(o) \/ Cancel(o)

-----------------------------------------------------------------------------
(* The daemon and the GUI, and the reducer's delivery to the waiters.      *)

StartTurn(by) ==
  /\ Len(turns) < MaxTurns
  /\ turns' = Append(turns, [status |-> "active", by |-> by])
  /\ notices' = Append(notices,
                       [method |-> "started", turn |-> Len(turns) + 1])

\* The daemon handles a request that was written.  It steers only the turn
\* that is expected; an interrupt it accepts takes effect when the turn ends.
Handle(o, n, verdict) ==
  /\ n <= tries[o]
  /\ Requests!Execute(<<o, n>>, verdict)
  /\ IF o \in Starts /\ verdict = "Ok" THEN StartTurn(<<o, n>>)
                                       ELSE UNCHANGED daemonVars
  /\ o \in Steers /\ verdict = "Ok" =>
       /\ target[o] \in 1..Len(turns)
       /\ turns[target[o]].status = "active"
  /\ UNCHANGED <<callVars, localVars>>

GuiStarts ==
  /\ StartTurn(Gui)
  /\ UNCHANGED <<callVars, localVars, requestVars>>

\* A turn ends by itself, or because somebody interrupted it.
TurnEnds(k, status) ==
  /\ turns[k].status = "active"
  /\ turns' = [turns EXCEPT ![k].status = status]
  /\ notices' = Append(notices, [method |-> "completed", turn |-> k])
  /\ UNCHANGED <<callVars, localVars, requestVars>>

\* Mutant of Listening: the waiter is registered after the response.
ListeningAfter(o) == stage[o] = "watching" /\ waiter[o] = 0

Listening(o) ==
  stage[o] \in {"sending", "waiting", "watching"} /\ waiter[o] = 0

Matches(o, notice) ==
  IF o \in Starts THEN notice.method = "started"
  ELSE /\ o \in Interrupts
       /\ notice = [method |-> "completed", turn |-> target[o]]

\* Reducer::apply serves every waiter whose predicate the event satisfies.
Deliver ==
  /\ notices # <<>>
  /\ notices' = Tail(notices)
  /\ waiter' = [o \in Ops |->
                  IF Listening(o) /\ Matches(o, Head(notices))
                  THEN Head(notices).turn ELSE waiter[o]]
  /\ heard' = [o \in Ops |->
                 heard[o] \/ (holder = o /\ Matches(o, Head(notices)))]
  /\ UNCHANGED <<callVars, read, requestVars, turns>>

\* The connection is lost with what is on it.
NoticesLost ==
  /\ notices # <<>>
  /\ notices' = <<>>
  /\ UNCHANGED <<callVars, localVars, requestVars, turns>>

DaemonStep ==
  \/ \E o \in Ops, n \in 1..Retries + 1, verdict \in {"Ok", "Rejected"} :
       Handle(o, n, verdict)
  \/ GuiStarts
  \/ \E k \in 1..Len(turns), status \in Terminal : TurnEnds(k, status)
  \/ Deliver
  \/ NoticesLost

ControlNext == (\E o \in Ops : ControllerStep(o)) \/ DaemonStep

ControlSpec == ControlInit /\ [][ControlNext]_controlVars

-----------------------------------------------------------------------------

ExecutedOk(o) == \E n \in 1..Retries + 1 : executed[<<o, n>>] = "Ok"

\* README: "Confirmed -- the daemon accepted the request or unique matching
\* evidence was observed".  A start is confirmed with the turn that this very
\* action created, never with one the GUI started meanwhile, and an interrupt
\* only when its turn is over: that the turn was interrupted is more than the
\* code asks for, and InterruptedIsInterrupted fails.
ConfirmedIsTrue ==
  \A o \in Ops : result[o] = "Confirmed" =>
    /\ o \in Starts =>
         /\ answer[o] # 0
         /\ turns[answer[o]].by = Attempt(o)
         /\ evidence[o] \in {0, answer[o]}
    /\ o \in Steers => ExecutedOk(o)
    /\ o \in Interrupts => /\ target[o] \in 1..Len(turns)
                           /\ turns[target[o]].status \in Terminal

\* action-control/spec.md: "Interrupt confirmation SHALL require observing
\* turn/completed(status = interrupted) for the targeted turn."
InterruptedIsInterrupted ==
  \A o \in Interrupts : result[o] = "Confirmed" =>
    turns[target[o]].status = "interrupted"

\* An action, whatever it retries, is to its caller one request that keeps
\* the contract of the transport: handled at most once, never if the action
\* was Rejected without an error of the daemon, accepted if Confirmed by the
\* response.
ActionOutcome ==
  [o \in Ops |->
     IF result[o] = "none" THEN "none"
     ELSE IF result[o] = "Rejected" THEN outcome[Attempt(o)]
     ELSE IF result[o] = "Confirmed" /\ outcome[Attempt(o)] = "Ok" THEN "Ok"
     ELSE "TimedOut"]
ActionExecuted ==
  [o \in Ops |->
     IF \E n \in 1..Retries + 1 : executed[<<o, n>>] # "no"
     THEN executed[<<o, CHOOSE n \in 1..Retries + 1 :
                          executed[<<o, n>>] # "no">>]
     ELSE "no"]
Request == INSTANCE RequestContract WITH
  Reqs <- Ops, outcome <- ActionOutcome, executed <- ActionExecuted

\* This is Request!Spec: a step that leaves what the mapping reads alone
\* stutters, and TLC asks that first.
ActionIsOneRequest ==
  /\ Request!Init
  /\ [][UNCHANGED <<result, tries, requestVars>> \/ Request!Next]_Request!vars

\* "Registered before send, so completion-before-response is still observed":
\* an interrupt gives up watching only if its completion did not come.
NoMissedConfirmation ==
  [][\A o \in Interrupts : WindowElapses(o) => ~heard[o]]_controlVars
=============================================================================
