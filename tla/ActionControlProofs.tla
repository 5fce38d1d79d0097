------------------------- MODULE ActionControlProofs -------------------------
(***************************************************************************)
(* Proofs about ActionControl, for any actions, retries and turns: its     *)
(* types, that what an action tells its caller is true, that an action is  *)
(* one request however often it is retried, and that no completion is      *)
(* overlooked.                                                             *)
(***************************************************************************)
EXTENDS ActionControl, SequenceTheorems, TLAPS

Stages == {"idle", "locking", "sending", "waiting", "watching", "reading",
           "done", "cancelled"}
Outcomes == {"none", "Ok", "Rejected", "NotWritten", "Closed",
             "WrittenOutcomeUnknown", "TimedOut"}
ReadStatus == Terminal \cup {"none", "active", "absent"}

CallTypes ==
  /\ stage \in [Ops -> Stages]
  /\ target \in [Ops -> 0..MaxTurns]
  /\ holder \in Ops \cup {Nobody}
  /\ tries \in [Ops -> 0..Retries + 1]
  /\ answer \in [Ops -> 0..MaxTurns]
  /\ result \in [Ops -> Results \cup {"none"}]
  /\ evidence \in [Ops -> 0..MaxTurns]

LocalTypes ==
  /\ waiter \in [Ops -> 0..MaxTurns]
  /\ read \in [Ops -> ReadStatus]
  /\ heard \in [Ops -> BOOLEAN]

RequestTypes ==
  /\ outcome \in [Attempts -> Outcomes]
  /\ executed \in [Attempts -> {"no", "Ok", "Rejected"}]

DaemonTypes ==
  /\ turns \in Seq(Turn) /\ Len(turns) <= MaxTurns
  /\ notices \in Seq(Notice)

LEMMA TypesInParts ==
  ControlTypeOK <=> CallTypes /\ LocalTypes /\ RequestTypes /\ DaemonTypes
  BY DEF ControlTypeOK, CallTypes, LocalTypes, RequestTypes, DaemonTypes,
     Stages, Outcomes, ReadStatus, Requests!Refused, Requests!Unknown

\* Attempts are made one after another: the ones to come are untouched, the
\* ones gone by were not written.
AttemptsInOrder ==
  \A o \in Ops, n \in 1..Retries + 1 :
    /\ n > tries[o] => outcome[<<o, n>>] = "none" /\ executed[<<o, n>>] = "no"
    /\ n < tries[o] => outcome[<<o, n>>] = "NotWritten"

\* The transport keeps its contract.
AttemptsTruthful ==
  \A a \in Attempts :
    /\ outcome[a] \in {"NotWritten", "Closed"} => executed[a] = "no"
    /\ outcome[a] \in {"Ok", "Rejected"} => executed[a] = outcome[a]

\* What the stage of a call says of its last attempt.
StageTells(o) ==
  /\ stage[o] \in {"idle", "locking"} => tries[o] = 0
  /\ stage[o] = "sending" =>
       /\ tries[o] <= Retries
       /\ tries[o] > 0 => outcome[Attempt(o)] = "NotWritten"
  /\ stage[o] \in {"waiting", "watching", "reading", "done"} => tries[o] > 0
  /\ stage[o] = "waiting" => outcome[Attempt(o)] = "none"
  /\ stage[o] = "watching" => outcome[Attempt(o)] = "Ok" /\ o \notin Steers
  /\ stage[o] = "reading" =>
       outcome[Attempt(o)] \in {"Ok", "TimedOut"} /\ o \in Interrupts
  /\ stage[o] = "done" <=> result[o] # "none"

\* What a result says of it.
ResultTells(o) ==
  /\ result[o] = "Rejected" =>
       outcome[Attempt(o)] \in {"NotWritten", "Closed", "Rejected"}
  /\ result[o] = "Confirmed" =>
       /\ outcome[Attempt(o)] \in {"Ok", "TimedOut"}
       /\ o \notin Interrupts => outcome[Attempt(o)] = "Ok"

CallsTell == \A o \in Ops : StageTells(o) /\ ResultTells(o)

AttemptInv == AttemptsInOrder /\ AttemptsTruthful /\ CallsTell

-----------------------------------------------------------------------------

\* A turn that is over.
Over(k) == k \in 1..Len(turns) /\ turns[k].status \in Terminal

\* Notifications are about turns there are.
NoticesTrue ==
  \A i \in 1..Len(notices) :
    /\ notices[i].turn \in 1..Len(turns)
    /\ notices[i].method = "completed" => Over(notices[i].turn)

\* An interrupt's waiter and its read tell of the end of its turn only.
InterruptTrue(o) ==
  /\ waiter[o] # 0 => Over(target[o])
  /\ read[o] \in Terminal => Over(target[o])
  /\ result[o] = "Confirmed" => Over(target[o])

\* The turn in the response to a start is the one it started.
StartTrue(o) ==
  /\ answer[o] # 0 => /\ answer[o] \in 1..Len(turns)
                      /\ turns[answer[o]].by = Attempt(o)
  /\ evidence[o] \in {0, answer[o]}
  /\ result[o] = "Confirmed" => answer[o] # 0

\* Until it has the lock, a call has nothing; until it has its response, no
\* turn.
NothingYet(o) ==
  /\ stage[o] \in {"idle", "locking"} => waiter[o] = 0 /\ read[o] = "none"
  /\ stage[o] \in {"idle", "locking", "sending", "waiting"} =>
       answer[o] = 0 /\ evidence[o] = 0

EvidenceInv ==
  /\ NoticesTrue
  /\ \A o \in Interrupts : InterruptTrue(o)
  /\ \A o \in Starts : StartTrue(o)
  /\ \A o \in Ops : NothingYet(o)

-----------------------------------------------------------------------------

\* The stages of a call that has the thread's lock.
Acting == {"sending", "waiting", "watching", "reading"}

\* The lock is held by the call that acts, and what was heard since it was
\* taken is in the waiter.
ListensFromTheLock ==
  \A o \in Ops :
    /\ holder = o <=> stage[o] \in Acting
    /\ heard[o] => stage[o] \in Acting
    /\ heard[o] /\ stage[o] # "reading" => waiter[o] # 0

-----------------------------------------------------------------------------
(* Types.                                                                  *)

Types == CallTypes /\ LocalTypes /\ RequestTypes /\ DaemonTypes

\* The attempt of a call that has made one.
LEMMA AttemptIsAttempt ==
  ASSUME ControlAssumption, CallTypes, NEW o \in Ops, tries[o] > 0
  PROVE  Attempt(o) \in Attempts /\ tries[o] \in 1..Retries + 1
  BY DEF Attempt, Attempts, CallTypes, ControlAssumption

LEMMA LeaveKeepsTypes ==
  ASSUME ControlAssumption, CallTypes, LocalTypes, NEW o \in Ops, Leave(o)
  PROVE  LocalTypes' /\ holder' \in Ops \cup {Nobody}
<1>1. waiter' \in [Ops -> 0..MaxTurns] /\ 0 \in 0..MaxTurns
  BY DEF Leave, LocalTypes, ControlAssumption
<1>2. read' \in [Ops -> ReadStatus]
  BY DEF Leave, LocalTypes, ReadStatus
<1>3. heard' \in [Ops -> BOOLEAN]
  BY DEF Leave, LocalTypes
<1> QED
  BY <1>1, <1>2, <1>3 DEF Leave, LocalTypes, CallTypes

LEMMA FinishKeepsTypes ==
  ASSUME ControlAssumption, CallTypes, LocalTypes, NEW o \in Ops,
         NEW res \in Results, Finish(o, res),
         UNCHANGED <<target, tries>>,
         answer' \in [Ops -> 0..MaxTurns], evidence' \in [Ops -> 0..MaxTurns]
  PROVE  CallTypes' /\ LocalTypes'
<1>1. LocalTypes' /\ holder' \in Ops \cup {Nobody}
  BY LeaveKeepsTypes DEF Finish
<1>2. stage' \in [Ops -> Stages] /\ result' \in [Ops -> Results \cup {"none"}]
  BY DEF Finish, CallTypes, Stages
<1> QED
  BY <1>1, <1>2 DEF CallTypes

LEMMA ReturnedTypes ==
  ASSUME RequestTypes, NEW o \in Ops, NEW res \in Outcomes \ {"none"},
         Returned(o, res)
  PROVE  RequestTypes' /\ stage[o] = "waiting"
  BY DEF Returned, Requests!Return, RequestTypes

LEMMA ControllerKeepsTypes ==
  ASSUME ControlAssumption, NobodyAssumption, Types, CallsTell,
         NEW o \in Ops, ControllerStep(o)
  PROVE  Types'
<1> USE DEF Types
<1>1. StageTells(o) /\ tries[o] \in 0..Retries + 1
  BY DEF CallsTell, CallTypes
<1>2. Retries \in Nat /\ MaxTurns \in Nat
  BY DEF ControlAssumption
<1>3. CASE \E turn \in 0..MaxTurns : Call(o, turn)
  <2>1. PICK turn \in 0..MaxTurns : Call(o, turn)
    BY <1>3
  <2>2. CallTypes'
    BY <2>1 DEF Call, CallTypes, Stages
  <2> QED
    BY <2>1, <2>2
    DEF Call, LocalTypes, RequestTypes, DaemonTypes, localVars, requestVars,
        daemonVars
<1>4. CASE Lock(o)
  BY <1>4
  DEF Lock, CallTypes, LocalTypes, RequestTypes, DaemonTypes, localVars,
      requestVars, daemonVars, Stages
<1>5. CASE Send(o)
  <2>1. tries[o] + 1 \in 0..Retries + 1
    BY <1>1, <1>2, <1>5 DEF Send, StageTells
  <2> QED
    BY <1>5, <2>1
    DEF Send, CallTypes, LocalTypes, RequestTypes, DaemonTypes, localVars,
        requestVars, daemonVars, Stages
<1>6. CASE Retry(o)
  <2>1. RequestTypes'
    BY <1>6, ReturnedTypes DEF Retry, Outcomes
  <2> QED
    BY <1>6, <2>1
    DEF Retry, CallTypes, LocalTypes, DaemonTypes, localVars, daemonVars,
       Stages
<1>7. CASE Accepted(o)
  <2>1. RequestTypes' /\ DaemonTypes'
    BY <1>7, ReturnedTypes DEF Accepted, Outcomes, DaemonTypes, daemonVars
  <2>2. answer' \in [Ops -> 0..MaxTurns]
    <3>1. \A k \in 1..Len(turns) : k \in 0..MaxTurns
      BY <1>2 DEF DaemonTypes
    <3> QED
      BY <1>7, <3>1 DEF Accepted, CallTypes
  <2>3. CASE o \in Steers
    BY <1>7, <2>1, <2>2, <2>3, FinishKeepsTypes DEF Accepted, Results,
       CallTypes
  <2>4. CASE o \notin Steers
    BY <1>7, <2>1, <2>2, <2>4 DEF Accepted, CallTypes, LocalTypes, localVars,
       Stages
  <2> QED
    BY <2>3, <2>4
<1>8. CASE Refused(o)
  <2>1. RequestTypes' /\ DaemonTypes'
    BY <1>8, ReturnedTypes DEF Refused, Outcomes, DaemonTypes, daemonVars
  <2> QED
    BY <1>8, <2>1, FinishKeepsTypes DEF Refused, Results, CallTypes
<1>9. CASE Ambiguous(o)
  <2>1. RequestTypes' /\ DaemonTypes'
    BY <1>9, ReturnedTypes DEF Ambiguous, Outcomes, DaemonTypes, daemonVars
  <2>2. CASE o \in Interrupts
    BY <1>9, <2>1, <2>2 DEF Ambiguous, CallTypes, LocalTypes, localVars, Stages
  <2>3. CASE o \notin Interrupts
    BY <1>9, <2>1, <2>3, FinishKeepsTypes DEF Ambiguous, Results, CallTypes
  <2> QED
    BY <2>2, <2>3
<1>10. CASE StartResolved(o) \/ InterruptObserved(o)
  <2>1. RequestTypes' /\ DaemonTypes'
    BY <1>10
    DEF StartResolved, InterruptObserved, RequestTypes, DaemonTypes,
        requestVars, daemonVars
  <2>2. evidence' \in [Ops -> 0..MaxTurns] /\ UNCHANGED <<answer, target, tries>>
    BY <1>10 DEF StartResolved, InterruptObserved, CallTypes, LocalTypes
  <2>3. \E res \in Results : Finish(o, res)
    BY <1>10 DEF StartResolved, InterruptObserved, Results
  <2>4. answer' \in [Ops -> 0..MaxTurns]
    BY <2>2 DEF CallTypes
  <2> QED
    BY <2>1, <2>2, <2>3, <2>4, FinishKeepsTypes
<1>11. CASE WindowElapses(o)
  BY <1>11
  DEF WindowElapses, CallTypes, LocalTypes, RequestTypes, DaemonTypes,
      localVars, requestVars, daemonVars, Stages
<1>12. CASE ReadHandled(o)
  <2>1. target[o] \in 1..Len(turns) => turns[target[o]].status \in ReadStatus
    <3>1. target[o] \in 1..Len(turns) => turns[target[o]] \in Turn
      BY DEF DaemonTypes
    <3> QED
      BY <3>1 DEF Turn, ReadStatus
  <2>2. read' \in [Ops -> ReadStatus]
    BY <1>12, <2>1 DEF ReadHandled, LocalTypes, ReadStatus
  <2> QED
    BY <1>12, <2>2
    DEF ReadHandled, CallTypes, LocalTypes, RequestTypes, DaemonTypes,
       callVars, requestVars, daemonVars
<1>13. CASE ReadReturns(o)
  <2>1. RequestTypes' /\ DaemonTypes' /\ UNCHANGED <<target, tries>>
    BY <1>13 DEF ReadReturns, RequestTypes, DaemonTypes, requestVars,
       daemonVars
  <2>2. \E res \in Results : Finish(o, res)
    BY <1>13 DEF ReadReturns, Results
  <2>3. answer' \in [Ops -> 0..MaxTurns] /\ evidence' \in [Ops -> 0..MaxTurns]
    BY <1>13 DEF ReadReturns, CallTypes
  <2> QED
    BY <2>1, <2>2, <2>3, FinishKeepsTypes
<1>14. CASE Cancel(o)
  <2>1. LocalTypes' /\ holder' \in Ops \cup {Nobody}
    BY <1>14, LeaveKeepsTypes DEF Cancel
  <2> QED
    BY <1>14, <2>1
    DEF Cancel, CallTypes, RequestTypes, DaemonTypes, requestVars, daemonVars,
        Stages
<1> QED
  BY <1>3, <1>4, <1>5, <1>6, <1>7, <1>8, <1>9, <1>10, <1>11, <1>12, <1>13, <1>14
  DEF ControllerStep

LEMMA StartTurnTypes ==
  ASSUME ControlAssumption, DaemonTypes, NEW by \in Attempts \cup {Gui},
         StartTurn(by)
  PROVE  DaemonTypes' /\ Len(turns') = Len(turns) + 1
<1>1. [status |-> "active", by |-> by] \in Turn
  BY DEF Turn
<1>2. Len(turns) \in Nat /\ Len(turns) + 1 \in 1..MaxTurns
  BY DEF StartTurn, DaemonTypes, ControlAssumption
<1>3. [method |-> "started", turn |-> Len(turns) + 1] \in Notice
  BY <1>2 DEF Notice
<1> QED
  BY <1>1, <1>2, <1>3 DEF StartTurn, DaemonTypes

LEMMA DaemonKeepsTypes ==
  ASSUME ControlAssumption, Types, DaemonStep
  PROVE  Types'
<1> USE DEF Types
<1>1. ASSUME NEW o \in Ops, NEW n \in 1..Retries + 1,
             NEW verdict \in {"Ok", "Rejected"}, Handle(o, n, verdict)
      PROVE  Types'
  <2>1. <<o, n>> \in Attempts
    BY DEF Attempts
  <2>2. RequestTypes'
    BY <1>1 DEF Handle, Requests!Execute, RequestTypes
  <2>3. DaemonTypes'
    BY <1>1, <2>1, StartTurnTypes DEF Handle, DaemonTypes, daemonVars
  <2> QED
    BY <1>1, <2>2, <2>3 DEF Handle, CallTypes, LocalTypes, callVars, localVars
<1>2. CASE GuiStarts
  <2>1. DaemonTypes'
    BY <1>2, StartTurnTypes DEF GuiStarts
  <2> QED
    BY <1>2, <2>1
    DEF GuiStarts, CallTypes, LocalTypes, RequestTypes, callVars, localVars,
        requestVars
<1>3. ASSUME NEW k \in 1..Len(turns), NEW status \in Terminal, TurnEnds(k, status)
      PROVE  Types'
  <2>1. turns[k] \in Turn
    BY DEF DaemonTypes
  <2>2. [turns[k] EXCEPT !.status = status] \in Turn
    BY <2>1 DEF Turn
  <2>3. turns' = [turns EXCEPT ![k] = [turns[k] EXCEPT !.status = status]]
    BY <1>3 DEF TurnEnds
  <2>4. turns' \in Seq(Turn) /\ Len(turns') = Len(turns)
    BY <2>2, <2>3, ExceptSeq DEF DaemonTypes
  <2>5. [method |-> "completed", turn |-> k] \in Notice
    BY DEF Notice, DaemonTypes, ControlAssumption
  <2>6. notices' \in Seq(Notice)
    BY <1>3, <2>5 DEF TurnEnds, DaemonTypes
  <2> QED
    BY <1>3, <2>4, <2>6
    DEF TurnEnds, CallTypes, LocalTypes, RequestTypes, DaemonTypes, callVars,
        localVars, requestVars
<1>4. CASE Deliver
  <2>1. Head(notices) \in Notice /\ Tail(notices) \in Seq(Notice)
    BY <1>4, HeadTailProperties DEF Deliver, DaemonTypes
  <2>2. Head(notices).turn \in 0..MaxTurns
    BY <2>1 DEF Notice
  <2>3. waiter' \in [Ops -> 0..MaxTurns]
    BY <1>4, <2>2 DEF Deliver, LocalTypes
  <2>4. heard' \in [Ops -> BOOLEAN]
    BY <1>4 DEF Deliver
  <2> QED
    BY <1>4, <2>1, <2>3, <2>4
    DEF Deliver, CallTypes, LocalTypes, RequestTypes, DaemonTypes, callVars,
        requestVars
<1>5. CASE NoticesLost
  BY <1>5
  DEF NoticesLost, CallTypes, LocalTypes, RequestTypes, DaemonTypes, callVars,
      localVars, requestVars
<1> QED
  BY <1>1, <1>2, <1>3, <1>4, <1>5 DEF DaemonStep

-----------------------------------------------------------------------------
(* Calls and their attempts.                                               *)

\* What is known of one call.
Same(p) ==
  /\ stage'[p] = stage[p] /\ target'[p] = target[p] /\ tries'[p] = tries[p]
  /\ answer'[p] = answer[p] /\ result'[p] = result[p]
  /\ evidence'[p] = evidence[p]
  /\ waiter'[p] = waiter[p] /\ read'[p] = read[p] /\ heard'[p] = heard[p]
  /\ \A n \in 1..Retries + 1 : outcome'[<<p, n>>] = outcome[<<p, n>>]

\* An action touches nothing of the other actions.
LEMMA OthersSame ==
  ASSUME ControlAssumption, Types, CallsTell, NEW o \in Ops, ControllerStep(o)
  PROVE  /\ \A p \in Ops \ {o} : Same(p)
         /\ UNCHANGED <<executed, turns, notices>>
<1> SUFFICES ASSUME NEW p \in Ops \ {o}
             PROVE  Same(p) /\ UNCHANGED <<executed, turns, notices>>
  BY DEF ControllerStep, Call, Lock, Send, Retry, Accepted, Refused, Ambiguous,
     StartResolved, InterruptObserved, WindowElapses, ReadHandled, ReadReturns,
     Cancel, Returned, Requests!Return, requestVars, daemonVars
<1>1. StageTells(o) /\ Types
  BY DEF CallsTell
<1>2. ASSUME NEW res, Returned(o, res)
      PROVE  /\ \A n \in 1..Retries + 1 : outcome'[<<p, n>>] = outcome[<<p, n>>]
             /\ UNCHANGED executed
  <2>1. Attempt(o) = <<o, tries[o]>> /\ p # o
    BY DEF Attempt
  <2>2. \A n \in 1..Retries + 1 : <<p, n>> \in Attempts /\ <<p, n>> # Attempt(o)
    BY <2>1 DEF Attempts
  <2> QED
    BY <1>1, <1>2, <2>2
    DEF Returned, Requests!Return, Types, RequestTypes
<1> USE DEF Types, CallTypes, LocalTypes, Same, localVars, requestVars, daemonVars
<1>3. CASE (\E turn \in 0..MaxTurns : Call(o, turn)) \/ Lock(o) \/ Send(o)
  BY <1>3 DEF Call, Lock, Send
<1>4. CASE Retry(o)
  BY <1>2, <1>4 DEF Retry
<1>5. CASE Accepted(o)
  BY <1>2, <1>5 DEF Accepted, Finish, Leave
<1>6. CASE Refused(o) \/ Ambiguous(o)
  BY <1>2, <1>6 DEF Refused, Ambiguous, Finish, Leave
<1>7. CASE StartResolved(o) \/ InterruptObserved(o) \/ ReadReturns(o) \/ Cancel(o)
  BY <1>7 DEF StartResolved, InterruptObserved, ReadReturns, Cancel, Finish,
     Leave
<1>8. CASE WindowElapses(o) \/ ReadHandled(o)
  BY <1>8 DEF WindowElapses, ReadHandled, callVars
<1> QED
  BY <1>3, <1>4, <1>5, <1>6, <1>7, <1>8 DEF ControllerStep

\* What the transport returns for an attempt.
LEMMA ReturnTells ==
  ASSUME ControlAssumption, Types, AttemptInv, NEW o \in Ops,
         NEW res \in Outcomes \ {"none"}, Returned(o, res), UNCHANGED tries
  PROVE  /\ AttemptsInOrder' /\ AttemptsTruthful'
         /\ stage[o] = "waiting"
         /\ tries[o] > 0 /\ Attempt(o) \in Attempts /\ Attempt(o)' = Attempt(o)
         /\ outcome'[Attempt(o)] = res
         /\ res \in {"Ok", "Rejected"} => executed'[Attempt(o)] = res
         /\ res \in {"NotWritten", "Closed"} => executed'[Attempt(o)] = "no"
<1>1. stage[o] = "waiting" /\ Requests!Return(Attempt(o), res)
  BY DEF Returned
<1>2. tries[o] > 0
  BY <1>1 DEF AttemptInv, CallsTell, StageTells
<1>3. Attempt(o) \in Attempts /\ tries[o] \in 1..Retries + 1
  BY <1>2, AttemptIsAttempt DEF Types
<1>4. /\ outcome' = [outcome EXCEPT ![Attempt(o)] = res] /\ executed' = executed
      /\ res \in {"Ok", "Rejected"} => executed[Attempt(o)] = res
      /\ res \in {"NotWritten", "Closed"} => executed[Attempt(o)] = "no"
  <2>1. executed[Attempt(o)] \in {"no", "Ok", "Rejected"}
    BY <1>3 DEF Types, RequestTypes
  <2> QED
    BY <1>1, <2>1 DEF Requests!Return, Requests!Refused, Requests!Unknown
<1>5. outcome'[Attempt(o)] = res
  BY <1>3, <1>4 DEF Types, RequestTypes
<1>6. AttemptsTruthful'
  BY <1>3, <1>4 DEF AttemptInv, AttemptsTruthful, Types, RequestTypes
<1>7. AttemptsInOrder'
  <2> SUFFICES ASSUME NEW p \in Ops, NEW n \in 1..Retries + 1
               PROVE  (/\ n > tries[p] => /\ outcome[<<p, n>>] = "none"
                                          /\ executed[<<p, n>>] = "no"
                       /\ n < tries[p] => outcome[<<p, n>>] = "NotWritten")'
    BY DEF AttemptsInOrder
  <2>1. tries'[p] = tries[p] /\ tries[p] \in Int /\ n \in Int
    BY DEF Types, CallTypes, ControlAssumption
  <2>2. CASE n # tries[p]
    <3>1. <<p, n>> # Attempt(o) /\ <<p, n>> \in Attempts
      BY <2>2 DEF Attempt, Attempts
    <3>2. outcome'[<<p, n>>] = outcome[<<p, n>>]
      BY <1>4, <3>1 DEF Types, RequestTypes
    <3> QED
      BY <1>4, <2>1, <3>2 DEF AttemptInv, AttemptsInOrder
  <2>3. CASE n = tries[p]
    BY <2>1, <2>3
  <2> QED
    BY <2>2, <2>3
<1> QED
  BY <1>1, <1>2, <1>3, <1>4, <1>5, <1>6, <1>7 DEF Attempt

LEMMA ControllerKeepsAttempts ==
  ASSUME ControlAssumption, Types, AttemptInv, NEW o \in Ops, ControllerStep(o)
  PROVE  AttemptInv'
<1>1. StageTells(o) /\ ResultTells(o) /\ CallsTell
  BY DEF AttemptInv, CallsTell
<1>2. tries[o] \in 0..Retries + 1 /\ Retries \in Nat
  BY DEF Types, CallTypes, ControlAssumption
<1>3. ASSUME UNCHANGED <<tries, outcome, executed>>
      PROVE  AttemptsInOrder' /\ AttemptsTruthful' /\ Attempt(o)' = Attempt(o)
  BY <1>3 DEF AttemptInv, AttemptsInOrder, AttemptsTruthful, Attempt
<1> USE DEF Types, CallTypes, StageTells, ResultTells, localVars, requestVars,
            daemonVars
<1>4. ASSUME NEW p \in Ops \ {o}
       PROVE  StageTells(p)' /\ ResultTells(p)'
  <2>1. Same(p) /\ StageTells(p) /\ ResultTells(p)
    BY <1>1, OthersSame DEF CallsTell
  <2>2. tries[p] \in 0..Retries + 1
    OBVIOUS
  <2>3. tries[p] > 0 => outcome'[Attempt(p)'] = outcome[Attempt(p)]
    BY <2>1, <2>2 DEF Same, Attempt
  <2> QED
    BY <2>1, <2>3 DEF Same
<1> SUFFICES /\ AttemptsInOrder' /\ AttemptsTruthful'
             /\ StageTells(o)' /\ ResultTells(o)'
  BY <1>4 DEF AttemptInv, CallsTell
<1>5. CASE \E turn \in 0..MaxTurns : Call(o, turn)
  <2>1. PICK turn \in 0..MaxTurns : Call(o, turn)
    BY <1>5
  <2> QED
    BY <1>1, <1>3, <2>1 DEF Call
<1>6. CASE Lock(o)
  BY <1>1, <1>2, <1>3, <1>6 DEF Lock
<1>7. CASE Send(o)
  <2>1. /\ tries'[o] = tries[o] + 1 /\ stage'[o] = "waiting"
        /\ UNCHANGED <<outcome, executed, result>>
        /\ \A p \in Ops \ {o} : tries'[p] = tries[p]
        /\ stage[o] = "sending" /\ tries[o] <= Retries
    BY <1>1, <1>7 DEF Send
  <2>2. AttemptsTruthful'
    BY <2>1 DEF AttemptInv, AttemptsTruthful
  <2>3. AttemptsInOrder'
    <3> SUFFICES ASSUME NEW p \in Ops, NEW n \in 1..Retries + 1
                 PROVE  (/\ n > tries[p] => /\ outcome[<<p, n>>] = "none"
                                            /\ executed[<<p, n>>] = "no"
                         /\ n < tries[p] => outcome[<<p, n>>] = "NotWritten")'
      BY DEF AttemptsInOrder
    <3>1. CASE p # o
      BY <2>1, <3>1 DEF AttemptInv, AttemptsInOrder
    <3>2. CASE p = o
      <4>1. /\ n > tries[o] => outcome[<<o, n>>] = "none" /\ executed[<<o, n>>] = "no"
            /\ n < tries[o] => outcome[<<o, n>>] = "NotWritten"
        BY DEF AttemptInv, AttemptsInOrder
      <4>2. tries[o] > 0 => outcome[<<o, tries[o]>>] = "NotWritten"
        BY <1>1, <2>1 DEF Attempt
      <4>3. tries[o] \in Nat /\ n \in Nat /\ n > 0
        BY <1>2
      <4> QED
        BY <2>1, <3>2, <4>1, <4>2, <4>3
    <3> QED
      BY <3>1, <3>2
  <2>4. outcome'[Attempt(o)'] = "none"
    BY <1>2, <2>1 DEF AttemptInv, AttemptsInOrder, Attempt
  <2>5. result[o] = "none" /\ tries'[o] > 0
    BY <1>1, <1>2, <2>1
  <2> QED
    BY <2>1, <2>2, <2>3, <2>4, <2>5
<1>8. CASE Retry(o)
  <2>1. /\ Returned(o, "NotWritten") /\ UNCHANGED tries /\ stage'[o] = "sending"
        /\ tries[o] <= Retries /\ UNCHANGED result
    BY <1>8 DEF Retry
  <2> QED
    BY <1>1, <2>1, ReturnTells DEF Outcomes
<1>9. CASE Accepted(o)
  <2>1. Returned(o, "Ok") /\ UNCHANGED tries
    BY <1>9 DEF Accepted
  <2>2. CASE o \in Steers
    <3>1. stage'[o] = "done" /\ result'[o] = "Confirmed"
      BY <1>9, <2>2 DEF Accepted, Finish
    <3> QED
      BY <1>1, <2>1, <2>2, <3>1, ReturnTells DEF Outcomes
  <2>3. CASE o \notin Steers
    <3>1. stage'[o] = "watching" /\ result'[o] = result[o]
      BY <1>9, <2>3 DEF Accepted
    <3> QED
      BY <1>1, <2>1, <2>3, <3>1, ReturnTells DEF Outcomes
  <2> QED
    BY <2>2, <2>3
<1>10. CASE Refused(o)
  <2>1. PICK res \in {"Rejected", "Closed", "NotWritten"} : Returned(o, res)
    BY <1>10 DEF Refused
  <2>2. UNCHANGED tries /\ stage'[o] = "done" /\ result'[o] = "Rejected"
    BY <1>10 DEF Refused, Finish
  <2> QED
    BY <1>1, <2>1, <2>2, ReturnTells DEF Outcomes
<1>11. CASE Ambiguous(o)
  <2>1. Returned(o, "TimedOut") /\ UNCHANGED tries
    BY <1>11 DEF Ambiguous
  <2>2. CASE o \in Interrupts
    <3>1. stage'[o] = "reading" /\ result'[o] = result[o]
      BY <1>11, <2>2 DEF Ambiguous
    <3> QED
      BY <1>1, <2>1, <2>2, <3>1, ReturnTells DEF Outcomes
  <2>3. CASE o \notin Interrupts
    <3>1. stage'[o] = "done" /\ result'[o] = "OutcomeUnknown"
      BY <1>11, <2>3 DEF Ambiguous, Finish
    <3> QED
      BY <1>1, <2>1, <2>3, <3>1, ReturnTells DEF Outcomes
  <2> QED
    BY <2>2, <2>3
<1>12. CASE StartResolved(o)
  <2>1. /\ UNCHANGED <<tries, outcome, executed>> /\ stage[o] = "watching"
        /\ stage'[o] = "done" /\ result'[o] \in {"Confirmed", "OutcomeUnknown"}
    BY <1>12 DEF StartResolved, Finish
  <2> QED
    BY <1>1, <1>3, <2>1
<1>13. CASE InterruptObserved(o)
  <2>1. /\ UNCHANGED <<tries, outcome, executed>> /\ stage[o] = "watching"
        /\ stage'[o] = "done" /\ result'[o] = "Confirmed"
    BY <1>13 DEF InterruptObserved, Finish
  <2> QED
    BY <1>1, <1>3, <2>1
<1>14. CASE WindowElapses(o)
  <2>1. /\ UNCHANGED <<tries, outcome, executed, result>>
        /\ stage[o] = "watching" /\ stage'[o] = "reading" /\ o \in Interrupts
    BY <1>14 DEF WindowElapses
  <2> QED
    BY <1>1, <1>3, <2>1
<1>15. CASE ReadHandled(o)
  BY <1>1, <1>3, <1>15 DEF ReadHandled, callVars, Attempt
<1>16. CASE ReadReturns(o)
  <2>1. /\ UNCHANGED <<tries, outcome, executed>> /\ stage[o] = "reading"
        /\ stage'[o] = "done" /\ result'[o] \in {"Confirmed", "OutcomeUnknown"}
    BY <1>16 DEF ReadReturns, Finish
  <2> QED
    BY <1>1, <1>3, <2>1
<1>17. CASE Cancel(o)
  <2>1. /\ UNCHANGED <<tries, outcome, executed, result>>
        /\ stage[o] # "done" /\ stage'[o] = "cancelled"
    BY <1>17 DEF Cancel
  <2> QED
    BY <1>1, <1>3, <2>1
<1> QED
  BY <1>5, <1>6, <1>7, <1>8, <1>9, <1>10, <1>11, <1>12, <1>13, <1>14, <1>15,
     <1>16, <1>17
  DEF ControllerStep

\* The daemon handles the attempt that is out, and no other: those gone by
\* were not written.
LEMMA HandlesTheLast ==
  ASSUME ControlAssumption, Types, AttemptInv, NEW o \in Ops,
         NEW n \in 1..Retries + 1, NEW verdict \in {"Ok", "Rejected"},
         Handle(o, n, verdict)
  PROVE  /\ n = tries[o] /\ <<o, n>> = Attempt(o) /\ <<o, n>> \in Attempts
         /\ executed[<<o, n>>] = "no" /\ outcome[<<o, n>>] \notin {"NotWritten", "Closed"}
         /\ executed' = [executed EXCEPT ![<<o, n>>] = verdict]
         /\ UNCHANGED <<outcome, callVars, localVars>>
<1>1. /\ n <= tries[o] /\ executed[<<o, n>>] = "no"
      /\ outcome[<<o, n>>] \notin {"NotWritten", "Closed"}
      /\ executed' = [executed EXCEPT ![<<o, n>>] = verdict]
      /\ UNCHANGED <<outcome, callVars, localVars>>
  BY DEF Handle, Requests!Execute, Requests!Refused
<1>2. n < tries[o] => outcome[<<o, n>>] = "NotWritten"
  BY DEF AttemptInv, AttemptsInOrder
<1>3. n = tries[o]
  BY <1>1, <1>2 DEF Types, CallTypes, ControlAssumption
<1> QED
  BY <1>1, <1>3 DEF Attempt, Attempts

LEMMA DaemonKeepsAttempts ==
  ASSUME ControlAssumption, Types, AttemptInv, DaemonStep
  PROVE  AttemptInv'
<1>1. ASSUME UNCHANGED <<callVars, outcome, executed>>
      PROVE  AttemptInv'
  BY <1>1
  DEF callVars, AttemptInv, AttemptsInOrder, AttemptsTruthful, CallsTell,
      StageTells, ResultTells, Attempt
<1>2. ASSUME NEW o \in Ops, NEW n \in 1..Retries + 1,
             NEW verdict \in {"Ok", "Rejected"}, Handle(o, n, verdict)
      PROVE  AttemptInv'
  <2>1. /\ n = tries[o] /\ <<o, n>> \in Attempts
        /\ executed[<<o, n>>] = "no" /\ outcome[<<o, n>>] \notin {"NotWritten", "Closed"}
        /\ executed' = [executed EXCEPT ![<<o, n>>] = verdict]
        /\ UNCHANGED <<outcome, callVars>>
    BY <1>2, HandlesTheLast
  <2>2. AttemptsTruthful'
    <3> SUFFICES ASSUME NEW a \in Attempts
                 PROVE  (/\ outcome[a] \in {"NotWritten", "Closed"} => executed[a] = "no"
                         /\ outcome[a] \in {"Ok", "Rejected"} => executed[a] = outcome[a])'
      BY DEF AttemptsTruthful
    <3>1. /\ outcome[a] \in {"NotWritten", "Closed"} => executed[a] = "no"
          /\ outcome[a] \in {"Ok", "Rejected"} => executed[a] = outcome[a]
      BY DEF AttemptInv, AttemptsTruthful
    <3>2. CASE a = <<o, n>>
      BY <2>1, <3>1, <3>2 DEF Types, RequestTypes
    <3>3. CASE a # <<o, n>>
      BY <2>1, <3>1, <3>3 DEF Types, RequestTypes
    <3> QED
      BY <3>2, <3>3
  <2>3. AttemptsInOrder'
    <3> SUFFICES ASSUME NEW p \in Ops, NEW k \in 1..Retries + 1
                 PROVE  (/\ k > tries[p] => /\ outcome[<<p, k>>] = "none"
                                            /\ executed[<<p, k>>] = "no"
                         /\ k < tries[p] => outcome[<<p, k>>] = "NotWritten")'
      BY DEF AttemptsInOrder
    <3>1. /\ k > tries[p] => outcome[<<p, k>>] = "none" /\ executed[<<p, k>>] = "no"
          /\ k < tries[p] => outcome[<<p, k>>] = "NotWritten"
      BY DEF AttemptInv, AttemptsInOrder
    <3>2. k > tries[p] => executed'[<<p, k>>] = executed[<<p, k>>]
      <4>1. tries[p] \in Int /\ k \in Int /\ <<p, k>> \in Attempts
        BY DEF Types, CallTypes, ControlAssumption, Attempts
      <4>2. k > tries[p] => <<p, k>> # <<o, n>>
        BY <2>1, <4>1
      <4> QED
        BY <2>1, <4>1, <4>2 DEF Types, RequestTypes
    <3> QED
      BY <2>1, <3>1, <3>2 DEF callVars
  <2>4. CallsTell'
    BY <2>1
    DEF callVars, AttemptInv, CallsTell, StageTells, ResultTells, Attempt
  <2> QED
    BY <2>2, <2>3, <2>4 DEF AttemptInv
<1> QED
  BY <1>1, <1>2
  DEF DaemonStep, GuiStarts, TurnEnds, Deliver, NoticesLost, requestVars,
      callVars

LEMMA InitTypes ==
  ASSUME ControlAssumption, ControlInit
  PROVE  Types
<1>1. 0 \in 0..MaxTurns /\ 0 \in 0..Retries + 1 /\ MaxTurns \in Nat
  BY DEF ControlAssumption
<1>2. turns \in Seq(Turn) /\ notices \in Seq(Notice) /\ Len(turns) = 0
  BY DEF ControlInit
<1> QED
  BY <1>1, <1>2
  DEF ControlInit, Requests!Init, Types, CallTypes, LocalTypes, RequestTypes,
      DaemonTypes, Stages, Outcomes, ReadStatus

LEMMA InitAttempts ==
  ASSUME ControlAssumption, ControlInit
  PROVE  AttemptInv
  BY DEF ControlInit, Requests!Init, AttemptInv, AttemptsInOrder,
     AttemptsTruthful, CallsTell, StageTells, ResultTells, Attempt, Attempts,
     ControlAssumption

LEMMA AttemptInvariant == ControlSpec => [](Types /\ AttemptInv)
<1> USE ControlAssumption, NobodyAssumption
<1>1. ControlInit => Types /\ AttemptInv
  BY InitTypes, InitAttempts
<1>2. Types /\ AttemptInv /\ [ControlNext]_controlVars => (Types /\ AttemptInv)'
  <2> SUFFICES ASSUME Types, AttemptInv, [ControlNext]_controlVars
               PROVE  Types' /\ AttemptInv'
    OBVIOUS
  <2>1. CASE \E o \in Ops : ControllerStep(o)
    BY <2>1, ControllerKeepsTypes, ControllerKeepsAttempts DEF AttemptInv
  <2>2. CASE DaemonStep
    BY <2>2, DaemonKeepsTypes, DaemonKeepsAttempts
  <2>3. CASE UNCHANGED controlVars
    BY <2>3
    DEF controlVars, callVars, localVars, requestVars, daemonVars, Types,
       CallTypes, LocalTypes, RequestTypes, DaemonTypes, AttemptInv,
       AttemptsInOrder, AttemptsTruthful, CallsTell, StageTells, ResultTells,
       Attempt
  <2> QED
    BY <2>1, <2>2, <2>3 DEF ControlNext
<1> QED
  BY <1>1, <1>2, PTL DEF ControlSpec

\* The data of Controller, of the transport's results and of the daemon have
\* their types: in particular no action makes more than not_written_retries
\* + 1 attempts.
THEOREM ControlTypesCorrect == ControlSpec => []ControlTypeOK
<1>1. Types => ControlTypeOK
  BY TypesInParts DEF Types
<1> QED
  BY <1>1, AttemptInvariant, PTL

-----------------------------------------------------------------------------
(* One request.                                                            *)

\* What the daemon did with an action is what it did with its last attempt.
LastIsHandled ==
  \A o \in Ops :
    ActionExecuted[o] = IF tries[o] > 0 THEN executed[Attempt(o)] ELSE "no"

LEMMA HandledAtMostOnce == Types /\ AttemptInv => LastIsHandled
<1> SUFFICES ASSUME Types, AttemptInv, NEW o \in Ops
             PROVE  ActionExecuted[o] = IF tries[o] > 0
                                        THEN executed[Attempt(o)] ELSE "no"
  BY DEF LastIsHandled
<1> USE ControlAssumption
<1>1. tries[o] \in 0..Retries + 1 /\ Retries \in Nat
  BY DEF Types, CallTypes, ControlAssumption
<1>2. ASSUME NEW n \in 1..Retries + 1, executed[<<o, n>>] # "no"
      PROVE  n = tries[o]
  <2>1. n > tries[o] => executed[<<o, n>>] = "no"
    BY DEF AttemptInv, AttemptsInOrder
  <2>2. n < tries[o] => executed[<<o, n>>] = "no"
    <3>1. <<o, n>> \in Attempts
      BY DEF Attempts
    <3> QED
      BY <3>1 DEF AttemptInv, AttemptsInOrder, AttemptsTruthful
  <2> QED
    BY <1>1, <1>2, <2>1, <2>2
<1>3. CASE \E n \in 1..Retries + 1 : executed[<<o, n>>] # "no"
  <2> DEFINE k == CHOOSE n \in 1..Retries + 1 : executed[<<o, n>>] # "no"
  <2>1. k \in 1..Retries + 1 /\ executed[<<o, k>>] # "no"
    BY <1>3
  <2>2. ActionExecuted[o] = executed[<<o, k>>]
    BY <1>3 DEF ActionExecuted
  <2> HIDE DEF k
  <2>3. k = tries[o] /\ tries[o] > 0
    BY <1>2, <2>1
  <2> QED
    BY <2>2, <2>3 DEF Attempt
<1>4. CASE ~ \E n \in 1..Retries + 1 : executed[<<o, n>>] # "no"
  <2>1. ActionExecuted[o] = "no"
    BY <1>4 DEF ActionExecuted
  <2>2. tries[o] > 0 => executed[<<o, tries[o]>>] = "no"
    BY <1>1, <1>4
  <2> QED
    BY <2>1, <2>2 DEF Attempt
<1> QED
  BY <1>3, <1>4

\* A step of an action returns its one request to its caller, or shows the
\* caller nothing.
LEMMA ControllerRefines ==
  ASSUME ControlAssumption, Types, AttemptInv, Types', AttemptInv',
         NEW o \in Ops, ControllerStep(o)
  PROVE  Request!Next \/ UNCHANGED Request!vars
<1>1. result[o] = "none"
  <2>1. stage[o] # "done"
    BY DEF ControllerStep, Call, Lock, Send, Retry, Accepted, Refused,
           Ambiguous, StartResolved, InterruptObserved, WindowElapses,
           ReadHandled, ReadReturns, Cancel, Returned
  <2> QED
    BY <2>1 DEF AttemptInv, CallsTell, StageTells
<1>2. (\A p \in Ops \ {o} : Same(p)) /\ UNCHANGED executed
  BY OthersSame DEF AttemptInv
<1>3. ActionExecuted' = ActionExecuted
  BY <1>2 DEF ActionExecuted
<1>4. ActionOutcome[o] = "none"
  BY <1>1 DEF ActionOutcome
<1>5. ASSUME NEW p \in Ops \ {o}
      PROVE  ActionOutcome'[p] = ActionOutcome[p]
  <2>1. result'[p] = result[p] /\ Attempt(p)' = Attempt(p)
    BY <1>2 DEF Same, Attempt
  <2>2. result[p] # "none" => outcome'[Attempt(p)] = outcome[Attempt(p)]
    <3>1. result[p] # "none" => tries[p] > 0
      BY DEF AttemptInv, CallsTell, StageTells
    <3> QED
      BY <1>2, <3>1, AttemptIsAttempt DEF Same, Attempt, Types
  <2> QED
    BY <2>1, <2>2 DEF ActionOutcome
<1>6. ActionOutcome' = [ActionOutcome EXCEPT ![o] = ActionOutcome'[o]]
  <2>1. ActionOutcome = [p \in Ops |-> ActionOutcome[p]]
    BY DEF ActionOutcome
  <2>2. ActionOutcome' = [p \in Ops |-> ActionOutcome'[p]]
    BY DEF ActionOutcome
  <2> HIDE DEF ActionOutcome
  <2> QED
    BY <1>5, <2>1, <2>2
<1>7. CASE result'[o] = "none"
  <2>1. ActionOutcome'[o] = "none"
    BY <1>7 DEF ActionOutcome
  <2>2. ActionOutcome = [p \in Ops |-> ActionOutcome[p]]
    BY DEF ActionOutcome
  <2>3. ActionOutcome' = ActionOutcome
    <3> HIDE DEF ActionOutcome
    <3> QED
      BY <1>4, <1>6, <2>1, <2>2
  <2> QED
    BY <1>3, <2>3 DEF Request!vars
<1>8. CASE result'[o] # "none"
  <2> DEFINE res == ActionOutcome'[o]
  <2>1. /\ tries'[o] > 0 /\ stage'[o] = "done"
        /\ result'[o] \in {"Rejected", "Confirmed", "OutcomeUnknown"}
    BY <1>8 DEF AttemptInv, CallsTell, StageTells, Types, CallTypes, Results
  <2>2. Attempt(o)' \in Attempts
    BY <2>1 DEF Attempt, Attempts, Types, CallTypes, ControlAssumption
  <2>3. ActionExecuted'[o] = executed'[Attempt(o)']
    <3>1. (Types /\ AttemptInv => LastIsHandled)'
      BY HandledAtMostOnce, PTL
    <3> QED
      BY <2>1, <3>1 DEF LastIsHandled
  <2>4. /\ outcome'[Attempt(o)'] \in {"NotWritten", "Closed"}
             => ActionExecuted[o] = "no"
        /\ outcome'[Attempt(o)'] \in {"Ok", "Rejected"}
             => ActionExecuted[o] = outcome'[Attempt(o)']
    BY <1>3, <2>2, <2>3 DEF AttemptInv, AttemptsTruthful
  <2>5. CASE result'[o] = "Rejected"
    <3>1. res = outcome'[Attempt(o)']
      BY <2>5 DEF ActionOutcome
    <3>2. res \in {"NotWritten", "Closed", "Rejected"}
      BY <2>5, <3>1 DEF AttemptInv, CallsTell, ResultTells
    <3> HIDE DEF res
    <3>3. Request!Return(o, res)
      BY <1>3, <1>4, <1>6, <2>4, <3>1, <3>2
      DEF Request!Return, Request!Refused, Request!Unknown, res
    <3> QED
      BY <3>2, <3>3 DEF Request!Next, Request!Refused
  <2>6. CASE result'[o] = "Confirmed" /\ outcome'[Attempt(o)'] = "Ok"
    <3>1. res = "Ok"
      BY <2>6 DEF ActionOutcome
    <3>2. Request!Return(o, "Ok")
      BY <1>3, <1>4, <1>6, <2>4, <2>6, <3>1 DEF Request!Return
    <3> QED
      BY <3>2 DEF Request!Next
  <2>7. CASE /\ result'[o] # "Rejected"
             /\ ~(result'[o] = "Confirmed" /\ outcome'[Attempt(o)'] = "Ok")
    <3>1. res = "TimedOut"
      BY <1>8, <2>7 DEF ActionOutcome
    <3>2. Request!Return(o, "TimedOut")
      BY <1>3, <1>4, <1>6, <3>1 DEF Request!Return, Request!Unknown
    <3> QED
      BY <3>2 DEF Request!Next, Request!Unknown
  <2> QED
    BY <2>5, <2>6, <2>7
<1> QED
  BY <1>7, <1>8

\* A step of the daemon handles the one request of an action, or nothing of it.
LEMMA DaemonRefines ==
  ASSUME ControlAssumption, Types, AttemptInv, Types', AttemptInv', DaemonStep
  PROVE  Request!Next \/ UNCHANGED Request!vars
<1>1. ASSUME UNCHANGED <<result, tries, outcome>>
      PROVE  ActionOutcome' = ActionOutcome
  BY <1>1 DEF ActionOutcome, Attempt
<1>2. ASSUME UNCHANGED <<callVars, requestVars>>
      PROVE  UNCHANGED Request!vars
  BY <1>1, <1>2 DEF callVars, requestVars, ActionExecuted, Request!vars
<1>3. ASSUME NEW o \in Ops, NEW n \in 1..Retries + 1,
             NEW verdict \in {"Ok", "Rejected"}, Handle(o, n, verdict)
      PROVE  Request!Execute(o, verdict)
  <2>1. /\ n = tries[o] /\ <<o, n>> = Attempt(o) /\ <<o, n>> \in Attempts
        /\ executed[<<o, n>>] = "no"
        /\ outcome[<<o, n>>] \notin {"NotWritten", "Closed"}
        /\ executed' = [executed EXCEPT ![<<o, n>>] = verdict]
        /\ UNCHANGED <<outcome, callVars, localVars>>
    BY <1>3, HandlesTheLast
  <2>2. LastIsHandled /\ LastIsHandled'
    <3>1. (Types /\ AttemptInv => LastIsHandled)'
      BY HandledAtMostOnce, PTL
    <3> QED
      BY <3>1, HandledAtMostOnce
  <2>3. ActionExecuted[o] = "no" /\ ActionExecuted'[o] = verdict
    <3>1. tries[o] > 0 /\ tries'[o] = tries[o] /\ Attempt(o)' = <<o, n>>
      BY <2>1 DEF callVars, Attempt, ControlAssumption
    <3>2. executed'[<<o, n>>] = verdict
      BY <2>1 DEF Types, RequestTypes
    <3> QED
      BY <2>1, <2>2, <3>1, <3>2 DEF LastIsHandled
  <2>4. ASSUME NEW p \in Ops, p # o
        PROVE  ActionExecuted'[p] = ActionExecuted[p]
    <3>1. Attempt(p)' = Attempt(p) /\ tries'[p] = tries[p]
      BY <2>1 DEF callVars, Attempt
    <3>2. tries[p] > 0 => executed'[Attempt(p)] = executed[Attempt(p)]
      <4>1. Attempt(p) # <<o, n>>
        BY <2>4 DEF Attempt
      <4>2. tries[p] > 0 => Attempt(p) \in Attempts
        BY AttemptIsAttempt DEF Types
      <4> QED
        BY <2>1, <4>1, <4>2 DEF Types, RequestTypes
    <3> QED
      BY <2>2, <3>1, <3>2 DEF LastIsHandled
  <2>5. ActionExecuted' = [ActionExecuted EXCEPT ![o] = verdict]
    <3>1. /\ ActionExecuted = [p \in Ops |-> ActionExecuted[p]]
          /\ ActionExecuted' = [p \in Ops |-> ActionExecuted'[p]]
      BY DEF ActionExecuted
    <3> HIDE DEF ActionExecuted
    <3> QED
      BY <2>3, <2>4, <3>1
  <2>6. ActionOutcome[o] \notin {"NotWritten", "Closed"}
    BY <2>1 DEF ActionOutcome
  <2>7. ActionOutcome' = ActionOutcome
    BY <1>1, <2>1 DEF callVars
  <2> QED
    BY <2>3, <2>5, <2>6, <2>7 DEF Request!Execute, Request!Refused
<1>4. CASE \E o \in Ops, n \in 1..Retries + 1, verdict \in {"Ok", "Rejected"} :
             Handle(o, n, verdict)
  BY <1>3, <1>4 DEF Request!Next
<1>5. CASE UNCHANGED <<callVars, requestVars>>
  BY <1>2, <1>5
<1> QED
  BY <1>4, <1>5 DEF DaemonStep, GuiStarts, TurnEnds, Deliver, NoticesLost

LEMMA RequestStarts == ControlInit => Request!Init
<1> SUFFICES ASSUME ControlInit
             PROVE  Request!Init
  OBVIOUS
<1>1. ActionOutcome = [o \in Ops |-> "none"]
  BY DEF ControlInit, ActionOutcome
<1>2. ActionExecuted = [o \in Ops |-> "no"]
  BY DEF ControlInit, Requests!Init, ActionExecuted, Attempts
<1> QED
  BY <1>1, <1>2 DEF Request!Init

\* send_not_written_safe sends a request again only when the one before was
\* not written: an action, with all its attempts, its response, its evidence
\* and its reads, is one request of the transport's contract.  The daemon
\* carries it out at most once, and never after the caller was told Rejected.
THEOREM ActionIsRequest == ControlSpec => Request!Spec
<1> USE ControlAssumption, NobodyAssumption
<1>1. Types /\ AttemptInv /\ Types' /\ AttemptInv' /\ [ControlNext]_controlVars
        => [Request!Next]_Request!vars
  <2> SUFFICES ASSUME Types, AttemptInv, Types', AttemptInv', [ControlNext]_controlVars
               PROVE  Request!Next \/ UNCHANGED Request!vars
    OBVIOUS
  <2>1. CASE \E o \in Ops : ControllerStep(o)
    BY <2>1, ControllerRefines
  <2>2. CASE DaemonStep
    BY <2>2, DaemonRefines
  <2>3. CASE UNCHANGED controlVars
    BY <2>3
    DEF controlVars, callVars, requestVars, ActionOutcome, ActionExecuted,
       Attempt, Request!vars
  <2> QED
    BY <2>1, <2>2, <2>3 DEF ControlNext
<1> QED
  BY <1>1, RequestStarts, AttemptInvariant, PTL DEF ControlSpec, Request!Spec

\* The same, in the form TLC checks.
THEOREM ActionIsOneRequestHolds == ControlSpec => ActionIsOneRequest
<1>1. [Request!Next]_Request!vars
        => [UNCHANGED <<result, tries, requestVars>> \/ Request!Next]_Request!vars
  OBVIOUS
<1> QED
  BY <1>1, ActionIsRequest, PTL DEF Request!Spec, ActionIsOneRequest

-----------------------------------------------------------------------------
(* Evidence.                                                               *)

LEMMA StepsAreOpen ==
  ASSUME Types, AttemptInv, NEW o \in Ops, ControllerStep(o)
  PROVE  stage[o] \notin {"done", "cancelled"} /\ result[o] = "none"
<1>1. stage[o] \notin {"done", "cancelled"}
  BY DEF ControllerStep, Call, Lock, Send, Retry, Accepted, Refused,
         Ambiguous, StartResolved, InterruptObserved, WindowElapses,
         ReadHandled, ReadReturns, Cancel, Returned
<1> QED
  BY <1>1 DEF AttemptInv, CallsTell, StageTells

\* What an action knows of its own turn.
Knows(o) ==
  /\ o \in Interrupts => InterruptTrue(o)
  /\ o \in Starts => StartTrue(o)
  /\ NothingYet(o)

LEMMA ControllerKeepsEvidence ==
  ASSUME ControlAssumption, Types, AttemptInv, EvidenceInv,
         NEW o \in Ops, ControllerStep(o)
  PROVE  EvidenceInv'
<1>1. (\A p \in Ops \ {o} : Same(p)) /\ UNCHANGED <<executed, turns, notices>>
  BY OthersSame DEF AttemptInv
<1>2. stage[o] \notin {"done", "cancelled"} /\ result[o] = "none"
  BY StepsAreOpen
<1>3. NoticesTrue' /\ \A k : Over(k)' <=> Over(k)
  BY <1>1 DEF EvidenceInv, NoticesTrue, Over
<1>4. \A p \in Ops : Knows(p)
  BY DEF EvidenceInv, Knows
<1>5. ASSUME NEW p \in Ops \ {o}
      PROVE  Knows(p)'
  <2>1. Same(p) /\ Attempt(p)' = Attempt(p) /\ turns' = turns
    BY <1>1 DEF Same, Attempt
  <2> QED
    BY <1>3, <1>4, <2>1 DEF Knows, Same, InterruptTrue, StartTrue, NothingYet
<1>6. Knows(o)'
  <2>1. Knows(o) /\ turns' = turns
    BY <1>1, <1>4
  <2>2. ASSUME UNCHANGED <<target, tries, answer, result, evidence, waiter, read>>,
               stage'[o] \notin {"idle", "locking"},
               stage'[o] \in {"sending", "waiting"} =>
                 stage[o] \in {"locking", "sending", "waiting"}
        PROVE  Knows(o)'
    BY <1>3, <2>1, <2>2
    DEF Knows, InterruptTrue, StartTrue, NothingYet, Attempt
  <2>3. ASSUME NEW res \in {"Rejected", "OutcomeUnknown"}, Finish(o, res),
               UNCHANGED <<target, tries, answer, evidence>>
        PROVE  Knows(o)'
    BY <1>3, <2>1, <2>3
    DEF Knows, InterruptTrue, StartTrue, NothingYet, Attempt, Finish, Leave,
        Types, CallTypes, LocalTypes, Terminal
  <2>4. CASE \E turn \in 0..MaxTurns : Call(o, turn)
    BY <1>2, <1>3, <2>1, <2>4
    DEF Knows, InterruptTrue, StartTrue, NothingYet, Attempt, Call, Types,
        CallTypes, localVars, Terminal
  <2>5. CASE Lock(o) \/ Retry(o) \/ WindowElapses(o)
    BY <1>2, <2>2, <2>5
    DEF Lock, Retry, WindowElapses, Returned, localVars, Types, CallTypes
  <2>6. CASE Send(o)
    BY <1>2, <1>3, <2>1, <2>6
    DEF Knows, InterruptTrue, StartTrue, NothingYet, Send, Types, CallTypes,
        localVars
  <2>7. CASE Accepted(o)
    <3>1. stage[o] = "waiting" /\ UNCHANGED <<target, tries, evidence>>
      BY <2>7 DEF Accepted, Returned
    <3>2. CASE o \in Steers
      <4>1. o \notin Starts /\ o \notin Interrupts /\ stage'[o] = "done"
        BY <2>7, <3>2
        DEF Accepted, Finish, ControlAssumption, Types, CallTypes
      <4> QED
        BY <4>1 DEF Knows, NothingYet
    <3>3. CASE o \notin Steers
      <4>1. /\ stage'[o] = "watching" /\ UNCHANGED <<result, waiter, read>>
            /\ Attempt(o)' = Attempt(o)
        BY <2>7, <3>1, <3>3 DEF Accepted, Types, CallTypes, localVars, Attempt
      <4>2. answer[o] = 0 /\ evidence[o] = 0
        BY <2>1, <3>1 DEF Knows, NothingYet
      <4>3. \/ answer'[o] = answer[o]
            \/ answer'[o] \in 1..Len(turns) /\ turns[answer'[o]].by = Attempt(o)
        BY <2>7 DEF Accepted, Types, CallTypes
      <4> QED
        BY <1>2, <1>3, <2>1, <3>1, <4>1, <4>2, <4>3
        DEF Knows, InterruptTrue, StartTrue, NothingYet
    <3> QED
      BY <3>2, <3>3
  <2>8. CASE Refused(o)
    BY <2>3, <2>8 DEF Refused
  <2>9. CASE Ambiguous(o)
    <3>1. CASE o \in Interrupts
      BY <1>2, <2>2, <2>9, <3>1
      DEF Ambiguous, Types, CallTypes, localVars
    <3>2. CASE o \notin Interrupts
      BY <2>3, <2>9, <3>2 DEF Ambiguous
    <3> QED
      BY <3>1, <3>2
  <2>10. CASE StartResolved(o)
    <3>1. /\ o \in Starts /\ o \notin Interrupts /\ stage'[o] = "done"
          /\ UNCHANGED answer /\ Attempt(o)' = Attempt(o)
          /\ result'[o] = "Confirmed" => answer[o] # 0
          /\ evidence'[o] \in {evidence[o], answer[o]}
      BY <2>10
      DEF StartResolved, Finish, ControlAssumption, Types, CallTypes, Attempt
    <3> QED
      BY <2>1, <3>1 DEF Knows, StartTrue, NothingYet
  <2>11. CASE InterruptObserved(o)
    <3>1. /\ o \in Interrupts /\ o \notin Starts /\ stage'[o] = "done"
          /\ waiter[o] # 0 /\ waiter'[o] = 0 /\ read'[o] = "none"
          /\ UNCHANGED target
      BY <2>11
      DEF InterruptObserved, Finish, Leave, ControlAssumption, Types,
          CallTypes, LocalTypes
    <3> QED
      BY <1>3, <2>1, <3>1 DEF Knows, InterruptTrue, NothingYet, Terminal
  <2>12. CASE ReadHandled(o)
    <3>1. /\ stage[o] = "reading"
          /\ UNCHANGED <<stage, target, tries, answer, result, evidence, waiter>>
          /\ read'[o] \in Terminal => Over(target[o])
      BY <2>12
      DEF ReadHandled, callVars, Types, CallTypes, LocalTypes, Over, Terminal
    <3> QED
      BY <1>2, <1>3, <2>1, <3>1
      DEF Knows, InterruptTrue, StartTrue, NothingYet, Attempt
  <2>13. CASE ReadReturns(o)
    <3>1. CASE read[o] \in Terminal /\ Finish(o, "Confirmed")
      <4>1. o \in Interrupts /\ o \notin Starts
        BY <2>13
        DEF ReadReturns, AttemptInv, CallsTell, StageTells, ControlAssumption
      <4>2. /\ stage'[o] = "done" /\ waiter'[o] = 0 /\ read'[o] = "none"
            /\ UNCHANGED target
        BY <2>13, <3>1
        DEF ReadReturns, Finish, Leave, Types, CallTypes, LocalTypes
      <4> QED
        BY <1>3, <2>1, <3>1, <4>1, <4>2
        DEF Knows, InterruptTrue, NothingYet, Terminal
    <3>2. CASE Finish(o, "OutcomeUnknown")
      BY <2>3, <2>13, <3>2 DEF ReadReturns
    <3> QED
      BY <2>13, <3>1, <3>2 DEF ReadReturns
  <2>14. CASE Cancel(o)
    <3>1. /\ stage'[o] = "cancelled" /\ waiter'[o] = 0 /\ read'[o] = "none"
          /\ UNCHANGED <<target, tries, answer, result, evidence>>
      BY <2>14 DEF Cancel, Leave, Types, CallTypes, LocalTypes
    <3> QED
      BY <1>2, <1>3, <2>1, <3>1
      DEF Knows, InterruptTrue, StartTrue, NothingYet, Attempt, Terminal
  <2> QED
    BY <2>4, <2>5, <2>6, <2>7, <2>8, <2>9, <2>10, <2>11, <2>12, <2>13, <2>14
    DEF ControllerStep
<1> QED
  BY <1>3, <1>5, <1>6 DEF EvidenceInv, Knows, Ops

\* The thread's turns after a step of the daemon: none goes, none gets another
\* author, and one that is over stays so.
TurnsKept ==
  \A k \in 1..Len(turns) :
    /\ k \in 1..Len(turns') /\ turns'[k].by = turns[k].by
    /\ turns[k].status \in Terminal => turns'[k].status \in Terminal

LEMMA NoticeAdded ==
  ASSUME Types, NoticesTrue, TurnsKept, NEW notice \in Notice,
         notices' = Append(notices, notice),
         notice.turn \in 1..Len(turns'),
         notice.method = "completed" => Over(notice.turn)'
  PROVE  NoticesTrue'
<1> SUFFICES ASSUME NEW i \in 1..Len(notices')
             PROVE  (/\ notices[i].turn \in 1..Len(turns)
                     /\ notices[i].method = "completed" => Over(notices[i].turn))'
  BY DEF NoticesTrue
<1>1. /\ Len(notices') = Len(notices) + 1 /\ Len(notices) \in Nat
      /\ \A k \in 1..Len(notices) : notices'[k] = notices[k]
      /\ notices'[Len(notices) + 1] = notice
  BY AppendProperties DEF Types, DaemonTypes
<1>2. CASE i \in 1..Len(notices)
  <2>1. notices'[i] = notices[i]
    BY <1>1, <1>2
  <2>2. /\ notices[i].turn \in 1..Len(turns)
        /\ notices[i].method = "completed" => Over(notices[i].turn)
    BY <1>2 DEF NoticesTrue
  <2> QED
    BY <2>1, <2>2 DEF TurnsKept, Over
<1>3. CASE i = Len(notices) + 1
  BY <1>1, <1>3
<1> QED
  BY <1>1, <1>2, <1>3

LEMMA StartKeepsTurns ==
  ASSUME ControlAssumption, Types, NoticesTrue, NEW by \in Attempts \cup {Gui},
         StartTurn(by)
  PROVE  TurnsKept /\ NoticesTrue'
<1> DEFINE turn == [status |-> "active", by |-> by]
           notice == [method |-> "started", turn |-> Len(turns) + 1]
<1>1. turns \in Seq(Turn) /\ turn \in Turn
  BY DEF Types, DaemonTypes, Turn
<1>2. /\ Len(turns') = Len(turns) + 1 /\ Len(turns) \in Nat
      /\ \A k \in 1..Len(turns) : turns'[k] = turns[k]
  BY <1>1, AppendProperties DEF StartTurn
<1>3. TurnsKept
  BY <1>2 DEF TurnsKept
<1>4. notice \in Notice
  BY <1>2 DEF StartTurn, Notice, ControlAssumption
<1>5. notice.turn \in 1..Len(turns') /\ notice.method # "completed"
  BY <1>2
<1>6. notices' = Append(notices, notice)
  BY DEF StartTurn
<1> QED
  BY <1>3, <1>4, <1>5, <1>6, NoticeAdded

LEMMA EndKeepsTurns ==
  ASSUME ControlAssumption, Types, NoticesTrue, NEW k \in 1..Len(turns),
         NEW status \in Terminal, TurnEnds(k, status)
  PROVE  TurnsKept /\ NoticesTrue'
<1> DEFINE notice == [method |-> "completed", turn |-> k]
<1>1. /\ Len(turns') = Len(turns) /\ Len(turns) \in Nat
      /\ turns'[k] = [turns[k] EXCEPT !.status = status]
      /\ \A i \in 1..Len(turns) : i # k => turns'[i] = turns[i]
  <2>1. turns \in Seq(Turn) /\ turns[k] \in Turn
    BY DEF Types, DaemonTypes
  <2>2. [turns[k] EXCEPT !.status = status] \in Turn
    BY <2>1 DEF Turn
  <2>3. turns' = [turns EXCEPT ![k] = [turns[k] EXCEPT !.status = status]]
    BY DEF TurnEnds
  <2> QED
    BY <2>1, <2>2, <2>3, ExceptSeq
<1>2. turns[k] \in Turn
  BY DEF Types, DaemonTypes
<1>3. turns'[k].status = status /\ turns'[k].by = turns[k].by
  BY <1>1, <1>2 DEF Turn
<1>4. TurnsKept
  BY <1>1, <1>3 DEF TurnsKept
<1>5. notice \in Notice
  BY <1>1 DEF Types, DaemonTypes, Notice, ControlAssumption
<1>6. notice.turn \in 1..Len(turns') /\ Over(notice.turn)'
  BY <1>1, <1>3 DEF Over
<1>7. notices' = Append(notices, notice)
  BY DEF TurnEnds
<1> QED
  BY <1>4, <1>5, <1>6, <1>7, NoticeAdded

\* Evidence outlives such a step, if a waiter is served what has happened.
LEMMA EvidenceOutlives ==
  ASSUME EvidenceInv, TurnsKept, NoticesTrue',
         UNCHANGED <<callVars, read>>,
         \A o \in Ops : stage[o] \in {"idle", "locking"} => waiter'[o] = waiter[o],
         \A o \in Interrupts : \/ waiter'[o] = waiter[o] \/ Over(target[o])
  PROVE  EvidenceInv'
<1>1. \A k : Over(k) => Over(k)'
  BY DEF Over, TurnsKept
<1>2. \A o \in Interrupts : InterruptTrue(o)'
  BY <1>1 DEF EvidenceInv, InterruptTrue, callVars
<1>3. \A o \in Starts : StartTrue(o)'
  BY DEF EvidenceInv, StartTrue, TurnsKept, Attempt, callVars
<1>4. \A o \in Ops : NothingYet(o)'
  BY DEF EvidenceInv, NothingYet, callVars
<1> QED
  BY <1>2, <1>3, <1>4 DEF EvidenceInv

LEMMA DaemonKeepsEvidence ==
  ASSUME ControlAssumption, Types, AttemptInv, EvidenceInv, DaemonStep
  PROVE  EvidenceInv'
<1> USE DEF EvidenceInv, callVars, localVars
<1>1. UNCHANGED turns => TurnsKept
  BY DEF TurnsKept
<1>2. UNCHANGED daemonVars => NoticesTrue'
  BY DEF NoticesTrue, Over, daemonVars
<1>3. ASSUME NEW o \in Ops, NEW n \in 1..Retries + 1,
             NEW verdict \in {"Ok", "Rejected"}, Handle(o, n, verdict)
      PROVE  EvidenceInv'
  <2>1. UNCHANGED <<callVars, localVars>> /\ <<o, n>> \in Attempts
    BY <1>3 DEF Handle, Attempts
  <2>2. CASE StartTurn(<<o, n>>)
    BY <2>1, <2>2, StartKeepsTurns, EvidenceOutlives
  <2>3. CASE UNCHANGED daemonVars
    BY <1>1, <1>2, <2>1, <2>3, EvidenceOutlives DEF daemonVars
  <2> QED
    BY <1>3, <2>2, <2>3 DEF Handle
<1>4. CASE GuiStarts
  BY <1>4, StartKeepsTurns, EvidenceOutlives DEF GuiStarts
<1>5. ASSUME NEW k \in 1..Len(turns), NEW status \in Terminal,
             TurnEnds(k, status)
      PROVE  EvidenceInv'
  BY <1>5, EndKeepsTurns, EvidenceOutlives DEF TurnEnds
<1>6. CASE Deliver
  <2>1. /\ Head(notices) = notices[1] /\ Len(notices) > 0
        /\ Len(notices') = Len(notices) - 1 /\ Len(notices) \in Nat
        /\ \A i \in 1..Len(notices') : notices'[i] = notices[i + 1]
    BY <1>6, HeadTailProperties DEF Deliver, Types, DaemonTypes
  <2>2. NoticesTrue'
    BY <1>6, <2>1 DEF NoticesTrue, Over, Deliver
  <2>3. ASSUME NEW o \in Ops
        PROVE  /\ stage[o] \in {"idle", "locking"} => waiter'[o] = waiter[o]
               /\ o \in Interrupts => \/ waiter'[o] = waiter[o]
                                      \/ Over(target[o])
    <3>1. CASE Listening(o) /\ Matches(o, Head(notices))
      <4>1. stage[o] \notin {"idle", "locking"}
        BY <3>1 DEF Listening
      <4>2. o \in Interrupts => /\ notices[1].method = "completed"
                                /\ notices[1].turn = target[o]
        BY <2>1, <3>1 DEF Matches, ControlAssumption
      <4>3. notices[1].method = "completed" => Over(notices[1].turn)
        BY <2>1 DEF NoticesTrue
      <4> QED
        BY <4>1, <4>2, <4>3
    <3>2. CASE ~(Listening(o) /\ Matches(o, Head(notices)))
      BY <1>6, <3>2 DEF Deliver
    <3> QED
      BY <3>1, <3>2
  <2> QED
    BY <1>1, <1>6, <2>2, <2>3, EvidenceOutlives DEF Deliver, Ops
<1>7. CASE NoticesLost
  <2>1. Len(notices') = 0
    BY <1>7 DEF NoticesLost
  <2>2. NoticesTrue'
    BY <2>1 DEF NoticesTrue
  <2> QED
    BY <1>1, <1>7, <2>2, EvidenceOutlives DEF NoticesLost
<1> QED
  BY <1>3, <1>4, <1>5, <1>6, <1>7 DEF DaemonStep

LEMMA EvidenceInvariant == ControlSpec => []EvidenceInv
<1> USE ControlAssumption, NobodyAssumption
<1>1. ControlInit => EvidenceInv
  BY DEF ControlInit, EvidenceInv, NoticesTrue, InterruptTrue, StartTrue,
     NothingYet, Ops, Terminal
<1>2. Types /\ AttemptInv /\ EvidenceInv /\ [ControlNext]_controlVars => EvidenceInv'
  <2> SUFFICES ASSUME Types, AttemptInv, EvidenceInv, [ControlNext]_controlVars
               PROVE  EvidenceInv'
    OBVIOUS
  <2>1. CASE \E o \in Ops : ControllerStep(o)
    BY <2>1, ControllerKeepsEvidence
  <2>2. CASE DaemonStep
    BY <2>2, DaemonKeepsEvidence
  <2>3. CASE UNCHANGED controlVars
    BY <2>3
    DEF controlVars, callVars, localVars, requestVars, daemonVars, EvidenceInv,
        NoticesTrue, InterruptTrue, StartTrue, NothingYet, Over, Attempt
  <2> QED
    BY <2>1, <2>2, <2>3 DEF ControlNext
<1> QED
  BY <1>1, <1>2, AttemptInvariant, PTL DEF ControlSpec

\* What start, steer and interrupt report Confirmed is so, whoever else
\* drives the thread, whatever order responses and events come in: a start
\* names the turn that this very action created, a steer was accepted by the
\* daemon, an interrupted turn is over.
THEOREM ConfirmationsTrue == ControlSpec => []ConfirmedIsTrue
<1> USE ControlAssumption
<1>1. Types /\ AttemptInv /\ EvidenceInv => ConfirmedIsTrue
  <2> SUFFICES ASSUME Types, AttemptInv, EvidenceInv, NEW o \in Ops,
                      result[o] = "Confirmed"
               PROVE  /\ o \in Starts =>
                           /\ answer[o] # 0
                           /\ turns[answer[o]].by = Attempt(o)
                           /\ evidence[o] \in {0, answer[o]}
                      /\ o \in Steers => ExecutedOk(o)
                      /\ o \in Interrupts =>
                           /\ target[o] \in 1..Len(turns)
                           /\ turns[target[o]].status \in Terminal
    BY DEF ConfirmedIsTrue
  <2>1. CASE o \in Starts
    BY <2>1 DEF EvidenceInv, StartTrue, ControlAssumption
  <2>2. CASE o \in Steers
    <3>1. tries[o] > 0 /\ outcome[Attempt(o)] = "Ok" /\ o \notin Starts
      BY <2>2
      DEF AttemptInv, CallsTell, StageTells, ResultTells, ControlAssumption
    <3>2. Attempt(o) \in Attempts /\ tries[o] \in 1..Retries + 1
      BY <3>1, AttemptIsAttempt DEF Types
    <3>3. executed[<<o, tries[o]>>] = "Ok"
      BY <3>1, <3>2 DEF AttemptInv, AttemptsTruthful, Attempt
    <3> QED
      BY <2>2, <3>1, <3>2, <3>3 DEF ExecutedOk, ControlAssumption
  <2>3. CASE o \in Interrupts
    BY <2>3 DEF EvidenceInv, InterruptTrue, Over, ControlAssumption
  <2> QED
    BY <2>1, <2>2, <2>3 DEF Ops
<1> QED
  BY <1>1, AttemptInvariant, EvidenceInvariant, PTL

-----------------------------------------------------------------------------
(* Listening.                                                              *)

LEMMA ControllerKeepsListening ==
  ASSUME ControlAssumption, NobodyAssumption, Types, AttemptInv,
         ListensFromTheLock, NEW o \in Ops, ControllerStep(o)
  PROVE  ListensFromTheLock'
<1>1. \A p \in Ops \ {o} : Same(p)
  BY OthersSame DEF AttemptInv
<1>2. o # Nobody /\ holder \in Ops \cup {Nobody}
  BY DEF NobodyAssumption, Types, CallTypes
<1>3. StageTells(o)
  BY DEF AttemptInv, CallsTell
<1>4. ASSUME UNCHANGED <<holder, waiter, heard>>,
             stage[o] \in Acting <=> stage'[o] \in Acting,
             stage[o] = "reading" => stage'[o] = "reading"
      PROVE  ListensFromTheLock'
  BY <1>1, <1>4 DEF ListensFromTheLock, Same
<1>5. ASSUME Leave(o), stage'[o] \in {"done", "cancelled"}
      PROVE  ListensFromTheLock'
  <2>1. /\ holder' = IF holder = o THEN Nobody ELSE holder
        /\ heard'[o] = FALSE
    BY <1>5 DEF Leave, Types, LocalTypes
  <2> QED
    BY <1>1, <1>2, <1>5, <2>1
    DEF ListensFromTheLock, Same, Acting, NobodyAssumption
<1>6. CASE Lock(o)
  <2>1. /\ stage[o] = "locking" /\ stage'[o] = "sending" /\ holder = Nobody
        /\ holder' = o /\ UNCHANGED heard
    BY <1>6 DEF Lock, Types, CallTypes, localVars
  <2> QED
    BY <1>1, <1>2, <2>1
    DEF ListensFromTheLock, Same, Acting, NobodyAssumption
<1>7. CASE (\E turn \in 0..MaxTurns : Call(o, turn)) \/ Send(o) \/ Retry(o)
             \/ WindowElapses(o) \/ ReadHandled(o)
  BY <1>4, <1>7
  DEF Call, Send, Retry, WindowElapses, ReadHandled, Returned, localVars,
      callVars, Types, CallTypes, Acting
<1>8. CASE Accepted(o) \/ Ambiguous(o)
  <2>1. stage[o] = "waiting"
    BY <1>8 DEF Accepted, Ambiguous, Returned
  <2>2. CASE \E res \in Results : Finish(o, res)
    BY <1>5, <2>2 DEF Finish, Types, CallTypes
  <2>3. CASE UNCHANGED <<holder, localVars>> /\ stage'[o] \in {"watching", "reading"}
    BY <1>4, <2>1, <2>3 DEF localVars, Acting
  <2> QED
    BY <1>8, <2>2, <2>3 DEF Accepted, Ambiguous, Results, Types, CallTypes
<1>9. CASE \/ Refused(o) \/ StartResolved(o) \/ InterruptObserved(o)
           \/ ReadReturns(o) \/ Cancel(o)
  BY <1>5, <1>9
  DEF Refused, StartResolved, InterruptObserved, ReadReturns, Cancel, Finish,
      Types, CallTypes
<1> QED
  BY <1>6, <1>7, <1>8, <1>9 DEF ControllerStep

LEMMA DaemonKeepsListening ==
  ASSUME ControlAssumption, NobodyAssumption, Types, ListensFromTheLock,
         DaemonStep
  PROVE  ListensFromTheLock'
<1>1. CASE UNCHANGED <<callVars, localVars>>
  BY <1>1 DEF ListensFromTheLock, callVars, localVars
<1>2. CASE Deliver
  <2>1. /\ UNCHANGED <<stage, holder>>
        /\ \A o \in Ops :
             /\ waiter'[o] = IF Listening(o) /\ Matches(o, Head(notices))
                             THEN Head(notices).turn ELSE waiter[o]
             /\ heard'[o] <=> \/ heard[o]
                              \/ holder = o /\ Matches(o, Head(notices))
    BY <1>2 DEF Deliver, callVars
  <2>2. Head(notices).turn # 0
    <3>1. Head(notices) \in Notice
      BY <1>2, HeadTailProperties DEF Deliver, Types, DaemonTypes
    <3> QED
      BY <3>1 DEF Notice
  <2> QED
    BY <2>1, <2>2 DEF ListensFromTheLock, Listening, Acting
<1> QED
  BY <1>1, <1>2 DEF DaemonStep, Handle, GuiStarts, TurnEnds, NoticesLost

LEMMA ListeningInvariant == ControlSpec => []ListensFromTheLock
<1> USE ControlAssumption, NobodyAssumption
<1>1. ControlInit => ListensFromTheLock
  BY DEF ControlInit, ListensFromTheLock, Acting, NobodyAssumption
<1>2. Types /\ AttemptInv /\ ListensFromTheLock /\ [ControlNext]_controlVars
        => ListensFromTheLock'
  <2> SUFFICES ASSUME Types, AttemptInv, ListensFromTheLock, [ControlNext]_controlVars
               PROVE  ListensFromTheLock'
    OBVIOUS
  <2>1. CASE \E o \in Ops : ControllerStep(o)
    BY <2>1, ControllerKeepsListening
  <2>2. CASE DaemonStep
    BY <2>2, DaemonKeepsListening
  <2>3. CASE UNCHANGED controlVars
    BY <2>3 DEF controlVars, callVars, localVars, ListensFromTheLock
  <2> QED
    BY <2>1, <2>2, <2>3 DEF ControlNext
<1> QED
  BY <1>1, <1>2, AttemptInvariant, PTL DEF ControlSpec

\* interrupt registers its waiter when it takes the lock, before it sends: it
\* stops watching for the completion of its turn only if none came, before or
\* after the response.
THEOREM NothingMissed == ControlSpec => NoMissedConfirmation
<1>1. ListensFromTheLock =>
        [\A o \in Interrupts : WindowElapses(o) => ~heard[o]]_controlVars
  BY DEF ListensFromTheLock, WindowElapses, Ops
<1> QED
  BY <1>1, ListeningInvariant, PTL DEF NoMissedConfirmation
=============================================================================
