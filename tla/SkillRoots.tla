----------------------------- MODULE SkillRoots -----------------------------
(***************************************************************************)
(* SkillController (core/src/skills.rs): the extra skill roots, which the  *)
(* daemon keeps for one connection only and the library restores on the    *)
(* next, in core's reconnect task.                                         *)
(*                                                                         *)
(* set_extra_roots and reapply_extra_roots hold the same lock from before  *)
(* their request until its result; a request is in the transport's queue   *)
(* or at the daemon, which executes them in order, also after its caller   *)
(* gave up.  A set is named by the roots it sets.                          *)
(***************************************************************************)
EXTENDS Naturals, Sequences

CONSTANTS
  Sets,             \* calls of set_extra_roots, each with roots of its own
  Reapply,          \* the reconnect task's hold on the lock
  NoRoots,          \* no set was ever remembered; the roots of a connection
  Nobody,           \* nobody holds the lock
  MaxRestorations,  \* bound on reapplications that send a request
  RootConns         \* bound on connections

ASSUME SkillAssumption ==
  /\ Reapply \notin Sets /\ NoRoots \notin Sets
  /\ Nobody \notin Sets \cup {Reapply}
  /\ MaxRestorations \in Nat /\ RootConns \in Nat \ {0}

VARIABLES
  remembered,  \* SkillState::extra_roots
  holder,      \* who holds the lock
  done,        \* sets that have returned
  requests,    \* skills/extraRoots/set sent and not executed
  reply,       \* the result the holder's request has, if any
  roots,       \* the daemon's roots of this connection
  rootConn, linked,  \* the connection's number, and whether there is one
  restored,    \* the task has reapplied on this connection
  sent,        \* reapplications sent
  ambiguous    \* history: a request whose result nobody knows may have been
               \* executed, or be yet, since the last one that succeeded

skillVars == <<remembered, holder, done, requests, reply, roots, rootConn,
               linked, restored, sent, ambiguous>>

Holders == Sets \cup {Reapply}
Roots == Sets \cup {NoRoots}
NoReply == [result |-> "none", on |-> 0]

SkillTypeOK ==
  /\ remembered \in Roots /\ roots \in Roots
  /\ holder \in Holders \cup {Nobody}
  /\ done \subseteq Sets
  /\ requests \in Seq([roots: Sets, awaited: BOOLEAN])
  /\ reply \in [result: {"none", "ok", "rejected", "undecodable"},
                on: 0..RootConns]
  /\ rootConn \in 1..RootConns
  /\ linked \in BOOLEAN /\ restored \in BOOLEAN /\ ambiguous \in BOOLEAN
  /\ sent \in 0..MaxRestorations

SkillInit ==
  /\ remembered = NoRoots /\ roots = NoRoots
  /\ holder = Nobody
  /\ done = {}
  /\ requests = <<>>
  /\ reply = NoReply
  /\ rootConn = 1 /\ linked = TRUE
  /\ restored = TRUE   \* nothing to restore on the first connection
  /\ sent = 0
  /\ ambiguous = FALSE

Send(r) == requests' = Append(requests, [roots |-> r, awaited |-> TRUE])

-----------------------------------------------------------------------------
(* The controller.                                                         *)

SetExtraRoots(s) ==
  /\ s \notin done
  /\ holder = Nobody
  /\ holder' = s
  /\ Send(s)
  /\ UNCHANGED <<remembered, done, reply, roots, rootConn, linked, restored,
                 sent, ambiguous>>

\* Mutant of ReapplyExtraRoots: what was never set is sent all the same.
ReapplyWhateverRoots ==
  /\ linked /\ ~restored
  /\ holder = Nobody
  /\ sent < MaxRestorations
  /\ sent' = sent + 1
  /\ holder' = Reapply
  /\ Send(remembered)
  /\ UNCHANGED <<remembered, done, reply, roots, rootConn, linked, restored,
                 ambiguous>>

\* The reconnect task, on a connection that it has not restored yet.  There
\* may be nothing to send.
ReapplyExtraRoots ==
  /\ linked /\ ~restored
  /\ holder = Nobody
  /\ IF remembered = NoRoots
     THEN restored' = TRUE /\ UNCHANGED <<holder, requests, sent>>
     ELSE /\ sent < MaxRestorations
          /\ sent' = sent + 1
          /\ holder' = Reapply
          /\ Send(remembered)
          /\ UNCHANGED restored
  /\ UNCHANGED <<remembered, done, reply, roots, rootConn, linked, ambiguous>>

Releases ==
  /\ holder' = Nobody
  /\ done' = IF holder = Reapply THEN done ELSE done \cup {holder}
  /\ reply' = NoReply

\* The request succeeded: a set is remembered, a restoration is reported,
\* for the connection it was made on (mark_reconciled follows).
Succeeds ==
  /\ reply.result = "ok"
  /\ Releases
  /\ remembered' = IF holder = Reapply THEN remembered ELSE holder
  /\ restored' = (restored \/ /\ holder = Reapply
                               /\ linked
                               /\ reply.on = rootConn)
  /\ ambiguous' = FALSE
  /\ UNCHANGED <<requests, roots, rootConn, linked, sent>>

\* Mutant of Fails: what was asked for is remembered all the same.
FailsRemembers ==
  /\ holder # Nobody
  /\ reply.result # "ok"
  /\ Releases
  /\ requests' = [i \in DOMAIN requests |-> [requests[i] EXCEPT !.awaited = FALSE]]
  /\ ambiguous' = (ambiguous \/ reply.result # "rejected")
  /\ remembered' = IF holder = Reapply THEN remembered ELSE holder
  /\ UNCHANGED <<roots, rootConn, linked, restored, sent>>

\* Refused, not written, undecodable, or no result in time: an error, and
\* nothing is remembered.
Fails ==
  /\ holder # Nobody
  /\ reply.result # "ok"
  /\ Releases
  /\ requests' = [i \in DOMAIN requests |-> [requests[i] EXCEPT !.awaited = FALSE]]
  /\ ambiguous' = (ambiguous \/ reply.result # "rejected")
  /\ UNCHANGED <<remembered, roots, rootConn, linked, restored, sent>>

-----------------------------------------------------------------------------
(* The transport and the daemon.                                           *)

Replied(result) ==
  reply' = IF Head(requests).awaited
           THEN [result |-> result, on |-> rootConn] ELSE reply

Executes ==
  /\ linked /\ requests # <<>>
  /\ \/ /\ roots' = Head(requests).roots
        /\ Replied("ok") \/ Replied("undecodable")
     \/ /\ UNCHANGED roots
        /\ Replied("rejected")
  /\ requests' = Tail(requests)
  /\ UNCHANGED <<remembered, holder, done, rootConn, linked, restored, sent,
                 ambiguous>>

\* Backing off, the transport refuses what is queued: NotWritten.
Refuses ==
  /\ ~linked /\ requests # <<>>
  /\ Replied("rejected")
  /\ requests' = Tail(requests)
  /\ UNCHANGED <<remembered, holder, done, roots, rootConn, linked, restored,
                 sent, ambiguous>>

\* With the connection go its roots, and the requests written to it.
Unlinked ==
  /\ linked
  /\ linked' = FALSE
  /\ restored' = FALSE
  /\ roots' = NoRoots
  /\ \E n \in 0..Len(requests) :
       requests' = SubSeq(requests, n + 1, Len(requests))
  /\ UNCHANGED <<remembered, holder, done, reply, rootConn, sent, ambiguous>>

Linked ==
  /\ ~linked
  /\ rootConn < RootConns
  /\ rootConn' = rootConn + 1
  /\ linked' = TRUE
  /\ UNCHANGED <<remembered, holder, done, requests, reply, roots, restored,
                 sent, ambiguous>>

SkillNext ==
  \/ \E s \in Sets : SetExtraRoots(s)
  \/ ReapplyExtraRoots \/ Succeeds \/ Fails
  \/ Executes \/ Refuses \/ Unlinked \/ Linked

SkillSpec == SkillInit /\ [][SkillNext]_skillVars

-----------------------------------------------------------------------------

\* skills.rs:97: the remembered state "is exactly the last root set whose
\* app-server response was observed successfully", and the daemon has it:
\* on a connection the task restored, no call under way, the daemon's roots
\* are the remembered ones, unless the result of a request is unknown that
\* the daemon may have executed after the last one that succeeded.
RootsRestored ==
  linked /\ restored /\ holder = Nobody /\ ~ambiguous => roots = remembered
=============================================================================
