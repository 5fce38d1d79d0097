---------------------------- MODULE ThreadListing ----------------------------
(***************************************************************************)
(* The two walks over thread/list: ThreadController::list_all              *)
(* (core/src/threads.rs), which wants every thread, and the listing of     *)
(* ThreadIngestor::reconcile (ingest/src/lib.rs), which wants those        *)
(* updated since its watermark and stops early.  One of them walks at a    *)
(* time, while threads are created and updated between its pages.          *)
(*                                                                         *)
(* The daemon is external: it sorts by update time, newest first, its      *)
(* clock may stand still between two updates, and a cursor is a position   *)
(* in that order.  A faulty one may repeat a cursor.                       *)
(***************************************************************************)
EXTENDS Naturals, SequencesExt

CONSTANTS
  Listable,        \* threads
  PageSize,        \* limit (100) and reconcile_page_size (50)
  PageBound,       \* reconcile_page_bound (4)
  CandidateLimit,  \* reconcile_candidate_limit (200)
  MaxUpdates,      \* bound on creations and updates
  MaxWalks         \* bound on walks

ASSUME ListingAssumption ==
  /\ {PageSize, PageBound, CandidateLimit} \subseteq Nat \ {0}
  /\ {MaxUpdates, MaxWalks} \subseteq Nat

VARIABLES
  order,      \* the daemon's threads, newest first
  updatedAt,  \* when each was updated last
  clock, updates,
  faulty,     \* the daemon may repeat cursors
  walk,       \* the walk under way, or how the last one ended
  cursor,     \* the position to ask for
  cursors,    \* list_all: seen_cursors
  pages,      \* reconcile: pages asked for
  found,      \* the threads found: threads, or candidates
  mark,       \* watermark
  newestSeen, \* reconcile: newest_watermark
  since,      \* history: the watermark the walk began with
  moved,      \* history: threads created or updated since the walk began
  walks

daemonListVars == <<order, updatedAt, clock, updates, faulty>>
walkVars == <<cursor, cursors, pages, found, mark, newestSeen>>
listVars == <<daemonListVars, walk, walkVars, since, moved, walks>>

Positions == 0..MaxUpdates
Times == 0..(MaxUpdates + 1)

ListingTypeOK ==
  /\ order \in Seq(Listable) /\ IsInjective(order)
  /\ updatedAt \in [Listable -> Times]
  /\ clock \in Times /\ updates \in 0..MaxUpdates
  /\ faulty \in BOOLEAN
  /\ walk \in {"none", "all", "reconcile", "complete", "repeated", "covered",
               "bounded", "failed"}
  /\ cursor \in Positions /\ cursors \subseteq Positions
  /\ pages \in 0..PageBound
  /\ found \in Seq(Listable)
  /\ walk \in {"reconcile", "covered", "bounded"} => Len(found) <= CandidateLimit
  /\ {mark, newestSeen, since} \subseteq Times
  /\ moved \subseteq Listable
  /\ walks \in 0..MaxWalks

ListingInit ==
  /\ order = <<>>
  /\ updatedAt = [t \in Listable |-> 0]
  /\ clock = 1 /\ updates = 0
  /\ faulty \in BOOLEAN
  /\ walk = "none"
  /\ cursor = 0 /\ cursors = {} /\ pages = 0
  /\ found = <<>>
  /\ mark = 0 /\ newestSeen = 0 /\ since = 0
  /\ moved = {}
  /\ walks = 0

Walking == walk \in {"all", "reconcile"}

-----------------------------------------------------------------------------
(* The daemon.                                                             *)

\* The list with t first, and not the i-th any more.
ToFront(list, t, i) ==
  <<t>> \o SubSeq(list, 1, i - 1) \o SubSeq(list, i + 1, Len(list))

\* A thread, the i-th so far or a new one, is updated or created; it is the
\* newest now.
Updated(t) ==
  \E i \in 1..Len(order) + 1 :
    /\ updates < MaxUpdates
    /\ updates' = updates + 1
    /\ IF i <= Len(order) THEN order[i] = t ELSE t \notin ToSet(order)
    /\ order' = ToFront(order, t, i)
    /\ clock' \in {clock, clock + 1}
    /\ updatedAt' = [updatedAt EXCEPT ![t] = clock']
    /\ moved' = moved \cup {t}
    /\ UNCHANGED <<faulty, walk, walkVars, since, walks>>

LastOfPage == IF cursor + PageSize < Len(order) THEN cursor + PageSize
              ELSE Len(order)

Page == SubSeq(order, cursor + 1, LastOfPage)

\* Whether the page names a next cursor, and which: 0 is none here, since no
\* page starts at 0 but the first.
NextCursors ==
  (IF cursor + PageSize < Len(order) THEN {cursor + PageSize} ELSE {0})
    \cup (IF faulty THEN cursors ELSE {})

-----------------------------------------------------------------------------
(* list_all.                                                               *)

Begins(kind) ==
  /\ ~Walking
  /\ walks < MaxWalks
  /\ walks' = walks + 1
  /\ walk' = kind
  /\ cursor' = 0 /\ cursors' = {} /\ pages' = 0
  /\ found' = <<>>
  /\ newestSeen' = mark /\ since' = mark
  /\ moved' = {}
  /\ UNCHANGED <<daemonListVars, mark>>

\* Mutant of Extended: seen_threads is not asked.
ExtendedBlindly(list, page) == list \o page

\* The list after the first n threads of a page: seen_threads has those on it.
Extended(list, page) ==
  LET after[n \in 0..Len(page)] ==
        IF n = 0 THEN list
        ELSE IF page[n] \in ToSet(after[n - 1]) THEN after[n - 1]
             ELSE Append(after[n - 1], page[n])
  IN  after[Len(page)]

\* Mutant of AllPage: a cursor is followed however often it comes.
AllPageTrusting ==
  /\ walk = "all"
  /\ found' = Extended(found, Page)
  /\ \E next \in NextCursors :
       \/ next = 0 /\ walk' = "complete" /\ UNCHANGED <<cursor, cursors>>
       \/ next # 0 /\ cursor' = next /\ cursors' = cursors \cup {next}
          /\ UNCHANGED walk
  /\ UNCHANGED <<daemonListVars, pages, mark, newestSeen, since, moved, walks>>

AllPage ==
  /\ walk = "all"
  /\ found' = Extended(found, Page)
  /\ \E next \in NextCursors :
       \/ /\ next = 0
          /\ walk' = "complete"
          /\ UNCHANGED <<cursor, cursors>>
       \/ /\ next \in cursors
          /\ walk' = "repeated"
          /\ UNCHANGED <<cursor, cursors>>
       \/ /\ next \notin cursors \cup {0}
          /\ cursor' = next
          /\ cursors' = cursors \cup {next}
          /\ UNCHANGED walk
  /\ UNCHANGED <<daemonListVars, pages, mark, newestSeen, since, moved, walks>>

\* A request fails, and the walk with it: neither its threads nor, in
\* reconcile, its watermark are kept.
PageFails ==
  /\ Walking
  /\ walk' = "failed"
  /\ UNCHANGED <<daemonListVars, walkVars, since, moved, walks>>

-----------------------------------------------------------------------------
(* reconcile's listing.                                                    *)

\* Mutant of Below: compared with the watermark to be, not the one to go by.
BelowNewest(t) == newestSeen > 0 /\ updatedAt[t] <= newestSeen

Below(t) == mark > 0 /\ updatedAt[t] <= mark

\* How many candidates there is room for.  A thread counts as often as it is
\* listed.
Room == CandidateLimit - Len(found)

\* The loop over a page ends with its n-th thread: the next is below the
\* watermark, or there is no room for it, or no next.
Takes(page, n) ==
  /\ n <= Room
  /\ \A i \in 1..n : ~Below(page[i])
  /\ n < Len(page) /\ n < Room => Below(page[n + 1])

Newest(page) == IF page = <<>> THEN 0 ELSE updatedAt[page[1]]

\* One page, and the end of the walk if the page or a bound ends it; then
\* the watermark moves.
ReconcilePage ==
  /\ walk = "reconcile"
  /\ newestSeen' = IF Newest(Page) > newestSeen THEN Newest(Page) ELSE newestSeen
  /\ pages' = pages + 1
  /\ \E n \in 0..Len(Page), next \in NextCursors :
       LET reached == n < Len(Page) /\ n < Room
           all == reached \/ (next = 0 /\ n = Len(Page))
           over == all \/ next = 0 \/ n = Room \/ pages' = PageBound
       IN  /\ Takes(Page, n)
           /\ found' = found \o SubSeq(Page, 1, n)
           /\ walk' = IF all THEN "covered" ELSE IF over THEN "bounded" ELSE walk
           /\ cursor' = next
           /\ cursors' = cursors \cup {next}
           /\ mark' = IF over THEN newestSeen' ELSE mark
  /\ UNCHANGED <<daemonListVars, since, moved, walks>>

ListingNext ==
  \/ \E t \in Listable : Updated(t)
  \/ \E kind \in {"all", "reconcile"} : Begins(kind)
  \/ AllPage \/ ReconcilePage \/ PageFails

\* Each page is answered or its request fails.
ListingFairness == WF_listVars(AllPage \/ ReconcilePage)

ListingSpec == ListingInit /\ [][ListingNext]_listVars /\ ListingFairness

-----------------------------------------------------------------------------

Unmoved == ToSet(order) \ moved

\* list_all, "Lists every non-archived interactive thread" (core/src/lib.rs
\* 223): each thread it returns once, and every thread that did not move
\* between its pages, whatever the others did.
AllListedOnce ==
  walk = "complete" => IsInjective(found) /\ Unmoved \subseteq ToSet(found)

\* A daemon that repeats cursors does not hold list_all for ever, nor
\* reconcile, which knows no cursor but has its page bound.
WalksEnd == Walking ~> ~Walking

\* reconcile: a thread updated after the watermark is a candidate of a walk
\* that no bound cut short, unless it moved while the walk was on.  Then the
\* new watermark is not past it, if no cursor was repeated.
CandidatesCover ==
  walk = "covered" =>
    \A t \in ToSet(order) :
      since = 0 \/ updatedAt[t] > since =>
        \/ t \in ToSet(found)
        \/ t \in moved /\ (faulty \/ updatedAt[t] >= mark)
=============================================================================
