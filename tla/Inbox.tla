---------------------------------- MODULE Inbox ----------------------------------
(***************************************************************************)
(* The notifications of one user: the rows and their API, and the          *)
(* notifications page of one tab, whose calls go through ApiClient.  The   *)
(* page marks notices as read before the server has answered and takes     *)
(* that back when the call fails; the bell of every page polls the number  *)
(* of unread notices.                                                      *)
(***************************************************************************)
EXTENDS ApiClient, FiniteSets

CONSTANT Notices    \* rows of the table

\* What a call is about; live: the list its notices are in is the one that is shown.
Ops == [type : {"poll", "load", "mark", "markAll"}, filter : {"all", "unread"},
        notices : SUBSET Notices, live : BOOLEAN]

ASSUME InboxAssumption == IsFiniteSet(Notices) /\ None \notin Ops

VARIABLES
  notice,     \* notice[n]: the committed row: "absent", "unread" or "read"
  shown,      \* shown[n]: the page's list
  badge,      \* unreadCount, which the bell shows
  polling     \* the page polls: it had tokens when it was loaded

page == <<shown, badge, polling>>
vars == <<client, call, notice, page>>

Flags == {"absent", "unread", "read"}
Empty == [n \in Notices |-> "absent"]
Unread(list) == {n \in Notices : list[n] = "unread"}

Op(t, f, ns) == [type |-> t, filter |-> f, notices |-> ns, live |-> TRUE]

Init ==
  /\ ClientInit
  /\ notice = Empty
  /\ shown = Empty
  /\ badge = 0
  /\ polling = FALSE

--------------------------------------------------------------------------------
(* A task creates a notification. *)
Arrive(n) ==
  /\ notice[n] = "absent"
  /\ notice' = [notice EXCEPT ![n] = "unread"]
  /\ UNCHANGED <<client, call, page>>

(* setInterval: fetchUnreadCount. *)
Poll(c) ==
  /\ polling
  /\ Send(c, Op("poll", "unread", {}))
  /\ UNCHANGED <<notice, page>>

(* setFilter and loadPage; the page's own init does the same. *)
SetFilter(c, f) ==
  /\ Send(c, Op("load", f, {}))
  /\ UNCHANGED <<notice, page>>

\* The page shows ns as read.
ShowRead(list, ns) == [n \in Notices |-> IF n \in ns THEN "read" ELSE list[n]]

(* markRead, markAllRead: first the list, then the call. *)
MarkRead(c, n) ==
  /\ shown[n] = "unread"
  /\ shown' = ShowRead(shown, {n})
  /\ Send(c, Op("mark", "all", {n}))
  /\ UNCHANGED <<notice, badge, polling>>

MarkAllRead(c) ==
  /\ Unread(shown) # {}
  /\ shown' = ShowRead(shown, Unread(shown))
  /\ Send(c, Op("markAll", "all", Unread(shown)))
  /\ UNCHANGED <<notice, badge, polling>>

\* get_queryset: the notices a list with filter f shows.
Listed(f) ==
  [n \in Notices |-> IF f = "unread" /\ notice[n] = "read" THEN "absent" ELSE notice[n]]

(* list, unread_count, mark_read, mark_all_read. *)
Answer(op) ==
  CASE op.type = "poll" -> Cardinality(Unread(notice))
    [] op.type = "load" -> Listed(op.filter)
    [] OTHER -> None

Marked(op) ==
  CASE op.type = "mark" -> op.notices
    [] op.type = "markAll" -> Unread(notice)
    [] OTHER -> {}

ServeCall(c) ==
  /\ Serve(c, Answer(call[c].op))
  /\ notice' = ShowRead(notice, Marked(call[c].op))
  /\ UNCHANGED page

\* The list is replaced: the notices that calls in flight would revert are shown no more.
Detached(calls) ==
  [c \in Calls |-> IF calls[c].op = None \/ calls[c].op.notices = {} THEN calls[c]
                   ELSE [calls[c] EXCEPT !.op.live = FALSE]]

Freed(c) == [call EXCEPT ![c] = Free]

\* Mutant: zero is not shown.
BadgeIfAny(n) == IF n = 0 THEN badge ELSE n

\* Mutant: the page reads a field the answer does not have.
BadgeUndefined(n) == None

Badge(n) == n

(* The answer reaches the code that waits for it. *)
Succeed(c) ==
  /\ call[c].phase = "served"
  /\ LET op == call[c].op IN
       IF op.type = "load"
       THEN shown' = call[c].answer /\ call' = Detached(Freed(c)) /\ UNCHANGED badge
       ELSE /\ badge' = IF op.type = "poll" THEN Badge(call[c].answer) ELSE badge
            /\ call' = Freed(c)
            /\ UNCHANGED shown
  /\ UNCHANGED <<client, notice, polling>>

\* Mutant: nothing is taken back.
RevertNothing(op) == {}

\* What a failed call takes back.
Revert(op) == IF op.live THEN op.notices ELSE {}

Fail(c) ==
  /\ call[c].phase = "error"
  /\ shown' = [n \in Notices |-> IF n \in Revert(call[c].op) THEN "unread" ELSE shown[n]]
  /\ call' = Freed(c)
  /\ UNCHANGED <<client, notice, badge, polling>>

(* Any page load starts with an empty list and an empty badge. *)
ChangePage ==
  /\ PageChange
  /\ shown' = Empty
  /\ badge' = 0
  /\ polling' = (mem' # 0)
  /\ UNCHANGED notice

Transport(c) == (ClientStep(c) \/ Mishap(c)) /\ UNCHANGED <<notice, page>>

Next ==
  \/ \E n \in Notices : Arrive(n)
  \/ \E c \in Calls :
       \/ Poll(c)
       \/ \E f \in {"all", "unread"} : SetFilter(c, f)
       \/ \E n \in Notices : MarkRead(c, n)
       \/ MarkAllRead(c)
       \/ Transport(c) \/ ServeCall(c) \/ Succeed(c) \/ Fail(c)
  \/ Elsewhere /\ UNCHANGED <<notice, page>>
  \/ ChangePage

\* The server answers, the network delivers, and the event loop runs what is due.
Advance(c) == (ClientStep(c) /\ UNCHANGED <<notice, page>>) \/ ServeCall(c) \/ Succeed(c) \/ Fail(c)

\* The timer does not wait for the page's own calls to leave it a connection.
Spec == /\ Init /\ [][Next]_vars
        /\ \A c \in Calls : WF_vars(Advance(c))
        /\ SF_vars(\E c \in Calls : Poll(c))

--------------------------------------------------------------------------------
TypeOK ==
  /\ issued \in Nat /\ expired \in 0..issued
  /\ mem \in 0..issued /\ store \in 0..issued
  /\ spent \subseteq 1..issued /\ rotated \subseteq 1..issued
  /\ session \in {"none", "good", "lapsed"} /\ bridge \in 0..issued \cup {None}
  /\ polling \in BOOLEAN
  /\ excused \in BOOLEAN
  /\ \A c \in Calls : call[c].phase \in Phases /\ call[c].pair \in 0..issued
                       /\ call[c].op \in Ops \cup {None}
  /\ notice \in [Notices -> Flags]
  /\ shown \in [Notices -> Flags]
  /\ badge \in Nat
  /\ events \in Nat

\* Call c may still mark n.
Marking(c, n) ==
  /\ call[c].op # None
  /\ n \in call[c].op.notices
  /\ call[c].phase \notin {"free", "served"}

(* The page is honest: a notice it shows as read is read in the table, or a call is on
   its way that will mark it or take it back, however the list is reloaded meanwhile,
   the token refreshed, the call lost. *)
ShownReadIsRead ==
  \A n \in Notices :
    shown[n] = "read" => notice[n] = "read" \/ \E c \in Calls : Marking(c, n)

(* Once no more notices come, the bell of a page that keeps its tokens shows how many
   are unread. *)
BadgeCatchesUp == <>[](badge = Cardinality(Unread(notice)) \/ mem = 0)
================================================================================
