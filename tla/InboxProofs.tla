------------------------------- MODULE InboxProofs -------------------------------
(***************************************************************************)
(* Proofs about Inbox and ApiClient, for any number of calls and notices,  *)
(* of expiries and of disturbances.                                        *)
(***************************************************************************)
EXTENDS Inbox, FiniteSetTheorems, TLAPS

Answers == Nat \cup [Notices -> Flags] \cup {None}

Call == [phase : Phases, op : Ops \cup {None}, pair : Nat, retried : BOOLEAN, answer : Answers]

--------------------------------------------------------------------------------
(* What each step does to the calls. *)

\* Call c becomes x, the other calls stay.
Becomes(c, x) == x \in Call /\ call' = [call EXCEPT ![c] = x]

CallsTyped == call \in [Calls -> Call]

LEMMA GotoCall ==
  ASSUME CallsTyped, NEW c \in Calls, NEW p \in Phases, Goto(c, p)
  PROVE  Becomes(c, [call[c] EXCEPT !.phase = p])
<1>1. call[c] \in Call
  BY DEF CallsTyped
<1>2. [call[c] EXCEPT !.phase = p] \in Call
  BY <1>1 DEF Call
<1> QED BY <1>2 DEF Goto, Becomes

LEMMA FreeCall == Free \in Call
BY DEF Free, Call, Phases, Answers

LEMMA SettleCall ==
  ASSUME CallsTyped, NEW c \in Calls, NEW p \in Phases, NEW a \in Answers, Settle(c, p, a)
  PROVE  \E x \in Call : /\ Becomes(c, x) /\ x.phase = p /\ x.op = call[c].op /\ x.pair = 0
                         /\ x.answer = a
<1> DEFINE x == [Free EXCEPT !.phase = p, !.op = call[c].op, !.answer = a]
<1>1. call[c] \in Call
  BY DEF CallsTyped
<1>2. /\ x \in Call /\ x.phase = p /\ x.op = call[c].op /\ x.pair = 0 /\ x.answer = a
  BY <1>1 DEF Call, Free
<1>3. Becomes(c, x)
  BY <1>2 DEF Settle, Becomes
<1> QED BY <1>2, <1>3

\* The same, when the call has failed.
LEMMA ErrorCall ==
  ASSUME CallsTyped, NEW c \in Calls, Settle(c, "error", None)
  PROVE  \E x \in Call : Becomes(c, x) /\ x.phase = "error" /\ x.op = call[c].op /\ x.pair = 0
<1>1. "error" \in Phases /\ None \in Answers
  BY DEF Phases, Answers
<1> QED BY <1>1, SettleCall

LEMMA SendCall ==
  ASSUME CallsTyped, NEW c \in Calls, NEW op \in Ops, Send(c, op), mem \in Nat
  PROVE  \E x \in Call : /\ Becomes(c, x) /\ x.phase = "sent" /\ x.op = op /\ x.pair = mem
<1> DEFINE x == [Free EXCEPT !.phase = "sent", !.op = op, !.pair = mem]
<1>1. /\ x \in Call /\ x.phase = "sent" /\ x.op = op /\ x.pair = mem
  BY FreeCall DEF Call, Free, Phases
<1>2. Becomes(c, x)
  BY <1>1 DEF Send, Becomes
<1> QED BY <1>1, <1>2

--------------------------------------------------------------------------------
(* The tokens. *)

RefreshPhases == {"refreshing", "checked", "renewed", "norefresh"}

TokensTyped ==
  /\ issued \in Nat /\ expired \in 0..issued
  /\ mem \in 0..issued /\ store \in 0..issued
  /\ spent \subseteq 1..issued /\ rotated \subseteq spent
  /\ session \in {"none", "good", "lapsed"} /\ bridge \in 0..issued \cup {None}
  /\ excused \in BOOLEAN
  /\ events \in Nat

PairsTyped ==
  /\ CallsTyped
  /\ \A c \in Calls :
       /\ call[c].pair \in 0..issued
       /\ call[c].phase \in {"refreshing", "checked", "renewed"} => call[c].pair # 0

\* As long as nothing has disturbed the tokens: the page and localStorage agree, one call
\* at most refreshes, with the page's refresh token, and the page's or the new one is good.
Undisturbed ==
  /\ store = mem
  /\ \A c \in Calls : call[c].phase # "norefresh"
  /\ \A c, d \in Calls : Refreshing(c) /\ Refreshing(d) => c = d
  /\ \A c \in Calls :
       /\ call[c].phase \in {"refreshing", "checked"} => call[c].pair = mem /\ mem \notin spent
       /\ call[c].phase = "renewed" => call[c].pair \notin spent /\ mem # 0
  /\ mem # 0 /\ (\A c \in Calls : call[c].phase # "renewed") => mem \notin spent

Calm == ~excused /\ bridge = None => Undisturbed

\* The pair of a bridge page on its way is nowhere else, so that nothing spends it; with
\* the page's pair it makes up for what the session promises.
Crossing ==
  /\ bridge \notin {None, 0} =>
       /\ mem # bridge /\ store # bridge
       /\ \A c \in Calls : call[c].pair # bridge
  /\ ~excused =>
       /\ bridge # None => bridge \notin spent
       /\ session = "good" => bridge # 0 /\ (bridge = None => mem # 0)
       /\ session = "none" => bridge \in {None, 0} /\ (bridge = None => mem = 0 /\ store = 0)

CInv == TokensTyped /\ PairsTyped /\ Calm /\ Crossing

\* A step that changes neither the tokens nor the session, of calls that take the page's
\* pair or none.
LEMMA CrossingStays ==
  ASSUME CInv, UNCHANGED <<mem, store, session, bridge>>,
         excused => excused', excused' \/ spent' = spent,
         \A d \in Calls : call'[d].pair \in {0, mem, call[d].pair}
  PROVE  Crossing'
<1>1. /\ UNCHANGED <<mem, store, session, bridge>> /\ Crossing
      /\ excused => excused' /\ (excused' \/ spent' = spent)
  BY DEF CInv
<1>2. ASSUME bridge' \notin {None, 0}
      PROVE  mem' # bridge' /\ store' # bridge' /\ \A d \in Calls : call'[d].pair # bridge'
  BY <1>1, <1>2 DEF Crossing
<1>3. ASSUME ~excused'
      PROVE  /\ bridge' # None => bridge' \notin spent'
             /\ session' = "good" => bridge' # 0 /\ (bridge' = None => mem' # 0)
             /\ session' = "none" => /\ bridge' \in {None, 0}
                                     /\ (bridge' = None => mem' = 0 /\ store' = 0)
  BY <1>1, <1>3 DEF Crossing
<1> QED BY <1>2, <1>3 DEF Crossing

\* A step of the page or the server that is not about tokens: calls that are not in the
\* middle of a refresh change, and do not get there.
NoRefresh ==
  /\ UNCHANGED client
  /\ CallsTyped'
  /\ \A d \in Calls :
       \/ call'[d].phase = call[d].phase /\ call'[d].pair = call[d].pair
       \/ /\ call[d].phase \notin RefreshPhases /\ call'[d].phase \notin RefreshPhases
          /\ call'[d].pair \in {0, mem, call[d].pair}

LEMMA NoRefreshKeeps == CInv /\ NoRefresh => CInv'
<1> SUFFICES ASSUME CInv, NoRefresh PROVE CInv'
  OBVIOUS
<1>1. TokensTyped'
  BY DEF CInv, NoRefresh, TokensTyped, client
<1>2. PairsTyped'
  <2>1. issued \in Nat /\ mem \in 0..issued
    BY DEF CInv, TokensTyped
  <2> QED BY <2>1 DEF CInv, NoRefresh, PairsTyped, client, RefreshPhases
<1>3. ASSUME NEW d \in Calls
      PROVE  /\ call'[d].phase \in RefreshPhases <=> call[d].phase \in RefreshPhases
             /\ call'[d].phase \in RefreshPhases =>
                  call'[d].phase = call[d].phase /\ call'[d].pair = call[d].pair
  BY DEF NoRefresh
<1>4. Calm'
  <2>1. UNCHANGED <<excused, bridge, store, mem, spent>>
        /\ (~excused /\ bridge = None => Undisturbed)
    BY DEF NoRefresh, client, CInv, Calm
  <2> QED BY <1>3, <2>1 DEF Calm, Undisturbed, Refreshing, RefreshPhases
<1>5. Crossing'
  BY CrossingStays DEF NoRefresh, client
<1> QED BY <1>1, <1>2, <1>4, <1>5 DEF CInv

\* The calls after one of them went on from phase p to x.
LEMMA PairsKept ==
  ASSUME CInv, NEW c \in Calls, NEW x \in Call, Becomes(c, x),
         issued' \in Nat, issued' >= issued, x.pair \in 0..issued',
         x.phase \in {"refreshing", "checked", "renewed"} => x.pair # 0
  PROVE  /\ PairsTyped'
         /\ call'[c] = x /\ \A d \in Calls \ {c} : call'[d] = call[d]
<1>1. /\ call'[c] = x /\ \A d \in Calls \ {c} : call'[d] = call[d]
      /\ CallsTyped' /\ issued \in Nat
  BY DEF Becomes, CInv, PairsTyped, CallsTyped, TokensTyped
<1>2. \A d \in Calls : call[d].pair \in 0..issued
  BY DEF CInv, PairsTyped
<1> QED BY <1>1, <1>2 DEF CInv, PairsTyped

LEMMA DenyStep == \A c \in Calls : CInv /\ Deny(c) => NoRefresh
<1> SUFFICES ASSUME NEW c \in Calls, CInv, Deny(c) PROVE NoRefresh
  OBVIOUS
<1> DEFINE x == [call[c] EXCEPT !.phase = "denied"]
<1>1. CallsTyped /\ call[c] \in Call /\ call[c].pair \in 0..issued
  BY DEF CInv, PairsTyped, CallsTyped
<1>2. Becomes(c, x)
  BY <1>1, GotoCall DEF Deny, Phases
<1>3. x.phase = "denied" /\ x.pair = call[c].pair
  BY <1>1 DEF Call
<1> HIDE DEF x
<1>4. call'[c] = x /\ CallsTyped' /\ \A d \in Calls \ {c} : call'[d] = call[d]
  BY <1>1, <1>2 DEF Becomes, CallsTyped
<1> QED BY <1>1, <1>3, <1>4 DEF Deny, NoRefresh, RefreshPhases

LEMMA DeniedKeeps == \A c \in Calls : CInv /\ Denied(c) => CInv'
<1> SUFFICES ASSUME NEW c \in Calls, CInv, Denied(c) PROVE CInv'
  OBVIOUS
<1>1. CallsTyped /\ call[c] \in Call /\ call[c].phase = "denied"
  BY DEF CInv, PairsTyped, CallsTyped, Denied
<1>2. UNCHANGED <<issued, expired, spent, mem, store, session, bridge, rotated, events>>
  BY DEF Denied
<1>3. CASE MayRefresh(c)
  <2> DEFINE x == [call[c] EXCEPT !.phase = "refreshing", !.pair = mem]
  <2>0. mem # 0 /\ mem \in 0..issued /\ issued \in Nat /\ mem \in Nat
    BY <1>3 DEF CInv, TokensTyped, MayRefresh
  <2>1. /\ x \in Call /\ x.phase = "refreshing" /\ x.pair = mem
        /\ mem # 0 /\ mem \in 0..issued /\ issued \in Nat
    BY <1>1, <2>0 DEF Call, Phases
  <2>2. Becomes(c, x)
    BY <1>3, <2>1 DEF Denied, RefreshToken, Becomes
  <2>3. excused' = (excused \/ \E d \in Calls \ {c} : Refreshing(d))
    BY <1>3 DEF Denied
  <2> HIDE DEF x
  <2>4. PairsTyped' /\ call'[c] = x /\ \A d \in Calls \ {c} : call'[d] = call[d]
    BY <1>2, <2>1, <2>2, PairsKept
  <2>5. TokensTyped'
    BY <1>2, <2>3 DEF CInv, TokensTyped
  <2>6. Calm'
    <3> SUFFICES ASSUME ~excused', bridge' = None PROVE Undisturbed'
      BY DEF Calm
    <3>1. Undisturbed /\ \A d \in Calls \ {c} : ~Refreshing(d)
      BY <1>2, <2>3 DEF CInv, Calm
    <3>2. \A d \in Calls : call[d].phase # "renewed"
      BY <1>1, <3>1 DEF Refreshing
    <3>3. mem \notin spent
      BY <2>1, <3>1, <3>2 DEF Undisturbed
    <3> QED BY <1>2, <2>1, <2>4, <3>1, <3>3 DEF Undisturbed, Refreshing
  <2>7. Crossing'
    <3>1. \A d \in Calls : call'[d].pair \in {0, mem, call[d].pair}
      BY <2>1, <2>4
    <3> QED BY <1>2, <2>3, <3>1, CrossingStays
  <2> QED BY <2>4, <2>5, <2>6, <2>7 DEF CInv
<1>4. CASE ~MayRefresh(c)
  <2>1. PICK x \in Call : Becomes(c, x) /\ x.phase = "error" /\ x.pair = 0
    BY <1>1, <1>4, ErrorCall DEF Denied
  <2>2. call'[c] = x /\ CallsTyped' /\ (\A d \in Calls \ {c} : call'[d] = call[d]) /\ issued \in Nat
    BY <1>1, <2>1 DEF Becomes, CallsTyped, CInv, TokensTyped
  <2>3. NoRefresh
    BY <1>1, <1>2, <1>4, <2>1, <2>2 DEF Denied, NoRefresh, RefreshPhases, client
  <2> QED BY <2>3, NoRefreshKeeps
<1> QED BY <1>3, <1>4

LEMMA CheckKeeps == \A c \in Calls : CInv /\ CheckRefresh(c) => CInv'
<1> SUFFICES ASSUME NEW c \in Calls, CInv, CheckRefresh(c) PROVE CInv'
  OBVIOUS
<1> DEFINE p == IF call[c].pair \notin spent THEN "checked" ELSE "norefresh"
           x == [call[c] EXCEPT !.phase = p]
<1>1. /\ CallsTyped /\ call[c] \in Call /\ call[c].phase = "refreshing"
      /\ call[c].pair \in 0..issued /\ call[c].pair # 0 /\ issued \in Nat
  BY DEF CInv, PairsTyped, CallsTyped, CheckRefresh, TokensTyped
<1>2. Becomes(c, x)
  BY <1>1, GotoCall DEF CheckRefresh, Phases
<1>3. x \in Call /\ x.phase = p /\ x.pair = call[c].pair
  BY <1>1, <1>2 DEF Call, Becomes
<1>4. UNCHANGED <<issued, expired, spent, mem, store, session, bridge, rotated, excused, events>>
  BY DEF CheckRefresh, client
<1> HIDE DEF x
<1>5. PairsTyped' /\ call'[c] = x /\ \A d \in Calls \ {c} : call'[d] = call[d]
  BY <1>1, <1>2, <1>3, <1>4, PairsKept
<1>6. TokensTyped'
  BY <1>4 DEF CInv, TokensTyped
<1>7. Calm'
  <2> SUFFICES ASSUME ~excused', bridge' = None PROVE Undisturbed'
    BY DEF Calm
  <2>1. Undisturbed
    BY <1>4 DEF CInv, Calm
  <2>2. p = "checked" /\ call[c].pair = mem /\ mem \notin spent
    BY <1>1, <2>1 DEF Undisturbed
  <2> QED BY <1>1, <1>3, <1>4, <1>5, <2>1, <2>2 DEF Undisturbed, Refreshing
<1>8. Crossing'
  <2>1. \A d \in Calls : call'[d].pair \in {0, mem, call[d].pair}
    BY <1>3, <1>5
  <2> QED BY <1>4, <2>1, CrossingStays
<1> QED BY <1>5, <1>6, <1>7, <1>8 DEF CInv

LEMMA RotateKeeps == \A c \in Calls : CInv /\ Rotate(c) => CInv'
<1> SUFFICES ASSUME NEW c \in Calls, CInv, Rotate(c) PROVE CInv'
  OBVIOUS
<1> DEFINE x == [call[c] EXCEPT !.phase = "renewed", !.pair = issued + 1]
<1>1. /\ CallsTyped /\ call[c] \in Call /\ call[c].phase = "checked"
      /\ call[c].pair \in 1..issued /\ issued \in Nat /\ issued + 1 \in Nat
  BY DEF CInv, PairsTyped, CallsTyped, Rotate, TokensTyped
<1>2. x \in Call /\ x.phase = "renewed" /\ x.pair = issued + 1
  BY <1>1 DEF Call, Phases
<1>3. Becomes(c, x)
  BY <1>2 DEF Rotate, Becomes
<1>4. /\ UNCHANGED <<expired, mem, store, session, bridge, excused, events>> /\ issued' = issued + 1
      /\ spent' = spent \cup {call[c].pair} /\ rotated' = rotated \cup {call[c].pair}
  BY DEF Rotate, Blacklist
<1> HIDE DEF x
<1>5. PairsTyped' /\ call'[c] = x /\ \A d \in Calls \ {c} : call'[d] = call[d]
  BY <1>1, <1>2, <1>3, <1>4, PairsKept
<1>6. TokensTyped'
  <2>1. /\ issued' \in Nat /\ expired' \in 0..issued' /\ mem' \in 0..issued'
        /\ store' \in 0..issued'
    BY <1>1, <1>4 DEF CInv, TokensTyped
  <2>2. spent' \subseteq 1..issued' /\ rotated' \subseteq spent'
    <3>1. spent \subseteq 1..issued /\ rotated \subseteq spent
      BY DEF CInv, TokensTyped
    <3> DEFINE n == call[c].pair
    <3>2. n \in 1..issued
      BY <1>1
    <3>3. spent' = spent \cup {n} /\ rotated' = rotated \cup {n}
      BY <1>4
    <3>4. \A k \in 1..issued : k \in 1..issued'
      BY <1>1, <1>4
    <3> HIDE DEF n
    <3> QED BY <3>1, <3>2, <3>3, <3>4
  <2>3. /\ session' \in {"none", "good", "lapsed"} /\ excused' \in BOOLEAN /\ events' \in Nat
        /\ bridge' \in 0..issued' \cup {None}
    <3>1. TokensTyped /\ bridge' = bridge
      BY <1>4 DEF CInv
    <3>2. CASE bridge = None
      BY <1>4, <3>1, <3>2 DEF TokensTyped
    <3>3. CASE bridge \in 0..issued
      BY <1>1, <1>4, <3>1, <3>3 DEF TokensTyped
    <3> QED BY <3>1, <3>2, <3>3 DEF TokensTyped
  <2> QED BY <2>1, <2>2, <2>3 DEF TokensTyped
<1>7. Calm'
  <2> SUFFICES ASSUME ~excused', bridge' = None PROVE Undisturbed'
    BY DEF Calm
  <2>1. Undisturbed
    BY <1>4 DEF CInv, Calm
  <2>2. issued + 1 \notin spent'
    BY <1>1, <1>4 DEF CInv, TokensTyped
  <2>3. \A d \in Calls \ {c} : ~Refreshing(d)
    BY <1>1, <2>1 DEF Undisturbed, Refreshing
  <2> QED BY <1>1, <1>2, <1>4, <1>5, <2>1, <2>2, <2>3 DEF Undisturbed, Refreshing
<1>8. Crossing'
  <2>1. /\ Crossing /\ UNCHANGED <<mem, store, session, bridge, excused>>
        /\ bridge \in 0..issued \cup {None}
    BY <1>4 DEF CInv, TokensTyped
  <2>2. ASSUME bridge \notin {None, 0}
        PROVE  /\ bridge # issued + 1 /\ call[c].pair # bridge
               /\ \A d \in Calls : call'[d].pair # bridge
    BY <1>1, <1>2, <1>5, <2>1, <2>2 DEF Crossing
  <2>3. ASSUME ~excused, bridge # None PROVE bridge \notin spent'
    <3>1. bridge \notin spent
      BY <2>1, <2>3 DEF Crossing
    <3>2. bridge # call[c].pair
      BY <1>1, <2>2, <2>3
    <3> QED BY <1>4, <3>1, <3>2
  <2> QED BY <2>1, <2>2, <2>3 DEF Crossing
<1> QED BY <1>5, <1>6, <1>7, <1>8 DEF CInv

LEMMA RenewedKeeps == \A c \in Calls : CInv /\ Renewed(c) => CInv'
<1> SUFFICES ASSUME NEW c \in Calls, CInv, Renewed(c) PROVE CInv'
  OBVIOUS
<1> DEFINE x == [call[c] EXCEPT !.phase = "sent", !.retried = TRUE]
<1>1. /\ CallsTyped /\ call[c] \in Call /\ call[c].phase = "renewed"
      /\ call[c].pair \in 0..issued /\ issued \in Nat
  BY DEF CInv, PairsTyped, CallsTyped, Renewed, TokensTyped
<1>2. x \in Call /\ x.phase = "sent" /\ x.pair = call[c].pair
  BY <1>1 DEF Call, Phases
<1>3. Becomes(c, x)
  BY <1>2 DEF Renewed, Becomes
<1>4. /\ UNCHANGED <<issued, expired, spent, session, bridge, rotated, excused, events>>
      /\ mem' = call[c].pair /\ store' = call[c].pair
  BY DEF Renewed
<1> HIDE DEF x
<1>5. PairsTyped' /\ call'[c] = x /\ \A d \in Calls \ {c} : call'[d] = call[d]
  BY <1>1, <1>2, <1>3, <1>4, PairsKept
<1>6. TokensTyped'
  BY <1>1, <1>4 DEF CInv, TokensTyped
<1>7. Calm'
  <2> SUFFICES ASSUME ~excused', bridge' = None PROVE Undisturbed'
    BY DEF Calm
  <2>1. Undisturbed
    BY <1>4 DEF CInv, Calm
  <2>2. call[c].pair \notin spent /\ \A d \in Calls \ {c} : ~Refreshing(d)
    BY <1>1, <2>1 DEF Undisturbed, Refreshing
  <2> QED BY <1>2, <1>4, <1>5, <2>1, <2>2 DEF Undisturbed, Refreshing
<1>8. Crossing'
  <2>1. Crossing /\ UNCHANGED <<session, bridge, spent, excused>>
    BY <1>4 DEF CInv
  <2>2. ASSUME bridge \notin {None, 0}
        PROVE  mem' # bridge /\ store' # bridge /\ \A d \in Calls : call'[d].pair # bridge
    BY <1>2, <1>4, <1>5, <2>1, <2>2 DEF Crossing
  <2>3. ASSUME ~excused, bridge = None PROVE session # "none" /\ mem' # 0
    <3>1. mem # 0
      BY <1>1, <2>3 DEF CInv, Calm, Undisturbed
    <3>2. call[c].pair # 0
      BY <1>1 DEF CInv, PairsTyped
    <3> QED BY <1>4, <2>1, <2>3, <3>1, <3>2 DEF Crossing
  <2> QED BY <2>1, <2>2, <2>3 DEF Crossing
<1> QED BY <1>5, <1>6, <1>7, <1>8 DEF CInv

LEMMA ClearKeeps ==
  \A c \in Calls : CInv /\ ClearTokens(c) => CInv' /\ (excused \/ bridge # None)
<1> SUFFICES ASSUME NEW c \in Calls, CInv, ClearTokens(c)
             PROVE  CInv' /\ (excused \/ bridge # None)
  OBVIOUS
<1>1. CallsTyped /\ call[c].phase = "norefresh" /\ issued \in Nat
  BY DEF CInv, PairsTyped, ClearTokens, TokensTyped
<1>2. excused \/ bridge # None
  BY <1>1 DEF CInv, Calm, Undisturbed
<1>3. /\ UNCHANGED <<issued, expired, spent, session, bridge, rotated, excused, events>>
      /\ mem' = 0 /\ store' = 0
  BY DEF ClearTokens
<1>4. PICK x \in Call : Becomes(c, x) /\ x.phase = "error" /\ x.pair = 0
  <2>1. Settle(c, "error", None)
    BY DEF ClearTokens
  <2> QED BY <1>1, <2>1, ErrorCall
<1>5. PairsTyped' /\ call'[c] = x /\ \A d \in Calls \ {c} : call'[d] = call[d]
  BY <1>1, <1>3, <1>4, PairsKept
<1>6. TokensTyped'
  BY <1>1, <1>3 DEF CInv, TokensTyped
<1>7. Calm'
  BY <1>2, <1>3 DEF Calm
<1>8. Crossing'
  <2>1. Crossing /\ UNCHANGED <<session, bridge, spent, excused>>
    BY <1>3 DEF CInv
  <2>2. ASSUME bridge \notin {None, 0}
        PROVE  mem' # bridge /\ store' # bridge /\ \A d \in Calls : call'[d].pair # bridge
    BY <1>3, <1>4, <1>5, <2>1, <2>2 DEF Crossing
  <2> QED BY <1>2, <2>1, <2>2 DEF Crossing
<1> QED BY <1>2, <1>5, <1>6, <1>7, <1>8 DEF CInv

LEMMA MishapKeeps == \A c \in Calls : CInv /\ Mishap(c) => CInv'
<1> SUFFICES ASSUME NEW c \in Calls, CInv, Mishap(c) PROVE CInv'
  OBVIOUS
<1>1. /\ CallsTyped /\ call[c] \in Call /\ issued \in Nat /\ call[c].pair \in 0..issued
  BY DEF CInv, PairsTyped, CallsTyped, TokensTyped
<1>2. /\ UNCHANGED <<issued, expired, mem, store, session, bridge, rotated>>
      /\ excused' = TRUE /\ events' = events + 1
  BY DEF Mishap, Lose, RefuseRefresh, Event
<1>3. PICK x \in Call : /\ Becomes(c, x) /\ x.phase \in {"error", "norefresh"}
                        /\ x.pair \in {0, call[c].pair}
  <2>1. CASE Settle(c, "error", None)
    <3>1. PICK x \in Call : Becomes(c, x) /\ x.phase = "error" /\ x.pair = 0
      BY <1>1, <2>1, ErrorCall
    <3> QED BY <1>1, <3>1
  <2>2. CASE Goto(c, "norefresh")
    <3> DEFINE x == [call[c] EXCEPT !.phase = "norefresh"]
    <3>1. Becomes(c, x)
      BY <1>1, <2>2, GotoCall DEF Phases
    <3>2. x \in Call /\ x.phase = "norefresh" /\ x.pair = call[c].pair
      BY <1>1, <3>1 DEF Call, Becomes
    <3> QED BY <1>1, <3>1, <3>2
  <2> QED BY <2>1, <2>2 DEF Mishap, Lose, RefuseRefresh
<1>4. PairsTyped' /\ call'[c] = x /\ \A d \in Calls \ {c} : call'[d] = call[d]
  BY <1>1, <1>2, <1>3, PairsKept
<1>5. TokensTyped'
  <2>1. spent' \subseteq 1..issued /\ rotated \subseteq spent'
    <3>1. spent \subseteq 1..issued /\ rotated \subseteq spent
      BY DEF CInv, TokensTyped
    <3>2. CASE spent' = spent
      BY <3>1, <3>2
    <3>3. CASE call[c].phase = "checked" /\ spent' = spent \cup {call[c].pair}
      <4>1. call[c].pair \in 1..issued
        BY <1>1, <3>3 DEF CInv, PairsTyped
      <4> QED BY <3>1, <3>3, <4>1
    <3> QED BY <3>2, <3>3 DEF Mishap, Lose, RefuseRefresh, Blacklist
  <2> QED BY <1>2, <2>1 DEF CInv, TokensTyped
<1>6. Calm'
  BY <1>2 DEF Calm
<1>7. Crossing'
  <2>1. \A d \in Calls : call'[d].pair \in {0, mem, call[d].pair}
    BY <1>3, <1>4
  <2> QED BY <1>2, <2>1, CrossingStays
<1> QED BY <1>4, <1>5, <1>6, <1>7 DEF CInv

LEMMA ElsewhereKeeps == CInv /\ Elsewhere => CInv'
<1> SUFFICES ASSUME CInv, Elsewhere PROVE CInv'
  OBVIOUS
<1>1. call' = call /\ mem' = mem /\ issued \in Nat
  BY DEF Elsewhere, Expire, SessionLapses, OtherTab, Logout, Login, BridgeLost, CInv, TokensTyped
<1>2. ASSUME issued' \in Nat, issued' >= issued PROVE PairsTyped'
  <2>1. \A c \in Calls : call[c].pair \in 0..issued
    BY DEF CInv, PairsTyped
  <2> QED BY <1>1, <1>2, <2>1 DEF CInv, PairsTyped, CallsTyped
<1>3. Crossing /\ TokensTyped
  BY DEF CInv
<1>4. CASE Expire
  <2>1. /\ UNCHANGED <<issued, mem, store, session, bridge, rotated, events>> /\ expired' = issued
        /\ \/ UNCHANGED <<spent, excused>>
           \/ spent' = 1..issued /\ excused' = TRUE
    BY <1>4 DEF Expire
  <2>2. spent' \subseteq 1..issued' /\ rotated' \subseteq spent'
    BY <2>1 DEF CInv, TokensTyped
  <2>3. TokensTyped'
    <3>1. expired' \in 0..issued'
      BY <1>1, <2>1
    <3>2. excused' \in BOOLEAN
      BY <1>3, <2>1 DEF TokensTyped
    <3> QED BY <1>3, <2>1, <2>2, <3>1, <3>2 DEF TokensTyped
  <2>4. Calm'
    BY <1>1, <2>1 DEF CInv, Calm, Undisturbed, Refreshing
  <2>5. Crossing'
    BY <1>1, <2>1, CrossingStays
  <2> QED BY <1>1, <1>2, <2>1, <2>3, <2>4, <2>5 DEF CInv
<1>5. CASE SessionLapses
  <2>1. /\ UNCHANGED <<issued, expired, spent, store, bridge, rotated, excused>>
        /\ events' = events + 1 /\ session' = "lapsed"
    BY <1>5 DEF SessionLapses, Event
  <2>2. TokensTyped'
    BY <1>1, <2>1 DEF CInv, TokensTyped
  <2>3. Calm' /\ Crossing'
    BY <1>1, <1>3, <2>1 DEF CInv, Calm, Undisturbed, Refreshing, Crossing
  <2> QED BY <1>1, <1>2, <2>1, <2>2, <2>3 DEF CInv
<1>6. CASE OtherTab
  <2>1. excused' = TRUE /\ UNCHANGED <<expired, bridge>> /\ events' = events + 1
        /\ session' \in {session, "none"}
    BY <1>6 DEF OtherTab, Event
  <2>2. CASE store' = 0 /\ UNCHANGED <<spent, rotated, issued>>
    <3>1. TokensTyped'
      BY <1>1, <2>1, <2>2 DEF CInv, TokensTyped
    <3>2. Crossing'
      BY <1>1, <1>3, <2>1, <2>2 DEF Crossing
    <3> QED BY <1>1, <1>2, <2>1, <2>2, <3>1, <3>2 DEF CInv, Calm
  <2>3. ASSUME NEW n \in 1..issued,
               spent' = spent \cup {n}, rotated' = rotated \cup {n},
               issued' = issued + 1, store' = issued + 1
        PROVE  CInv'
    <3>1. spent' \subseteq 1..issued' /\ rotated' \subseteq spent'
      BY <1>1, <2>3 DEF CInv, TokensTyped
    <3>2. /\ issued' \in Nat /\ expired' \in 0..issued' /\ mem' \in 0..issued'
          /\ store' \in 0..issued' /\ bridge' \in 0..issued' \cup {None}
      BY <1>1, <2>1, <2>3 DEF CInv, TokensTyped
    <3>3. TokensTyped'
      BY <2>1, <3>1, <3>2 DEF CInv, TokensTyped
    <3>4. Crossing'
      <4>1. bridge \notin {None, 0} => bridge # issued + 1
        BY <1>1, <1>3 DEF TokensTyped
      <4> QED BY <1>1, <1>3, <2>1, <2>3, <4>1 DEF Crossing
    <3> QED BY <1>1, <1>2, <2>1, <2>3, <3>2, <3>3, <3>4 DEF CInv, Calm
  <2> QED BY <1>6, <2>2, <2>3 DEF OtherTab, Blacklist
<1>7. CASE Logout
  <2>1. /\ UNCHANGED <<issued, expired, spent, store, rotated>> /\ excused' = FALSE
        /\ events' = events + 1 /\ session' = "none" /\ bridge' = 0
    BY <1>7 DEF Logout, Event
  <2>2. TokensTyped'
    <3>1. bridge' \in 0..issued' /\ events' \in Nat /\ session' \in {"none", "good", "lapsed"}
      BY <1>1, <1>3, <2>1 DEF TokensTyped
    <3> QED BY <1>1, <1>3, <2>1, <3>1 DEF TokensTyped
  <2>3. 0 # None /\ 0 \notin spent
    BY <1>3, ApiClientAssumption DEF ApiClientAssumption, TokensTyped
  <2>4. Calm' /\ Crossing'
    BY <2>1, <2>3 DEF Calm, Crossing
  <2> QED BY <1>1, <1>2, <2>1, <2>2, <2>4 DEF CInv
<1>8. CASE Login
  <2>1. /\ UNCHANGED <<expired, spent, store, rotated, events>> /\ excused' = FALSE
        /\ session' = "good" /\ bridge' = issued + 1 /\ issued' = issued + 1
    BY <1>8 DEF Login
  <2>2. TokensTyped'
    <3>1. /\ issued' \in Nat /\ expired' \in 0..issued' /\ mem' \in 0..issued'
          /\ store' \in 0..issued' /\ bridge' \in 0..issued'
      BY <1>1, <1>3, <2>1 DEF TokensTyped
    <3>2. spent' \subseteq 1..issued' /\ rotated' \subseteq spent'
      BY <1>1, <1>3, <2>1 DEF TokensTyped
    <3>3. session' \in {"none", "good", "lapsed"} /\ excused' \in BOOLEAN /\ events' \in Nat
      BY <1>3, <2>1 DEF TokensTyped
    <3> QED BY <3>1, <3>2, <3>3 DEF TokensTyped
  <2>3. /\ issued + 1 # None /\ issued + 1 # 0 /\ issued + 1 \notin spent
        /\ mem # issued + 1 /\ store # issued + 1
    BY <1>1, <1>3, ApiClientAssumption DEF ApiClientAssumption, TokensTyped
  <2>4. \A c \in Calls : call'[c].pair # issued + 1
    BY <1>1 DEF CInv, PairsTyped
  <2>5. Calm' /\ Crossing'
    BY <1>1, <2>1, <2>3, <2>4 DEF Calm, Crossing
  <2> QED BY <1>1, <1>2, <2>1, <2>2, <2>5 DEF CInv
<1>9. CASE BridgeLost
  <2>1. /\ UNCHANGED <<issued, expired, spent, store, session, rotated>> /\ excused' = TRUE
        /\ events' = events + 1 /\ bridge' = None
    BY <1>9 DEF BridgeLost, Event
  <2>2. TokensTyped'
    BY <1>1, <2>1 DEF CInv, TokensTyped
  <2> QED BY <1>1, <1>2, <2>1, <2>2 DEF CInv, Calm, Crossing
<1> QED BY <1>4, <1>5, <1>6, <1>7, <1>8, <1>9 DEF Elsewhere

LEMMA PageKeeps == CInv /\ PageChange => CInv'
<1> SUFFICES ASSUME CInv, PageChange PROVE CInv'
  OBVIOUS
<1>1. /\ call' = [c \in Calls |-> Free] /\ issued \in Nat
      /\ UNCHANGED <<issued, expired, spent, rotated, session>> /\ bridge' = None
  BY DEF PageChange, LoadPage, Bridge, CInv, TokensTyped
<1>2. \A c \in Calls : call'[c] = Free /\ Free.phase = "free" /\ Free.pair = 0
  BY <1>1 DEF Free
<1>3. TokensTyped'
  <2>1. mem' \in 0..issued' /\ store' \in 0..issued'
    <3>1. mem \in 0..issued /\ store \in 0..issued /\ bridge \in 0..issued \cup {None}
      BY DEF CInv, TokensTyped
    <3>2. CASE LoadPage
      BY <1>1, <3>1, <3>2 DEF LoadPage
    <3>3. CASE Bridge
      BY <1>1, <3>1, <3>3 DEF Bridge, Stored
    <3> QED BY <3>2, <3>3 DEF PageChange
  <2>2. excused' \in BOOLEAN /\ events' \in Nat
    <3>1. excused \in BOOLEAN /\ events \in Nat
      BY DEF CInv, TokensTyped
    <3>2. CASE LoadPage
      BY <3>1, <3>2 DEF LoadPage, Event
    <3>3. CASE Bridge
      BY <3>1, <3>3 DEF Bridge
    <3> QED BY <3>2, <3>3 DEF PageChange
  <2> QED BY <1>1, <2>1, <2>2 DEF CInv, TokensTyped
<1>4. PairsTyped'
  BY <1>1, <1>2, <1>3, FreeCall DEF PairsTyped, CallsTyped, TokensTyped
<1>5. ASSUME ~excused'
      PROVE  /\ store' = mem' /\ (mem' # 0 => mem' \notin spent')
             /\ session' = "good" => mem' # 0
             /\ session' = "none" => mem' = 0
  <2>1. CASE LoadPage
    <3>1. ~excused /\ bridge = None /\ mem' = store /\ store' = store
          /\ \A c \in Calls : ~Refreshing(c)
      BY <1>5, <2>1 DEF LoadPage
    <3>2. Undisturbed /\ Crossing
      BY <3>1 DEF CInv, Calm
    <3> QED BY <1>1, <3>1, <3>2 DEF Undisturbed, Refreshing, Crossing
  <2>2. CASE Bridge
    <3>1. ~excused /\ bridge # None /\ mem' = bridge /\ store' = bridge
      BY <1>5, <2>2 DEF Bridge, Stored
    <3> QED BY <1>1, <3>1 DEF CInv, Crossing
  <2> QED BY <2>1, <2>2 DEF PageChange
<1>6. Calm'
  BY <1>2, <1>5 DEF Calm, Undisturbed, Refreshing
<1>7. Crossing'
  <2>1. None # 0
    BY ApiClientAssumption DEF ApiClientAssumption
  <2>2. bridge' = None
    BY <1>1
  <2> QED BY <1>5, <2>1, <2>2 DEF Crossing
<1> QED BY <1>3, <1>4, <1>6, <1>7 DEF CInv

--------------------------------------------------------------------------------
(* The page. *)

PageTyped ==
  /\ notice \in [Notices -> Flags] /\ shown \in [Notices -> Flags]
  /\ badge \in Nat /\ polling \in BOOLEAN

OpsOK ==
  \A c \in Calls :
    /\ call[c].phase # "free" => call[c].op \in Ops
    /\ call[c].op # None =>
         /\ \A n \in call[c].op.notices : notice[n] # "absent"
         /\ call[c].op.type \in {"poll", "load"} => call[c].op.notices = {}

\* What the list says was true when it was answered.
Faithful(list) ==
  /\ list \in [Notices -> Flags]
  /\ \A n \in Notices : /\ list[n] # "absent" => notice[n] # "absent"
                        /\ list[n] = "read" => notice[n] = "read"

AnswersOK ==
  \A c \in Calls :
    call[c].phase = "served" =>
      /\ call[c].op.type = "poll" => call[c].answer \in Nat
      /\ call[c].op.type = "load" => Faithful(call[c].answer)

\* The failure of call c would take back that n is read.
Held(c, n) == Marking(c, n) /\ call[c].op.live

ShownOK ==
  \A n \in Notices :
    /\ shown[n] # "absent" => notice[n] # "absent"
    /\ shown[n] = "read" => notice[n] = "read" \/ \E c \in Calls : Held(c, n)

PInv == PageTyped /\ OpsOK /\ AnswersOK /\ ShownOK

Inv == CInv /\ PInv

LEMMA InvFacts ==
  ASSUME Inv
  PROVE  /\ CallsTyped /\ issued \in Nat /\ mem \in Nat
         /\ PageTyped /\ OpsOK /\ AnswersOK /\ ShownOK
         /\ \A c \in Calls : call[c] \in Call /\ call[c].pair \in 0..issued
BY DEF Inv, PInv, CInv, PairsTyped, CallsTyped, TokensTyped

\* The calls travel: none starts, none is served, and they stay about the same.
Travels ==
  /\ UNCHANGED <<notice, page>>
  /\ \A d \in Calls :
       /\ call'[d].op = call[d].op
       /\ \/ call'[d].phase = call[d].phase /\ call'[d].answer = call[d].answer
          \/ call[d].phase # "free" /\ call'[d].phase \notin {"free", "served"}

LEMMA TravelsKeeps == PInv /\ Travels => PInv'
<1> SUFFICES ASSUME PInv, Travels PROVE PInv'
  OBVIOUS
<1>1. UNCHANGED <<notice, shown, badge, polling>>
  BY DEF Travels, page
<1>2. PageTyped'
  BY <1>1 DEF PInv, PageTyped
<1>3. OpsOK'
  BY <1>1 DEF PInv, OpsOK, Travels
<1>4. AnswersOK'
  BY <1>1 DEF PInv, AnswersOK, Travels, Faithful
<1>5. ASSUME NEW c \in Calls, NEW n \in Notices, Held(c, n)
      PROVE  Held(c, n)'
  BY <1>5 DEF Held, Marking, Travels
<1>6. ShownOK'
  BY <1>1, <1>5 DEF PInv, ShownOK
<1> QED BY <1>2, <1>3, <1>4, <1>6 DEF PInv

LEMMA OneTravels ==
  ASSUME CallsTyped, NEW c \in Calls, NEW x, call' = [call EXCEPT ![c] = x],
         x.op = call[c].op, call[c].phase # "free", x.phase \notin {"free", "served"},
         UNCHANGED <<notice, page>>
  PROVE  Travels
BY DEF Travels, CallsTyped

LEMMA TransportTravels == \A c \in Calls : CInv /\ Transport(c) => Travels
<1> SUFFICES ASSUME NEW c \in Calls, CInv, Transport(c) PROVE Travels
  OBVIOUS
<1>1. CallsTyped /\ call[c] \in Call /\ UNCHANGED <<notice, page>>
  BY DEF CInv, PairsTyped, CallsTyped, Transport
<1>2. ASSUME Settle(c, "error", None), call[c].phase # "free" PROVE Travels
  <2>1. PICK x \in Call : Becomes(c, x) /\ x.phase = "error" /\ x.op = call[c].op
    BY <1>1, <1>2, ErrorCall
  <2> QED BY <1>1, <1>2, <2>1, OneTravels DEF Becomes
<1>3. ASSUME NEW p \in Phases \ {"free", "served"}, Goto(c, p), call[c].phase # "free"
      PROVE  Travels
  <2> DEFINE x == [call[c] EXCEPT !.phase = p]
  <2>1. x.phase = p /\ x.op = call[c].op
    BY <1>1 DEF Call
  <2>2. call' = [call EXCEPT ![c] = x]
    BY <1>3 DEF Goto
  <2> HIDE DEF x
  <2> QED BY <1>1, <1>3, <2>1, <2>2, OneTravels
<1>4. CASE Deny(c)
  <2>1. "denied" \in Phases \ {"free", "served"}
    BY DEF Phases
  <2> QED BY <1>3, <1>4, <2>1 DEF Deny
<1>5. CASE Denied(c)
  <2>1. CASE MayRefresh(c)
    <3> DEFINE x == [call[c] EXCEPT !.phase = "refreshing", !.pair = mem]
    <3>1. x.phase = "refreshing" /\ x.op = call[c].op
      BY <1>1 DEF Call
    <3>2. call' = [call EXCEPT ![c] = x] /\ call[c].phase = "denied"
      BY <1>5, <2>1 DEF Denied, RefreshToken
    <3> HIDE DEF x
    <3> QED BY <1>1, <3>1, <3>2, OneTravels
  <2>2. CASE ~MayRefresh(c)
    BY <1>2, <1>5, <2>2 DEF Denied
  <2> QED BY <2>1, <2>2
<1>6. CASE CheckRefresh(c)
  <2> DEFINE p == IF call[c].pair \notin spent THEN "checked" ELSE "norefresh"
  <2>1. p \in Phases \ {"free", "served"}
    BY DEF Phases
  <2>2. Goto(c, p) /\ call[c].phase = "refreshing"
    BY <1>6 DEF CheckRefresh
  <2> HIDE DEF p
  <2> QED BY <1>3, <2>1, <2>2
<1>7. CASE Rotate(c)
  <2> DEFINE x == [call[c] EXCEPT !.phase = "renewed", !.pair = issued + 1]
  <2>1. x.phase = "renewed" /\ x.op = call[c].op
    BY <1>1 DEF Call
  <2>2. call' = [call EXCEPT ![c] = x] /\ call[c].phase = "checked"
    BY <1>7 DEF Rotate
  <2> HIDE DEF x
  <2> QED BY <1>1, <2>1, <2>2, OneTravels
<1>8. CASE Renewed(c)
  <2> DEFINE x == [call[c] EXCEPT !.phase = "sent", !.retried = TRUE]
  <2>1. x.phase = "sent" /\ x.op = call[c].op
    BY <1>1 DEF Call
  <2>2. call' = [call EXCEPT ![c] = x] /\ call[c].phase = "renewed"
    BY <1>8 DEF Renewed
  <2> HIDE DEF x
  <2> QED BY <1>1, <2>1, <2>2, OneTravels
<1>9. CASE ClearTokens(c)
  BY <1>2, <1>9 DEF ClearTokens
<1>10. CASE Mishap(c)
  <2>1. "norefresh" \in Phases \ {"free", "served"}
    BY DEF Phases
  <2> QED BY <1>2, <1>3, <1>10, <2>1 DEF Mishap, Lose, RefuseRefresh
<1> QED BY <1>4, <1>5, <1>6, <1>7, <1>8, <1>9, <1>10 DEF Transport, ClientStep

--------------------------------------------------------------------------------
(* The steps of the page and the answers of the server. *)

\* Rows only come, and only turn from unread to read.
Grows == \A n \in Notices : /\ notice[n] # "absent" => notice'[n] # "absent"
                            /\ notice[n] = "read" => notice'[n] = "read"

LEMMA GrowingKeeps ==
  ASSUME PInv, Grows
  PROVE  \A list : Faithful(list) => Faithful(list)'
BY DEF Grows, Faithful

LEMMA ArriveKeeps == \A n \in Notices : Inv /\ Arrive(n) => Inv'
<1> SUFFICES ASSUME NEW n \in Notices, Inv, Arrive(n) PROVE Inv'
  OBVIOUS
<1>1. /\ UNCHANGED <<call, shown, badge, polling>> /\ UNCHANGED client
      /\ notice' = [notice EXCEPT ![n] = "unread"] /\ notice[n] = "absent"
  BY DEF Arrive, page
<1>2. CInv'
  <2>1. NoRefresh
    BY <1>1, InvFacts DEF NoRefresh, CallsTyped
  <2> QED BY <2>1, NoRefreshKeeps DEF Inv
<1>3. Grows
  BY <1>1, InvFacts DEF Grows, PageTyped
<1>4. PageTyped'
  BY <1>1, InvFacts DEF PageTyped, Flags
<1>5. OpsOK'
  <2> SUFFICES ASSUME NEW c \in Calls
               PROVE  /\ call[c].phase # "free" => call[c].op \in Ops
                      /\ call[c].op # None =>
                           /\ \A m \in call[c].op.notices : notice'[m] # "absent"
                           /\ call[c].op.type \in {"poll", "load"} => call[c].op.notices = {}
    BY <1>1 DEF OpsOK
  <2>1. /\ call[c].phase # "free" => call[c].op \in Ops
        /\ call[c].op # None =>
             /\ \A m \in call[c].op.notices : notice[m] # "absent"
             /\ call[c].op.type \in {"poll", "load"} => call[c].op.notices = {}
    BY InvFacts DEF OpsOK
  <2>2. call[c].op # None => call[c].op.notices \subseteq Notices
    BY InvFacts DEF Call, Ops
  <2> QED BY <1>3, <2>1, <2>2 DEF Grows
<1>6. AnswersOK'
  BY <1>1, <1>3, InvFacts, GrowingKeeps DEF Inv, AnswersOK
<1>7. ShownOK'
  <2>1. \A c \in Calls, m \in Notices : Held(c, m)' <=> Held(c, m)
    BY <1>1 DEF Held, Marking
  <2> QED BY <1>1, <1>3, <2>1, InvFacts DEF ShownOK, Grows
<1> QED BY <1>2, <1>4, <1>5, <1>6, <1>7 DEF Inv, PInv

LEMMA SendStep ==
  ASSUME Inv, NEW c \in Calls, NEW op \in Ops, Send(c, op), notice' = notice,
         \A n \in op.notices : notice[n] # "absent",
         op.type \in {"poll", "load"} => op.notices = {}
  PROVE  /\ CInv' /\ OpsOK' /\ AnswersOK'
         /\ \A n \in Notices : /\ n \in op.notices /\ op.live => Held(c, n)'
                               /\ \A d \in Calls : Held(d, n) => Held(d, n)'
<1>1. PICK x \in Call : Becomes(c, x) /\ x.phase = "sent" /\ x.op = op /\ x.pair = mem
  BY InvFacts, SendCall
<1>2. /\ call'[c] = x /\ CallsTyped' /\ \A d \in Calls \ {c} : call'[d] = call[d]
      /\ call[c].phase = "free" /\ UNCHANGED client
  BY <1>1, InvFacts DEF Becomes, CallsTyped, Send
<1>3. CInv'
  <2>1. NoRefresh
    BY <1>1, <1>2 DEF NoRefresh, RefreshPhases
  <2> QED BY <2>1, NoRefreshKeeps DEF Inv
<1>4. OpsOK'
  BY <1>1, <1>2, InvFacts DEF OpsOK
<1>5. AnswersOK'
  BY <1>1, <1>2, InvFacts DEF AnswersOK, Faithful
<1>6. op # None
  BY InboxAssumption DEF InboxAssumption
<1> QED BY <1>1, <1>2, <1>3, <1>4, <1>5, <1>6 DEF Held, Marking

\* A call of the page starts, and the page shows the notices it is about as read.
LEMMA StartKeeps ==
  ASSUME Inv, NEW c \in Calls, NEW op \in Ops, Send(c, op), op.live,
         \A n \in op.notices : notice[n] # "absent",
         op.type \in {"poll", "load"} => op.notices = {},
         UNCHANGED <<notice, badge, polling>>, shown' = ShowRead(shown, op.notices)
  PROVE  Inv'
<1>1. CInv' /\ OpsOK' /\ AnswersOK'
  BY SendStep
<1>2. \A n \in Notices : /\ n \in op.notices => Held(c, n)'
                         /\ \A d \in Calls : Held(d, n) => Held(d, n)'
  BY SendStep
<1>3. PageTyped'
  BY InvFacts DEF PageTyped, ShowRead, Flags
<1>4. ShownOK'
  <2> SUFFICES ASSUME NEW n \in Notices
               PROVE  /\ shown'[n] # "absent" => notice[n] # "absent"
                      /\ shown'[n] = "read" => notice[n] = "read" \/ \E d \in Calls : Held(d, n)'
    BY DEF ShownOK
  <2>1. CASE n \in op.notices
    BY <1>2, <2>1 DEF ShowRead
  <2>2. CASE n \notin op.notices
    <3>1. shown'[n] = shown[n]
      BY <2>2 DEF ShowRead
    <3> QED BY <1>2, <3>1, InvFacts DEF ShownOK
  <2> QED BY <2>1, <2>2
<1> QED BY <1>1, <1>3, <1>4 DEF Inv, PInv

\* The operations the page starts.
LEMMA OpTyped ==
  ASSUME NEW t \in {"poll", "load", "mark", "markAll"}, NEW f \in {"all", "unread"},
         NEW ns \in SUBSET Notices
  PROVE  /\ Op(t, f, ns) \in Ops /\ Op(t, f, ns).live /\ Op(t, f, ns).notices = ns
         /\ Op(t, f, ns).type = t
BY DEF Op, Ops

LEMMA AskKeeps ==
  ASSUME Inv, NEW c \in Calls, NEW t \in {"poll", "load"}, NEW f \in {"all", "unread"},
         Send(c, Op(t, f, {})), UNCHANGED <<notice, page>>
  PROVE  Inv'
<1> DEFINE op == Op(t, f, {})
<1>1. op \in Ops /\ op.live /\ op.notices = {}
  BY OpTyped
<1>2. shown' = ShowRead(shown, op.notices)
  BY <1>1, InvFacts DEF PageTyped, ShowRead, page
<1> HIDE DEF op
<1>3. Send(c, op) /\ UNCHANGED <<notice, badge, polling>>
  BY DEF op, page
<1> QED BY <1>1, <1>2, <1>3, StartKeeps

LEMMA MarkingKeeps ==
  ASSUME Inv, NEW c \in Calls, NEW t \in {"mark", "markAll"}, NEW ns \in SUBSET Unread(shown),
         Send(c, Op(t, "all", ns)), shown' = ShowRead(shown, ns),
         UNCHANGED <<notice, badge, polling>>
  PROVE  Inv'
<1> DEFINE op == Op(t, "all", ns)
<1>1. ns \in SUBSET Notices /\ \A n \in ns : notice[n] # "absent"
  BY InvFacts DEF Unread, ShownOK
<1>2. op \in Ops /\ op.live /\ op.notices = ns /\ op.type = t
  BY <1>1, OpTyped
<1> HIDE DEF op
<1>3. Send(c, op)
  BY DEF op
<1>4. op.type \notin {"poll", "load"}
  BY <1>2
<1> QED BY <1>1, <1>2, <1>3, <1>4, StartKeeps

LEMMA AnswerTyped ==
  ASSUME PageTyped, NEW op \in Ops
  PROVE  /\ Answer(op) \in Answers
         /\ op.type = "poll" => Answer(op) \in Nat
         /\ op.type = "load" => Answer(op) = Listed(op.filter)
         /\ \A f : Faithful(Listed(f))
<1>1. Cardinality(Unread(notice)) \in Nat
  <2>1. Unread(notice) \subseteq Notices /\ IsFiniteSet(Notices)
    BY InboxAssumption DEF Unread, InboxAssumption
  <2> QED BY <2>1, FS_Subset, FS_CardinalityType
<1>2. \A f : Faithful(Listed(f))
  BY DEF PageTyped, Faithful, Listed, Flags
<1>3. op.type = "poll" => Answer(op) \in Nat
  BY <1>1 DEF Answer
<1>4. op.type = "load" => Answer(op) = Listed(op.filter)
  BY DEF Answer
<1>5. op.type \notin {"poll", "load"} => Answer(op) = None
  BY DEF Answer
<1>6. Listed(op.filter) \in [Notices -> Flags]
  BY <1>2 DEF Faithful
<1> QED BY <1>2, <1>3, <1>4, <1>5, <1>6 DEF Answers

LEMMA MarkedTyped ==
  ASSUME PageTyped, NEW op \in Ops
  PROVE  /\ \A n \in Marked(op) : n \in op.notices \/ notice[n] # "absent"
         /\ op.type \notin {"poll", "load"} =>
              \A n \in op.notices : n \in Marked(op) \/ notice[n] # "unread"
BY DEF Marked, Ops, Unread

LEMMA ServeKeeps == \A c \in Calls : Inv /\ ServeCall(c) => Inv'
<1> SUFFICES ASSUME NEW c \in Calls, Inv, ServeCall(c) PROVE Inv'
  OBVIOUS
<1> DEFINE op == call[c].op
           ans == Answer(op)
<1>1. /\ call[c].phase = "sent" /\ Settle(c, "served", ans) /\ UNCHANGED client
      /\ notice' = ShowRead(notice, Marked(op)) /\ UNCHANGED <<shown, badge, polling>>
  BY DEF ServeCall, Serve, page
<1>2. op \in Ops /\ op # None
  <2>1. op \in Ops
    BY <1>1, InvFacts DEF OpsOK
  <2> QED BY <2>1, InboxAssumption DEF InboxAssumption
<1>3. /\ \A n \in op.notices : notice[n] # "absent"
      /\ op.type \in {"poll", "load"} => op.notices = {}
      /\ op.notices \subseteq Notices
  BY <1>2, InvFacts DEF OpsOK, Ops
<1>4. /\ ans \in Answers
      /\ op.type = "poll" => ans \in Nat
      /\ op.type = "load" => Faithful(ans)
  BY <1>2, InvFacts, AnswerTyped
<1>5. \A n \in Notices : /\ notice[n] # "absent" => notice'[n] # "absent"
                         /\ n \in Marked(op) => notice'[n] = "read"
                         /\ n \notin Marked(op) => notice'[n] = notice[n]
  BY <1>1 DEF ShowRead
<1>6. Grows
  BY <1>5 DEF Grows
<1>7. \A n \in op.notices : notice'[n] = "read"
  <2>1. ASSUME NEW n \in op.notices PROVE notice'[n] = "read"
    <3>1. n \in Notices /\ notice[n] \in Flags
      BY <1>3, InvFacts DEF PageTyped
    <3>2. n \in Marked(op) \/ notice[n] # "unread"
      BY <1>2, <1>3, InvFacts, MarkedTyped
    <3> QED BY <1>3, <1>5, <3>1, <3>2 DEF Flags
  <2> QED BY <2>1
<1> HIDE DEF ans
<1>8. PICK x \in Call : /\ Becomes(c, x) /\ x.phase = "served" /\ x.op = op /\ x.pair = 0
                        /\ x.answer = ans
  <2>1. "served" \in Phases
    BY DEF Phases
  <2> QED BY <1>1, <1>4, <2>1, InvFacts, SettleCall
<1>9. call'[c] = x /\ CallsTyped' /\ \A d \in Calls \ {c} : call'[d] = call[d]
  BY <1>8, InvFacts DEF Becomes, CallsTyped
<1> HIDE DEF op
<1>10. CInv'
  <2>1. NoRefresh
    BY <1>1, <1>8, <1>9, InvFacts DEF NoRefresh, RefreshPhases
  <2> QED BY <2>1, NoRefreshKeeps DEF Inv
<1>11. PageTyped'
  BY <1>1, InvFacts DEF PageTyped, ShowRead, Flags
<1>12. OpsOK'
  <2> SUFFICES ASSUME NEW d \in Calls
               PROVE  /\ call'[d].phase # "free" => call'[d].op \in Ops
                      /\ call'[d].op # None =>
                           /\ \A m \in call'[d].op.notices : notice'[m] # "absent"
                           /\ call'[d].op.type \in {"poll", "load"} => call'[d].op.notices = {}
    BY DEF OpsOK
  <2>1. CASE d = c
    BY <1>2, <1>3, <1>7, <1>8, <1>9, <2>1
  <2>2. CASE d # c
    <3>1. call'[d] = call[d]
      BY <1>9, <2>2
    <3>2. /\ call[d].phase # "free" => call[d].op \in Ops
          /\ call[d].op # None =>
               /\ \A m \in call[d].op.notices : notice[m] # "absent"
               /\ call[d].op.type \in {"poll", "load"} => call[d].op.notices = {}
      BY InvFacts DEF OpsOK
    <3>3. call[d].op # None => call[d].op.notices \subseteq Notices
      BY InvFacts DEF Call, Ops
    <3> QED BY <1>5, <3>1, <3>2, <3>3
  <2> QED BY <2>1, <2>2
<1>13. AnswersOK'
  <2> DEFINE Now(list) == /\ list \in [Notices -> Flags]
                          /\ \A n \in Notices : /\ list[n] # "absent" => notice'[n] # "absent"
                                                /\ list[n] = "read" => notice'[n] = "read"
  <2>1. \A list : Faithful(list) => Now(list)
    BY <1>6 DEF Faithful, Grows
  <2>2. op.type = "load" => Now(ans)
    BY <1>4, <2>1
  <2> SUFFICES ASSUME NEW d \in Calls, call'[d].phase = "served"
               PROVE  /\ call'[d].op.type = "poll" => call'[d].answer \in Nat
                      /\ call'[d].op.type = "load" => Now(call'[d].answer)
    BY DEF AnswersOK, Faithful
  <2>3. CASE d = c
    BY <1>4, <1>8, <1>9, <2>2, <2>3
  <2>4. CASE d # c
    <3>1. call'[d] = call[d]
      BY <1>9, <2>4
    <3>2. /\ call[d].op.type = "poll" => call[d].answer \in Nat
          /\ call[d].op.type = "load" => Faithful(call[d].answer)
      BY <3>1, InvFacts DEF AnswersOK
    <3> QED BY <2>1, <3>1, <3>2
  <2> QED BY <2>3, <2>4
<1>14. ShownOK'
  <2> SUFFICES ASSUME NEW n \in Notices
               PROVE  /\ shown[n] # "absent" => notice'[n] # "absent"
                      /\ shown[n] = "read" => notice'[n] = "read" \/ \E d \in Calls : Held(d, n)'
    BY <1>1 DEF ShownOK
  <2>1. \A d \in Calls \ {c} : Held(d, n) => Held(d, n)'
    BY <1>9 DEF Held, Marking
  <2>2. Held(c, n) => n \in op.notices
    BY DEF Held, Marking, op
  <2> QED BY <1>5, <1>6, <1>7, <2>1, <2>2, InvFacts DEF ShownOK, Grows
<1> QED BY <1>10, <1>11, <1>12, <1>13, <1>14 DEF Inv, PInv

\* A step of the page that ends call c; what the others are about stays, but for live.
LEMMA Ending ==
  ASSUME Inv, NEW c \in Calls, call[c].phase \in {"served", "error"},
         UNCHANGED client, notice' = notice, CallsTyped', call'[c] = Free,
         \A d \in Calls \ {c} :
           /\ call'[d].phase = call[d].phase /\ call'[d].pair = call[d].pair
           /\ call'[d].answer = call[d].answer
           /\ \/ call'[d].op = call[d].op
              \/ /\ call[d].op # None /\ call'[d].op \in Ops
                 /\ call'[d].op.notices = call[d].op.notices
                 /\ call'[d].op.type = call[d].op.type
  PROVE  CInv' /\ OpsOK' /\ AnswersOK'
<1>1. /\ Free.phase = "free" /\ Free.pair = 0 /\ Free.op = None
  BY DEF Free
<1>2. CInv'
  <2>1. NoRefresh
    BY <1>1, InvFacts DEF NoRefresh, RefreshPhases
  <2> QED BY <2>1, NoRefreshKeeps DEF Inv
<1>3. OpsOK'
  BY <1>1, InvFacts DEF OpsOK
<1>4. AnswersOK'
  <2> SUFFICES ASSUME NEW d \in Calls, call'[d].phase = "served"
               PROVE  /\ call'[d].op.type = "poll" => call'[d].answer \in Nat
                      /\ call'[d].op.type = "load" => Faithful(call'[d].answer)
    BY DEF AnswersOK, Faithful
  <2>1. d # c /\ call[d].phase = "served" /\ call'[d].answer = call[d].answer
        /\ call'[d].op.type = call[d].op.type
    BY <1>1
  <2> QED BY <2>1, InvFacts DEF AnswersOK
<1> QED BY <1>2, <1>3, <1>4

LEMMA FreedTyped ==
  ASSUME CallsTyped, NEW c \in Calls
  PROVE  /\ Freed(c) \in [Calls -> Call] /\ Freed(c)[c] = Free
         /\ \A d \in Calls \ {c} : Freed(c)[d] = call[d]
BY FreeCall DEF CallsTyped, Freed

LEMMA DetachedTyped ==
  ASSUME NEW calls \in [Calls -> Call]
  PROVE  /\ Detached(calls) \in [Calls -> Call]
         /\ \A d \in Calls :
              /\ Detached(calls)[d].phase = calls[d].phase
              /\ Detached(calls)[d].pair = calls[d].pair
              /\ Detached(calls)[d].answer = calls[d].answer
              /\ calls[d].op = None => Detached(calls)[d] = calls[d]
              /\ \/ Detached(calls)[d].op = calls[d].op
                 \/ /\ calls[d].op # None /\ Detached(calls)[d].op \in Ops
                    /\ Detached(calls)[d].op.notices = calls[d].op.notices
                    /\ Detached(calls)[d].op.type = calls[d].op.type
<1>1. ASSUME NEW d \in Calls, calls[d].op # None
      PROVE  LET x == [calls[d] EXCEPT !.op.live = FALSE] IN
               /\ x \in Call /\ x.phase = calls[d].phase /\ x.pair = calls[d].pair
               /\ x.answer = calls[d].answer /\ x.op \in Ops
               /\ x.op.notices = calls[d].op.notices /\ x.op.type = calls[d].op.type
  <2>1. calls[d] \in Call /\ calls[d].op \in Ops
    BY <1>1 DEF Call
  <2>2. [calls[d].op EXCEPT !.live = FALSE] \in Ops
    BY <2>1 DEF Ops
  <2> QED BY <2>1, <2>2 DEF Call, Ops
<1>2. \A d \in Calls : calls[d] \in Call
  OBVIOUS
<1> QED BY <1>1, <1>2 DEF Detached

LEMMA SucceedKeeps == \A c \in Calls : Inv /\ Succeed(c) => Inv'
<1> SUFFICES ASSUME NEW c \in Calls, Inv, Succeed(c) PROVE Inv'
  OBVIOUS
<1> DEFINE op == call[c].op
<1>1. call[c].phase = "served" /\ UNCHANGED client /\ UNCHANGED <<notice, polling>>
  BY DEF Succeed
<1>2. /\ op.type = "poll" => call[c].answer \in Nat
      /\ op.type = "load" => Faithful(call[c].answer)
  BY <1>1, InvFacts DEF AnswersOK
<1>3. CASE op.type = "load"
  <2>1. shown' = call[c].answer /\ call' = Detached(Freed(c)) /\ UNCHANGED badge
    BY <1>3 DEF Succeed
  <2>2. /\ CallsTyped'
        /\ \A d \in Calls :
             /\ call'[d].phase = Freed(c)[d].phase /\ call'[d].pair = Freed(c)[d].pair
             /\ call'[d].answer = Freed(c)[d].answer
             /\ Freed(c)[d].op = None => call'[d] = Freed(c)[d]
             /\ \/ call'[d].op = Freed(c)[d].op
                \/ /\ Freed(c)[d].op # None /\ call'[d].op \in Ops
                   /\ call'[d].op.notices = Freed(c)[d].op.notices
                   /\ call'[d].op.type = Freed(c)[d].op.type
    BY <2>1, InvFacts, FreedTyped, DetachedTyped DEF CallsTyped
  <2>3. Freed(c)[c] = Free /\ Free.op = None /\ \A d \in Calls \ {c} : Freed(c)[d] = call[d]
    BY InvFacts, FreedTyped DEF Free
  <2>4. CInv' /\ OpsOK' /\ AnswersOK'
    BY <1>1, <2>2, <2>3, Ending
  <2>5. PageTyped' /\ ShownOK'
    BY <1>1, <1>2, <1>3, <2>1, InvFacts DEF PageTyped, ShownOK, Faithful
  <2> QED BY <2>4, <2>5 DEF Inv, PInv
<1>4. CASE op.type # "load"
  <2>1. /\ badge' = IF op.type = "poll" THEN call[c].answer ELSE badge
        /\ call' = Freed(c) /\ UNCHANGED shown
    BY <1>4 DEF Succeed, Badge
  <2>2. /\ CallsTyped' /\ call'[c] = Free /\ \A d \in Calls \ {c} : call'[d] = call[d]
    BY <2>1, InvFacts, FreedTyped DEF CallsTyped
  <2>3. CInv' /\ OpsOK' /\ AnswersOK'
    BY <1>1, <2>2, Ending
  <2>4. PageTyped'
    BY <1>1, <1>2, <2>1, InvFacts DEF PageTyped
  <2>5. ASSUME NEW d \in Calls, NEW n \in Notices, Held(d, n) PROVE Held(d, n)'
    BY <1>1, <2>2, <2>5 DEF Held, Marking
  <2>6. ShownOK'
    BY <1>1, <2>1, <2>5, InvFacts DEF ShownOK
  <2> QED BY <2>3, <2>4, <2>6 DEF Inv, PInv
<1> QED BY <1>3, <1>4

LEMMA FailKeeps == \A c \in Calls : Inv /\ Fail(c) => Inv'
<1> SUFFICES ASSUME NEW c \in Calls, Inv, Fail(c) PROVE Inv'
  OBVIOUS
<1>1. /\ call[c].phase = "error" /\ UNCHANGED client /\ UNCHANGED <<notice, badge, polling>>
      /\ call' = Freed(c)
      /\ shown' = [n \in Notices |-> IF n \in Revert(call[c].op) THEN "unread" ELSE shown[n]]
  BY DEF Fail
<1>2. /\ CallsTyped' /\ call'[c] = Free /\ \A d \in Calls \ {c} : call'[d] = call[d]
  BY <1>1, InvFacts, FreedTyped DEF CallsTyped
<1>3. CInv' /\ OpsOK' /\ AnswersOK'
  BY <1>1, <1>2, Ending
<1>4. PageTyped'
  BY <1>1, InvFacts DEF PageTyped, Flags
<1>5. call[c].op \in Ops /\ call[c].op # None
  <2>1. call[c].op \in Ops
    BY <1>1, InvFacts DEF OpsOK
  <2> QED BY <2>1, InboxAssumption DEF InboxAssumption
<1>6. ShownOK'
  <2> SUFFICES ASSUME NEW n \in Notices
               PROVE  /\ shown'[n] # "absent" => notice[n] # "absent"
                      /\ shown'[n] = "read" => notice[n] = "read" \/ \E d \in Calls : Held(d, n)'
    BY <1>1 DEF ShownOK
  <2>1. CASE n \in Revert(call[c].op)
    <3>1. n \in call[c].op.notices /\ shown'[n] = "unread"
      BY <1>1, <2>1 DEF Revert
    <3> QED BY <1>5, <3>1, InvFacts DEF OpsOK
  <2>2. CASE n \notin Revert(call[c].op)
    <3>1. shown'[n] = shown[n]
      BY <1>1, <2>2
    <3>2. ~Held(c, n)
      BY <2>2 DEF Held, Marking, Revert
    <3>3. \A d \in Calls \ {c} : Held(d, n) => Held(d, n)'
      BY <1>2 DEF Held, Marking
    <3> QED BY <3>1, <3>2, <3>3, InvFacts DEF ShownOK
  <2> QED BY <2>1, <2>2
<1> QED BY <1>3, <1>4, <1>6 DEF Inv, PInv

LEMMA ChangeKeeps == Inv /\ ChangePage => Inv'
<1> SUFFICES ASSUME Inv, ChangePage PROVE Inv'
  OBVIOUS
<1>1. /\ PageChange /\ shown' = Empty /\ badge' = 0 /\ polling' \in BOOLEAN /\ notice' = notice
  BY DEF ChangePage
<1>2. CInv'
  BY <1>1, PageKeeps DEF Inv
<1>3. \A d \in Calls : call'[d].op = None /\ call'[d].phase = "free"
  BY <1>1 DEF PageChange, LoadPage, Bridge, Free
<1>4. OpsOK' /\ AnswersOK'
  BY <1>3 DEF OpsOK, AnswersOK
<1>5. PageTyped' /\ ShownOK'
  BY <1>1, InvFacts DEF PageTyped, ShownOK, Empty, Flags
<1> QED BY <1>2, <1>4, <1>5 DEF Inv, PInv

--------------------------------------------------------------------------------
LEMMA InvInit == Init => Inv
<1> SUFFICES ASSUME Init PROVE Inv
  OBVIOUS
<1>1. call \in [Calls -> Call] /\ \A c \in Calls : call[c] = Free
  BY FreeCall DEF Init, ClientInit
<1>2. Free.phase = "free" /\ Free.op = None /\ Free.pair = 0
  BY DEF Free
<1>3. TokensTyped
  <2>1. /\ issued = 0 /\ expired = 0 /\ spent = {} /\ mem = 0 /\ store = 0 /\ rotated = {}
        /\ events = 0
    BY DEF Init, ClientInit
  <2>2. session = "none" /\ bridge = None /\ excused = FALSE
    BY DEF Init, ClientInit
  <2>3. 0 \in 0..0 /\ 0 \in Nat
    OBVIOUS
  <2> QED BY <2>1, <2>2, <2>3 DEF TokensTyped
<1>4. PairsTyped
  BY <1>1, <1>2, <1>3 DEF PairsTyped, CallsTyped, TokensTyped
<1>5. Calm
  BY <1>1, <1>2 DEF Calm, Undisturbed, Refreshing, Init, ClientInit
<1>6. Crossing
  BY DEF Crossing, Init, ClientInit
<1>7. PInv
  BY <1>1, <1>2 DEF Init, PInv, PageTyped, OpsOK, AnswersOK, ShownOK, Empty, Flags
<1> QED BY <1>3, <1>4, <1>5, <1>6, <1>7 DEF Inv, CInv

LEMMA TransportKeeps == \A c \in Calls : Inv /\ Transport(c) => Inv'
<1> SUFFICES ASSUME NEW c \in Calls, Inv, Transport(c) PROVE Inv'
  OBVIOUS
<1>1. CInv
  BY DEF Inv
<1>2. CInv'
  <2>1. CASE Deny(c)
    BY <1>1, <2>1, DenyStep, NoRefreshKeeps
  <2>2. CASE Denied(c)
    BY <1>1, <2>2, DeniedKeeps
  <2>3. CASE CheckRefresh(c)
    BY <1>1, <2>3, CheckKeeps
  <2>4. CASE Rotate(c)
    BY <1>1, <2>4, RotateKeeps
  <2>5. CASE Renewed(c)
    BY <1>1, <2>5, RenewedKeeps
  <2>6. CASE ClearTokens(c)
    BY <1>1, <2>6, ClearKeeps
  <2>7. CASE Mishap(c)
    BY <1>1, <2>7, MishapKeeps
  <2> QED BY <2>1, <2>2, <2>3, <2>4, <2>5, <2>6, <2>7 DEF Transport, ClientStep
<1>3. PInv'
  <2>1. Travels
    BY <1>1, TransportTravels
  <2> QED BY <2>1, TravelsKeeps DEF Inv
<1> QED BY <1>2, <1>3 DEF Inv

LEMMA InvNext == Inv /\ [Next]_vars => Inv'
<1> SUFFICES ASSUME Inv, [Next]_vars PROVE Inv'
  OBVIOUS
<1>1. ASSUME NEW n \in Notices, Arrive(n) PROVE Inv'
  BY <1>1, ArriveKeeps
<1>2. ASSUME NEW c \in Calls, Poll(c) PROVE Inv'
  BY <1>2, AskKeeps DEF Poll
<1>3. ASSUME NEW c \in Calls, NEW f \in {"all", "unread"}, SetFilter(c, f) PROVE Inv'
  BY <1>3, AskKeeps DEF SetFilter
<1>4. ASSUME NEW c \in Calls, NEW n \in Notices, MarkRead(c, n) PROVE Inv'
  <2>1. {n} \in SUBSET Unread(shown)
    BY <1>4 DEF MarkRead, Unread
  <2> QED BY <1>4, <2>1, MarkingKeeps DEF MarkRead
<1>5. ASSUME NEW c \in Calls, MarkAllRead(c) PROVE Inv'
  <2>1. Unread(shown) \in SUBSET Unread(shown)
    OBVIOUS
  <2> QED BY <1>5, <2>1, MarkingKeeps DEF MarkAllRead
<1>6. ASSUME NEW c \in Calls, Transport(c) PROVE Inv'
  BY <1>6, TransportKeeps
<1>7. ASSUME NEW c \in Calls, ServeCall(c) PROVE Inv'
  BY <1>7, ServeKeeps
<1>8. ASSUME NEW c \in Calls, Succeed(c) PROVE Inv'
  BY <1>8, SucceedKeeps
<1>9. ASSUME NEW c \in Calls, Fail(c) PROVE Inv'
  BY <1>9, FailKeeps
<1>10. CASE Elsewhere /\ UNCHANGED <<notice, page>>
  <2>1. CInv'
    BY <1>10, ElsewhereKeeps DEF Inv
  <2>2. call' = call
    BY <1>10 DEF Elsewhere, Expire, SessionLapses, OtherTab, Logout, Login, BridgeLost
  <2>3. Travels
    BY <1>10, <2>2 DEF Travels
  <2> QED BY <2>1, <2>3, TravelsKeeps DEF Inv
<1>11. CASE ChangePage
  BY <1>11, ChangeKeeps
<1>12. CASE UNCHANGED vars
  <2>1. UNCHANGED <<notice, page, call>> /\ UNCHANGED client
    BY <1>12 DEF vars
  <2>2. Travels
    BY <2>1 DEF Travels
  <2>3. NoRefresh
    BY <2>1, InvFacts DEF NoRefresh, CallsTyped
  <2> QED BY <2>2, <2>3, TravelsKeeps, NoRefreshKeeps DEF Inv
<1> QED BY <1>1, <1>2, <1>3, <1>4, <1>5, <1>6, <1>7, <1>8, <1>9, <1>10, <1>11, <1>12 DEF Next

LEMMA InvAlways == Spec => []Inv
BY InvInit, InvNext, PTL DEF Spec

(* The types of all variables of the page and of the client. *)
THEOREM TypeCorrect == Spec => []TypeOK
<1>1. Inv => TypeOK
  <2> SUFFICES ASSUME Inv PROVE TypeOK
    OBVIOUS
  <2>1. /\ issued \in Nat /\ expired \in 0..issued /\ mem \in 0..issued /\ store \in 0..issued
        /\ spent \subseteq 1..issued /\ rotated \subseteq 1..issued
        /\ session \in {"none", "good", "lapsed"} /\ bridge \in 0..issued \cup {None}
        /\ excused \in BOOLEAN /\ events \in Nat
    BY DEF Inv, CInv, TokensTyped
  <2>2. \A c \in Calls : call[c].phase \in Phases /\ call[c].op \in Ops \cup {None}
    BY InvFacts DEF Call
  <2>3. \A c \in Calls : call[c].pair \in 0..issued
    BY InvFacts
  <2>4. PageTyped
    BY InvFacts
  <2> QED BY <2>1, <2>2, <2>3, <2>4 DEF TypeOK, PageTyped
<1> QED BY InvAlways, <1>1, PTL

(* What the page shows as read is read in the table, or a call is on its way that will
   mark it or take it back: markRead and markAllRead against reloads, refreshes and
   failures, for any number of calls and notices. *)
THEOREM PageHonest == Spec => []ShownReadIsRead
<1>1. Inv => ShownReadIsRead
  BY InvFacts DEF ShownReadIsRead, ShownOK, Held
<1> QED BY InvAlways, <1>1, PTL

\* Only these two steps move a call from one of these phases to the other.
LEMMA Moves ==
  ASSUME Inv, [Next]_vars, NEW d \in Calls
  PROVE  /\ call[d].phase = "refreshing" /\ call'[d].phase = "checked" => CheckRefresh(d)
         /\ call[d].phase = "norefresh" /\ call'[d].phase = "error" => ClearTokens(d)
<1> DEFINE Stays == \/ call'[d].phase = call[d].phase
                    \/ call[d].phase \notin {"refreshing", "norefresh"}
                    \/ call'[d].phase \notin {"checked", "error"}
<1>1. ASSUME NEW c \in Calls, NEW x, call' = [call EXCEPT ![c] = x], c # d
      PROVE  Stays
  BY <1>1, InvFacts DEF CallsTyped
<1>2. ASSUME NEW c \in Calls, NEW op, Send(c, op) PROVE Stays
  BY <1>1, <1>2 DEF Send
<1>3. ASSUME NEW c \in Calls, Transport(c)
      PROVE  Stays \/ CheckRefresh(d) \/ ClearTokens(d)
  <2>1. ASSUME c = d PROVE Stays \/ CheckRefresh(d) \/ ClearTokens(d)
    <3>1. CASE Mishap(d) /\ Goto(d, "norefresh")
      BY <3>1, InvFacts DEF Goto, CallsTyped, Call
    <3>2. CASE Rotate(d) \/ Renewed(d) \/ Deny(d) \/ Denied(d)
      BY <3>2 DEF Rotate, Renewed, Deny, Denied
    <3> QED BY <1>3, <2>1, <3>1, <3>2 DEF Transport, ClientStep, Mishap, Lose, RefuseRefresh
  <2>2. ASSUME c # d PROVE Stays
    BY <1>3, <2>2, InvFacts DEF Transport, ClientStep, Deny, Denied, CheckRefresh, Rotate, Renewed,
                      ClearTokens, Mishap, Lose, RefuseRefresh, Goto, Settle, CallsTyped
  <2> QED BY <2>1, <2>2
<1>4. ASSUME NEW c \in Calls, ServeCall(c) \/ Fail(c) PROVE Stays
  BY <1>4, InvFacts DEF ServeCall, Serve, Settle, Fail, Freed, CallsTyped
<1>5. ASSUME NEW c \in Calls, Succeed(c) PROVE Stays
  <2>1. \/ call' = Freed(c)
        \/ call' = Detached(Freed(c))
    BY <1>5 DEF Succeed
  <2>2. call'[d].phase = Freed(c)[d].phase
    BY <2>1, InvFacts, FreedTyped, DetachedTyped
  <2>3. CASE c = d
    BY <1>5, <2>3 DEF Succeed
  <2>4. CASE c # d
    BY <2>2, <2>4, InvFacts, FreedTyped
  <2> QED BY <2>3, <2>4
<1>6. ASSUME ChangePage PROVE Stays
  BY <1>6 DEF ChangePage, PageChange, LoadPage, Bridge, Free
<1>7. Stays \/ CheckRefresh(d) \/ ClearTokens(d)
  <2>1. ASSUME NEW c \in Calls,
               \/ Poll(c) \/ \E f \in {"all", "unread"} : SetFilter(c, f)
               \/ \E n \in Notices : MarkRead(c, n)
               \/ MarkAllRead(c)
        PROVE  Stays
    BY <1>2, <2>1 DEF Poll, SetFilter, MarkRead, MarkAllRead
  <2>2. CASE (\E n \in Notices : Arrive(n)) \/ Elsewhere \/ UNCHANGED vars
    <3>1. call' = call
      BY <2>2 DEF Arrive, Elsewhere, Expire, SessionLapses, OtherTab, Logout, Login, BridgeLost,
                  vars
    <3> QED BY <3>1
  <2>3. ASSUME NEW c \in Calls, ServeCall(c) \/ Succeed(c) \/ Fail(c) PROVE Stays
    BY <1>4, <1>5, <2>3
  <2> HIDE DEF Stays
  <2>4. CASE UNCHANGED vars
    BY <2>2, <2>4
  <2>5. ASSUME Next PROVE Stays \/ CheckRefresh(d) \/ ClearTokens(d)
    BY <1>3, <1>6, <2>1, <2>2, <2>3, <2>5 DEF Next
  <2> QED BY <2>4, <2>5
<1> QED BY <1>7 DEF CheckRefresh, ClearTokens

(* A refresh token that was exchanged passes no later check: rotation with the blacklist,
   however many calls and tabs race for it. *)
THEOREM RotationHolds == Spec => RotatedTokensRefused
<1>1. Inv /\ [Next]_vars
        => (\A c \in Calls : call[c].phase = "refreshing" /\ call'[c].phase = "checked"
                               => call[c].pair \notin rotated)
  <2> SUFFICES ASSUME Inv, [Next]_vars, NEW c \in Calls,
                      call[c].phase = "refreshing", call'[c].phase = "checked"
               PROVE  call[c].pair \notin rotated
    OBVIOUS
  <2>1. CheckRefresh(c)
    BY Moves
  <2>2. call[c].pair \notin spent
    BY <2>1, InvFacts DEF CheckRefresh, Goto, CallsTyped, Call
  <2> QED BY <2>2 DEF Inv, CInv, TokensTyped
<1> QED BY InvAlways, <1>1, PTL DEF Spec, RotatedTokensRefused

(* What the tab's tokens are wiped by: overlapping refreshes, a lapsed or refused refresh
   token, a lost message, a page left in the middle of a refresh, a bridge page that never
   came, another tab.  A tab that meets none of it keeps them, for any number of calls. *)
THEOREM NotWipedForNothing == Spec => WipedForACause
<1>1. Inv /\ [Next]_vars
        => (\A c \in Calls :
              call[c].phase = "norefresh" /\ call'[c].phase = "error" /\ bridge = None => excused)
  <2> SUFFICES ASSUME Inv, [Next]_vars, NEW c \in Calls,
                      call[c].phase = "norefresh", call'[c].phase = "error", bridge = None
               PROVE  excused
    OBVIOUS
  <2>1. ClearTokens(c)
    BY Moves
  <2> QED BY <2>1, ClearKeeps DEF Inv
<1> QED BY InvAlways, <1>1, PTL DEF Spec, WipedForACause

(* Session and tokens agree again once the bridge page has come, whatever the calls of the
   page before it were doing. *)
THEOREM SessionTokens == Spec => []TokensFollowSession
<1>1. Inv => TokensFollowSession
  BY DEF Inv, CInv, Crossing, TokensFollowSession
<1> QED BY InvAlways, <1>1, PTL
================================================================================
