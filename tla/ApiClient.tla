-------------------------------- MODULE ApiClient --------------------------------
(***************************************************************************)
(* JWT sessions: the two token endpoints of the server, and the API client *)
(* of one browser tab with several calls in flight.  A call that meets a   *)
(* 401 spends the refresh token and is sent once more; the tokens live in  *)
(* the tab's memory and in the localStorage it shares with other tabs,     *)
(* next to the cookie of the Django session.  What the calls are about is  *)
(* left to the modules that extend this one.                               *)
(***************************************************************************)
EXTENDS Naturals

CONSTANTS
  Calls,        \* calls that may be in flight together
  None,         \* no operation, no answer
  MaxExpired,   \* bound: tokens expire as long as fewer pairs than that have expired
  MaxEvents     \* bound: sign-outs, page loads, failures, other tabs' doings

ASSUME ApiClientAssumption == MaxExpired \in Nat /\ MaxEvents \in Nat /\ None \notin Nat

VARIABLES
  issued,     \* token pairs are numbered as they are issued: 1..issued
  expired,    \* the access tokens of pairs 1..expired have expired
  spent,      \* the refresh tokens that are blacklisted or have expired
  mem,        \* _accessToken and _refreshToken: the tab's pair, 0 when there is none
  store,      \* hf_access and hf_refresh in localStorage
  session,    \* the Django session: "none", "good", or "lapsed" since its cookie expired
  bridge,     \* the pair in a token_bridge page on its way, 0 after a sign-out, or None
  call,       \* call[c]: how far call c is
  rotated,    \* history: the refresh tokens that were exchanged for a new pair
  excused,    \* history: since this tab signed in or out, something disturbed its tokens
  events      \* bounded events so far

client == <<issued, expired, spent, mem, store, session, bridge, rotated, excused, events>>

Phases == {"free", "sent", "served", "denied", "refreshing", "checked", "renewed",
           "norefresh", "error"}
Free == [phase |-> "free", op |-> None, pair |-> 0, retried |-> FALSE, answer |-> None]

ClientInit ==
  /\ issued = 0 /\ expired = 0 /\ spent = {}
  /\ mem = 0 /\ store = 0 /\ session = "none" /\ bridge = None
  /\ call = [c \in Calls |-> Free]
  /\ rotated = {} /\ excused = FALSE /\ events = 0

--------------------------------------------------------------------------------
Goto(c, p) == call' = [call EXCEPT ![c].phase = p]

\* _fetch is over for call c; only what it was about, and the answer, still matter.
Settle(c, p, answer) ==
  call' = [call EXCEPT ![c] = [Free EXCEPT !.phase = p, !.op = call[c].op, !.answer = answer]]

Event == events < MaxEvents /\ events' = events + 1

(* _fetch: the request leaves with the access token of this moment. *)
Send(c, op) ==
  /\ call[c].phase = "free"
  /\ call' = [call EXCEPT ![c] = [Free EXCEPT !.phase = "sent", !.op = op, !.pair = mem]]
  /\ UNCHANGED client

\* JWTAuthentication and IsAuthenticated.
Authentic(n) == n # 0 /\ n > expired

(* The server answers what call c asks for. *)
Serve(c, answer) ==
  /\ call[c].phase = "sent"
  /\ Authentic(call[c].pair)
  /\ Settle(c, "served", answer)
  /\ UNCHANGED client

(* The server answers 401. *)
Deny(c) ==
  /\ call[c].phase = "sent"
  /\ ~Authentic(call[c].pair)
  /\ Goto(c, "denied")
  /\ UNCHANGED client

MayRefresh(c) == mem # 0 /\ ~call[c].retried

\* Mutant: the refresh token of the moment the call was sent.
RefreshTokenAtSend(c) == call[c].pair

RefreshToken(c) == mem

Refreshing(c) == call[c].phase \in {"refreshing", "checked", "renewed", "norefresh"}

(* The 401 arrives: the refresh token of this moment is sent, or the caller gets an error. *)
Denied(c) ==
  /\ call[c].phase = "denied"
  /\ IF MayRefresh(c)
     THEN /\ call' = [call EXCEPT ![c].phase = "refreshing", ![c].pair = RefreshToken(c)]
          /\ excused' = (excused \/ \E d \in Calls \ {c} : Refreshing(d))
     ELSE Settle(c, "error", None) /\ UNCHANGED excused
  /\ UNCHANGED <<issued, expired, spent, mem, store, session, bridge, rotated, events>>

(* The throttle lets the request pass; TokenRefreshSerializer checks the token against the blacklist ... *)
CheckRefresh(c) ==
  /\ call[c].phase = "refreshing"
  /\ Goto(c, IF call[c].pair \notin spent THEN "checked" ELSE "norefresh")
  /\ UNCHANGED client

\* Mutant: BLACKLIST_AFTER_ROTATION is off.
BlacklistNothing(n) == {}

Blacklist(n) == {n}

(* ... and, in later queries, blacklists it and hands out a new pair. *)
Rotate(c) ==
  /\ call[c].phase = "checked"
  /\ spent' = spent \cup Blacklist(call[c].pair)
  /\ rotated' = rotated \cup {call[c].pair}
  /\ issued' = issued + 1
  /\ call' = [call EXCEPT ![c].phase = "renewed", ![c].pair = issued + 1]
  /\ UNCHANGED <<expired, mem, store, session, bridge, excused, events>>

(* setTokens, and the request is sent once more. *)
Renewed(c) ==
  /\ call[c].phase = "renewed"
  /\ mem' = call[c].pair
  /\ store' = call[c].pair
  /\ call' = [call EXCEPT ![c].phase = "sent", ![c].retried = TRUE]
  /\ UNCHANGED <<issued, expired, spent, session, bridge, rotated, excused, events>>

(* clearTokens, whatever pair is there by now; the caller gets the first 401. *)
ClearTokens(c) ==
  /\ call[c].phase = "norefresh"
  /\ mem' = 0
  /\ store' = 0
  /\ Settle(c, "error", None)
  /\ UNCHANGED <<issued, expired, spent, session, bridge, rotated, excused, events>>

(* The refresh endpoint refuses a good token: AnonRateThrottle counts all refreshes from
   one address (429), or Redis or PostgreSQL is down (500), in the second query after the
   token was blacklisted.  Any answer that is not ok counts for _refreshAccessToken. *)
RefuseRefresh(c) ==
  /\ Event
  /\ \/ call[c].phase = "refreshing" /\ UNCHANGED spent
     \/ call[c].phase = "checked" /\ spent' = spent \cup Blacklist(call[c].pair)
  /\ Goto(c, "norefresh")
  /\ excused' = TRUE
  /\ UNCHANGED <<issued, expired, mem, store, session, bridge, rotated>>

(* The network loses a request or its answer, or the answer is an error: fetch() rejects,
   or resp.ok is false.  _refreshAccessToken catches that, the callers of _fetch the rest. *)
Lose(c) ==
  /\ Event
  /\ \/ call[c].phase \in {"sent", "served", "denied"} /\ Settle(c, "error", None)
     \/ call[c].phase \in {"refreshing", "renewed"} /\ Goto(c, "norefresh")
  /\ excused' = TRUE
  /\ UNCHANGED <<issued, expired, spent, mem, store, session, bridge, rotated>>

(* ACCESS_TOKEN_LIFETIME passes, or REFRESH_TOKEN_LIFETIME. *)
Expire ==
  /\ expired < MaxExpired
  /\ issued > 0
  /\ expired' = issued
  /\ \/ UNCHANGED <<spent, excused>>
     \/ spent' = 1..issued /\ excused' = TRUE
  /\ UNCHANGED <<issued, mem, store, session, bridge, call, rotated, events>>

(* SESSION_COOKIE_AGE passes, which is longer than REFRESH_TOKEN_LIFETIME, but refresh
   tokens rotate. *)
SessionLapses ==
  /\ Event
  /\ session = "good"
  /\ session' = "lapsed"
  /\ UNCHANGED <<issued, expired, spent, mem, store, bridge, call, rotated, excused>>

(* Another tab: it refreshes with a pair it still remembers, its tokens are cleared, or it
   signs out. *)
OtherTab ==
  /\ Event
  /\ \/ \E n \in 1..issued \ (spent \cup {bridge}) :
          /\ spent' = spent \cup Blacklist(n)
          /\ rotated' = rotated \cup {n}
          /\ issued' = issued + 1
          /\ store' = issued + 1
          /\ UNCHANGED session
     \/ store' = 0 /\ session' \in {session, "none"} /\ UNCHANGED <<spent, rotated, issued>>
  /\ excused' = TRUE
  /\ UNCHANGED <<expired, mem, bridge, call>>

(* A page load: init() takes what localStorage holds; calls in flight are forgotten. *)
LoadPage ==
  /\ Event
  /\ bridge = None
  /\ mem' = store
  /\ call' = [c \in Calls |-> Free]
  /\ excused' = (excused \/ \E c \in Calls : Refreshing(c))
  /\ UNCHANGED <<issued, expired, spent, store, session, bridge, rotated>>

(* logout_view: the session ends, a bridge page without tokens is answered; no token is
   blacklisted, and the old page goes on until the answer is there. *)
Logout ==
  /\ Event
  /\ bridge = None
  /\ session' = "none"
  /\ bridge' = 0
  /\ excused' = FALSE
  /\ UNCHANGED <<issued, expired, spent, mem, store, call, rotated>>

\* login_page redirects who has a session.
MaySignIn == session # "good"

(* login_page, register_page: a session, and a new pair in the bridge page. *)
Login ==
  /\ MaySignIn
  /\ bridge = None
  /\ session' = "good"
  /\ issued' = issued + 1
  /\ bridge' = issued + 1
  /\ excused' = FALSE
  /\ UNCHANGED <<expired, spent, mem, store, call, rotated, events>>

\* Mutant: without the else of the script, a sign-out leaves localStorage as it is.
StoredIfAny(n) == IF n = 0 THEN store ELSE n

\* What the script of the bridge page leaves in localStorage.
Stored(n) == n

(* The bridge page arrives: its script writes localStorage and goes on to a page, whose
   init() takes what was written. *)
Bridge ==
  /\ bridge # None
  /\ store' = Stored(bridge)
  /\ mem' = store'
  /\ bridge' = None
  /\ call' = [c \in Calls |-> Free]
  /\ UNCHANGED <<issued, expired, spent, session, rotated, excused, events>>

(* The answer is lost, or the user goes elsewhere first: the session has changed, the
   tokens have not. *)
BridgeLost ==
  /\ Event
  /\ bridge # None
  /\ bridge' = None
  /\ excused' = TRUE
  /\ UNCHANGED <<issued, expired, spent, mem, store, session, call, rotated>>

\* What is neither the page's doing nor the server's answer to a call.
ClientStep(c) ==
  Deny(c) \/ Denied(c) \/ CheckRefresh(c) \/ Rotate(c) \/ Renewed(c) \/ ClearTokens(c)

\* What may fail of it.
Mishap(c) == Lose(c) \/ RefuseRefresh(c)

PageChange == LoadPage \/ Bridge

\* What the page in the tab takes no part in.
Elsewhere == Expire \/ SessionLapses \/ OtherTab \/ Logout \/ Login \/ BridgeLost

--------------------------------------------------------------------------------
(* api.js wipes the tokens on any failure of a refresh.  Nothing else makes that happen
   than what the tab cannot help: its refreshes overlapped, the refresh token lapsed, the
   server refused a good one (429, 500), a message was lost, a page was left in the middle
   of a refresh, a bridge page never came, or another tab touched the tokens.  The tokens
   that a bridge page is about to replace do not count. *)
WipedForACause ==
  [][\A c \in Calls :
       call[c].phase = "norefresh" /\ call'[c].phase = "error" /\ bridge = None
         => excused]_<<client, call>>

(* Refresh tokens rotate: one that was exchanged is refused, unless it had been checked
   before it was exchanged. *)
RotatedTokensRefused ==
  [][\A c \in Calls : call[c].phase = "refreshing" /\ call'[c].phase = "checked"
                        => call[c].pair \notin rotated]_<<client, call>>

(* Session and tokens change in two steps, on the server and in the browser, and the old
   page may refresh its tokens between them.  Yet who is signed in has tokens, which
   login_page would not give him again, and who has signed out has none, unless one of
   the mishaps above came between.  A session that lapses leaves its tokens behind. *)
TokensFollowSession ==
  bridge = None /\ ~excused =>
    /\ session = "good" => mem # 0
    /\ session = "none" => mem = 0 /\ store = 0
================================================================================
