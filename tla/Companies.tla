-------------------------------- MODULE Companies --------------------------------
(***************************************************************************)
(* The companies API and its review in the admin site: the verification of *)
(* one company (companies share no rows) and its membership table.  Every  *)
(* handler loads the company, then asks for the membership of its user,    *)
(* then goes on; each query is a step.  verify_domain, resend and submit   *)
(* save a few columns, PUT and PATCH save all those of the copy they       *)
(* loaded.                                                                 *)
(***************************************************************************)
EXTENDS Naturals

CONSTANTS
  Workers,      \* gunicorn worker processes
  Users,        \* recruiters
  Profiles,     \* what PUT and PATCH may write: name, website, ...
  None,         \* no row, no user, no time
  Cooldown,     \* COMPANY_DOMAIN_RESEND_COOLDOWN_MINUTES
  Expiry,       \* COMPANY_DOMAIN_TOKEN_EXPIRY_HOURS, in the same unit
  LastTick,     \* bound: times are 0..LastTick
  MaxRequests   \* bound: requests accepted after the creation

VerificationStatus == {"unverified", "pending", "verified", "rejected"}
Times == 0..LastTick \cup {None}

\* Tokens are numbered as they are generated; 0 is the empty string.
Company == [profile : Profiles, domain_verified : BOOLEAN, token : Nat,
            generated_at : Times, status : VerificationStatus]
CompanyMember == [id : Nat, user : Users, role : {"owner", "recruiter"}]

ASSUME CompaniesAssumption ==
  /\ LastTick \in Nat /\ Cooldown \in Nat /\ Expiry \in Nat /\ MaxRequests \in Nat
  /\ None \notin Company /\ None \notin Users /\ None \notin Nat

VARIABLES
  now,        \* the time
  row,        \* the committed row of the company, or None
  members,    \* the rows of the membership table
  users,      \* the users whose account exists
  tokens,     \* how many tokens have been generated
  ids,        \* how many memberships have been created
  pc,         \* pc[w]: how far worker w is with its request, or how it answered
  kind,       \* kind[w]: the handler
  user,       \* user[w]: request.user
  arg,        \* arg[w]: the token, the invited user or the membership it names
  copy,       \* copy[w]: the row it loaded last
  lost,       \* history: columns that an edit wrote back from an older copy of the company
  forsaken,   \* history: the owner's account is gone, or a full save brought the row back
  accepted    \* requests accepted since the creation

tables == <<row, members, users, tokens, ids>>
local == <<kind, user, arg, copy>>
vars == <<now, row, members, users, tokens, ids, pc, kind, user, arg, copy,
          lost, forsaken, accepted>>

\* How a request ends: 2xx, 400 or 403, 404, 500.
Answered == {"idle", "done", "refused", "missing", "failed"}
InFlight == {"found", "member", "ready"}
MemberViewKinds == {"invite", "remove"}
OwnerKinds == {"edit", "delete", "submit"} \cup MemberViewKinds
Kinds == {"none", "create", "verify", "resend"} \cup OwnerKinds

\* A new company, token t generated now.
NewCompany(p, t) ==
  [profile |-> p, domain_verified |-> FALSE, token |-> t, generated_at |-> now,
   status |-> "unverified"]

\* Mutant: the new column has no default.
MigratedNull(p, is_verified) ==
  [profile |-> p, domain_verified |-> is_verified, token |-> None, generated_at |-> None,
   status |-> IF is_verified THEN "verified" ELSE "unverified"]

\* A company that is older than the two-tier verification, as the migration leaves it.
Migrated(p, is_verified) ==
  [profile |-> p, domain_verified |-> is_verified, token |-> 0, generated_at |-> None,
   status |-> IF is_verified THEN "verified" ELSE "unverified"]

Init ==
  /\ now = 0
  /\ \/ row = None /\ members = {} /\ ids = 0
     \/ /\ \E p \in Profiles, v \in BOOLEAN : row = Migrated(p, v)
        /\ \E u \in Users : members = {[id |-> 1, user |-> u, role |-> "owner"]}
        /\ ids = 1
  /\ users = Users
  /\ tokens = 0
  /\ pc = [w \in Workers |-> "idle"]
  /\ kind = [w \in Workers |-> "none"]
  /\ user = [w \in Workers |-> None]
  /\ arg = [w \in Workers |-> None]
  /\ copy = [w \in Workers |-> None]
  /\ lost = {}
  /\ forsaken = FALSE
  /\ accepted = 0

--------------------------------------------------------------------------------
\* A free worker takes a request of kind k by u about a, loads c, gets as far as p.
Begin(w, k, u, a, c, p) ==
  /\ pc[w] \in Answered
  /\ u \in users
  /\ kind' = [kind EXCEPT ![w] = k]
  /\ user' = [user EXCEPT ![w] = u]
  /\ arg' = [arg EXCEPT ![w] = a]
  /\ copy' = [copy EXCEPT ![w] = c]
  /\ pc' = [pc EXCEPT ![w] = p]

Goto(w, p) == pc' = [pc EXCEPT ![w] = p]

(* POST /api/companies/: the company and its owner, in one transaction. *)
Create(w, u, p) ==
  /\ ids = 0
  /\ Begin(w, "create", u, None, None, "done")
  /\ row' = NewCompany(p, tokens + 1)
  /\ members' = {[id |-> 1, user |-> u, role |-> "owner"]}
  /\ tokens' = tokens + 1
  /\ ids' = 1
  /\ UNCHANGED <<now, users, lost, forsaken, accepted>>

\* What a client may name: a token it was told, a recruiter, a membership.
ArgsOf(k) ==
  CASE k = "verify" -> 0..tokens
    [] k = "invite" -> Users
    [] k = "remove" -> 1..ids
    [] OTHER -> {None}

(* Every other handler loads the company.  MemberView does it with objects.get(), whose
   DoesNotExist nobody turns into a 404. *)
Load(w, k, u) ==
  /\ ids > 0
  /\ accepted < MaxRequests
  /\ accepted' = accepted + 1
  /\ \E a \in ArgsOf(k) :
       Begin(w, k, u, a, row, IF row # None THEN "found"
                              ELSE IF k \in MemberViewKinds THEN "failed" ELSE "missing")
  /\ UNCHANGED <<now, tables, lost, forsaken>>

MayAct(w) ==
  \E m \in members : m.user = user[w] /\ (kind[w] \in OwnerKinds => m.role = "owner")

CheckMembership(w) ==
  /\ pc[w] = "found"
  /\ Goto(w, IF MayAct(w) THEN "member" ELSE "refused")
  /\ UNCHANGED <<now, tables, local, lost, forsaken, accepted>>

\* The part of a save that all handlers share: refuse, fail on a row that is gone, or write r.
Save(w, allowed, r) ==
  /\ IF ~allowed THEN Goto(w, "refused") /\ UNCHANGED row
     ELSE IF row = None THEN Goto(w, "failed") /\ UNCHANGED row
     ELSE Goto(w, "done") /\ row' = r
  /\ UNCHANGED <<now, members, users, ids, local, forsaken, accepted>>

is_domain_token_expired(c) == c.generated_at = None \/ now > c.generated_at + Expiry

\* Mutant: the cooldown is over one tick early.
OnCooldownShort(c) == c.generated_at # None /\ now + 1 < c.generated_at + Cooldown

is_resend_on_cooldown(c) == c.generated_at # None /\ now < c.generated_at + Cooldown

\* Mutant: any token that was ever generated is as good as the last.
TokenMatchesAny(w) == arg[w] # 0

TokenMatches(w) == arg[w] # 0 /\ arg[w] = copy[w].token

(* POST verify-domain/ *)
VerifyDomain(w) ==
  /\ pc[w] = "member"
  /\ kind[w] = "verify"
  /\ Save(w, TokenMatches(w) /\ ~is_domain_token_expired(copy[w]),
          [row EXCEPT !.domain_verified = TRUE])
  /\ UNCHANGED <<tokens, lost>>

(* POST resend-domain-verification/ *)
ResendToken(w) ==
  /\ pc[w] = "member"
  /\ kind[w] = "resend"
  /\ LET allowed == ~copy[w].domain_verified /\ ~is_resend_on_cooldown(copy[w]) IN
       /\ Save(w, allowed, [row EXCEPT !.token = tokens + 1, !.generated_at = now])
       /\ tokens' = IF allowed THEN tokens + 1 ELSE tokens
  /\ UNCHANGED lost

\* Mutant: the second tier does not wait for the first.
MaySubmitAnyDomain(c) == c.status \notin {"verified", "pending"}

MaySubmit(c) == c.domain_verified /\ c.status \notin {"verified", "pending"}

(* POST submit-verification/ *)
Submit(w) ==
  /\ pc[w] = "member"
  /\ kind[w] = "submit"
  /\ Save(w, MaySubmit(copy[w]), [row EXCEPT !.status = "pending"])
  /\ UNCHANGED <<tokens, lost>>

(* PUT, PATCH and DELETE: the generic handler loads the company once more. *)
LoadAgain(w) ==
  /\ pc[w] = "member"
  /\ kind[w] \in {"edit", "delete"}
  /\ Goto(w, IF row = None THEN "missing" ELSE "ready")
  /\ copy' = [copy EXCEPT ![w] = row]
  /\ UNCHANGED <<now, tables, kind, user, arg, lost, forsaken, accepted>>

TwoTierColumns == {"domain_verified", "token", "status"}

(* serializer.save(): every column; a row that is gone is inserted again. *)
SaveEverything(w) ==
  /\ pc[w] = "ready"
  /\ kind[w] = "edit"
  /\ \E p \in Profiles : row' = [copy[w] EXCEPT !.profile = p]
  /\ lost' = lost \cup {c \in TwoTierColumns : row = None \/ row[c] # copy[w][c]}
  /\ forsaken' = (forsaken \/ row = None)
  /\ Goto(w, "done")
  /\ UNCHANGED <<now, members, users, tokens, ids, local, accepted>>

(* The company and, in the same transaction, its members. *)
DeleteCompany(w) ==
  /\ pc[w] = "ready"
  /\ kind[w] = "delete"
  /\ row' = None
  /\ members' = {}
  /\ Goto(w, "done")
  /\ UNCHANGED <<now, users, tokens, ids, local, lost, forsaken, accepted>>

(* A member, or a job, that was inserted after those to delete were collected: the foreign
   key makes the commit fail. *)
DeletionFails(w) ==
  /\ pc[w] = "ready"
  /\ kind[w] = "delete"
  /\ row # None
  /\ Goto(w, "failed")
  /\ UNCHANGED <<now, tables, local, lost, forsaken, accepted>>

(* POST members/: the invited user exists and is no member yet. *)
ValidateInvitation(w) ==
  /\ pc[w] = "member"
  /\ kind[w] = "invite"
  /\ Goto(w, IF arg[w] \in users /\ \A m \in members : m.user # arg[w]
             THEN "ready" ELSE "refused")
  /\ UNCHANGED <<now, tables, local, lost, forsaken, accepted>>

\* Mutant: the table has no unique_together.
MayInsertTwice(u) == row # None /\ u \in users

\* The constraints of the table: two foreign keys and unique_together.
MayInsert(u) == row # None /\ u \in users /\ \A m \in members : m.user # u

InsertMember(w) ==
  /\ pc[w] = "ready"
  /\ kind[w] = "invite"
  /\ IF MayInsert(arg[w])
     THEN /\ members' = members \cup {[id |-> ids + 1, user |-> arg[w], role |-> "recruiter"]}
          /\ ids' = ids + 1
          /\ Goto(w, "done")
     ELSE Goto(w, "failed") /\ UNCHANGED <<members, ids>>
  /\ UNCHANGED <<now, row, users, tokens, local, lost, forsaken, accepted>>

\* Mutant: anybody can be removed.
RemovableAnyone(m) == TRUE

Removable(m) == m.role # "owner"

(* DELETE members/{id}/: get the membership, then delete it by its id. *)
FindMembership(w) ==
  /\ pc[w] = "member"
  /\ kind[w] = "remove"
  /\ LET named == {m \in members : m.id = arg[w]} IN
       Goto(w, IF named = {} THEN "missing"
               ELSE IF \A m \in named : Removable(m) THEN "ready" ELSE "refused")
  /\ UNCHANGED <<now, tables, local, lost, forsaken, accepted>>

DeleteMembership(w) ==
  /\ pc[w] = "ready"
  /\ kind[w] = "remove"
  /\ members' = {m \in members : m.id # arg[w]}
  /\ Goto(w, "done")
  /\ UNCHANGED <<now, row, users, tokens, ids, local, lost, forsaken, accepted>>

--------------------------------------------------------------------------------
\* Mutant: the UPDATE is not filtered.
ReviewableAny(r) == r # None

Reviewable(r) == r # None /\ r.status = "pending"

(* approve_verification, reject_verification: one UPDATE of the pending companies. *)
Review(decision) ==
  /\ Reviewable(row)
  /\ row' = [row EXCEPT !.status = decision]
  /\ UNCHANGED <<now, members, users, tokens, ids, pc, local, lost, forsaken, accepted>>

(* Staff delete an account; its memberships go with it. *)
DeleteUser(u) ==
  /\ u \in users
  /\ users' = users \ {u}
  /\ members' = {m \in members : m.user # u}
  /\ forsaken' = (forsaken \/ \E m \in members : m.user = u /\ m.role = "owner")
  /\ UNCHANGED <<now, row, tokens, ids, pc, local, lost, accepted>>

Tick ==
  /\ now < LastTick
  /\ now' = now + 1
  /\ UNCHANGED <<tables, pc, local, lost, forsaken, accepted>>

(* gunicorn kills the worker. *)
Crash(w) ==
  /\ pc[w] \in InFlight
  /\ Goto(w, "idle")
  /\ UNCHANGED <<now, tables, local, lost, forsaken, accepted>>

Accept(w) ==
  \E u \in Users :
    \/ \E p \in Profiles : Create(w, u, p)
    \/ \E k \in Kinds \ {"none", "create"} : Load(w, k, u)

Proceed(w) ==
  \/ CheckMembership(w)
  \/ VerifyDomain(w)
  \/ ResendToken(w)
  \/ Submit(w)
  \/ LoadAgain(w)
  \/ SaveEverything(w)
  \/ DeleteCompany(w)
  \/ DeletionFails(w)
  \/ ValidateInvitation(w)
  \/ InsertMember(w)
  \/ FindMembership(w)
  \/ DeleteMembership(w)

Next ==
  \/ Tick
  \/ \E d \in {"verified", "rejected"} : Review(d)
  \/ \E u \in Users : DeleteUser(u)
  \/ \E w \in Workers : Accept(w) \/ Proceed(w) \/ Crash(w)

Spec == Init /\ [][Next]_vars

--------------------------------------------------------------------------------
TypeOK ==
  /\ now \in 0..LastTick
  /\ row \in Company \cup {None}
  /\ members \subseteq CompanyMember
  /\ users \subseteq Users
  /\ tokens \in Nat
  /\ ids \in Nat
  /\ pc \in [Workers -> Answered \cup InFlight]
  /\ kind \in [Workers -> Kinds]
  /\ user \in [Workers -> Users \cup {None}]
  /\ arg \in [Workers -> Nat \cup Users \cup {None}]
  /\ copy \in [Workers -> Company \cup {None}]
  /\ lost \subseteq TwoTierColumns
  /\ forsaken \in BOOLEAN
  /\ accepted \in Nat

(* The membership table is sound however invitations, removals and deletions overlap: a
   user is a member once, and only of a company, and with an account, that exist. *)
MembersExact ==
  /\ members # {} => row # None
  /\ \A m, n \in members : m.user = n.user => m = n
  /\ \A m \in members : m.user \in users

(* A company has one owner, whoever else comes and goes, until the owner's account is
   deleted or a full save brings the deleted company back; then it has none for good. *)
OwnerKept ==
  row # None =>
    \/ forsaken /\ \A m \in members : m.role # "owner"
    \/ ~forsaken /\ \E o \in members : \A m \in members : m.role = "owner" <=> m = o

(* The tiers come in order: a company that was ever submitted has a verified domain,
   unless an edit that had loaded the company earlier took the verification back. *)
TwoTier ==
  row # None /\ row.status # "unverified"
    => row.domain_verified \/ "domain_verified" \in lost

\* Worker w writes column c over a value it has not seen.
WritesOver(w, c) == pc[w] \in InFlight /\ pc'[w] = "done" /\ copy[w][c] # row[c]

ReviewMoves == {<<"unverified", "pending">>, <<"rejected", "pending">>,
                <<"pending", "verified">>, <<"pending", "rejected">>}

(* A decision stands: a status moves only along the review process, unless a submission
   or an edit writes over a status that has changed since it loaded the company. *)
DecisionsStand ==
  [][row # None /\ row' # None /\ row'.status # row.status
       => \/ <<row.status, row'.status>> \in ReviewMoves
          \/ \E w \in Workers : kind[w] \in {"submit", "edit"} /\ WritesOver(w, "status")]_vars

(* A token is not replaced within the cooldown, unless by a request that had loaded the
   company before that token was there: two resends that overlap, or an edit. *)
TokensPaced ==
  [][row # None /\ row' # None /\ row'.token # row.token
       => \/ row.generated_at = None
          \/ now >= row.generated_at + Cooldown
          \/ \E w \in Workers : kind[w] \in {"resend", "edit"} /\ WritesOver(w, "token")]_vars

(* A replaced token is void: the domain is verified by the last token generated, unless
   a resend overlaps with the verification or an edit has written an old token back. *)
ReplacedTokensVoid ==
  [][row # None /\ row' # None /\ ~row.domain_verified /\ row'.domain_verified
       => \/ "token" \in lost
          \/ \E w \in Workers :
               \/ kind[w] = "verify" /\ pc[w] = "member" /\ arg[w] = tokens
               \/ WritesOver(w, "token")
               \/ kind[w] = "edit" /\ WritesOver(w, "domain_verified")]_vars
================================================================================
