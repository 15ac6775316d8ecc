-------------------------------- MODULE Accounts ---------------------------------
(***************************************************************************)
(* The table of accounts: registration through the API and through the     *)
(* page, the verification mail that a post_save signal sends before the    *)
(* request is answered, the link of that mail, and the requests that       *)
(* change one's own account.  There is no transaction around a request:    *)
(* each query, and the mail, is a step.                                    *)
(***************************************************************************)
EXTENDS Naturals

CONSTANTS
  Workers,      \* gunicorn worker processes
  Ids,          \* primary keys
  Emails,       \* addresses
  FreeEmails,   \* those of a free provider
  Values,       \* what a username, an avatar or a password may be
  None,         \* no row, no argument
  MaxAge,       \* max_age_seconds of a verification token
  LastTick,     \* bound: times are 0..LastTick
  MaxRequests   \* bound: requests accepted in one behaviour

\* The username stands for the columns that PATCH me/ saves, and is the one of them that is
\* unique.  The role matters to the registration only, and is an argument of it.
User == [email : Emails, username : Values, avatar : Values \cup {None}, password : Values,
         is_email_verified : BOOLEAN]
Token == [id : Ids, email : Emails, at : 0..LastTick]

ASSUME AccountsAssumption ==
  /\ LastTick \in Nat /\ MaxAge \in Nat /\ MaxRequests \in Nat
  /\ FreeEmails \subseteq Emails
  /\ None \notin User /\ None \notin Ids

VARIABLES
  now,        \* the time
  row,        \* row[i]: the committed row of account i, or None
  born,       \* the accounts that have been created
  mailed,     \* the tokens that were mailed
  pc,         \* pc[w]: how far worker w is with its request, or how it answered
  kind,       \* kind[w]: the handler
  pk,         \* pk[w]: the account it is about
  obj,        \* obj[w]: the model instance in the worker's memory
  last,       \* history: last[i]: account i with each column as it was saved last
  accepted    \* requests accepted so far

local == <<kind, pk, obj>>
vars == <<now, row, born, mailed, pc, kind, pk, obj, last, accepted>>

\* How a request ends: 2xx, 400 or 401, 404, 500.
Answered == {"idle", "done", "refused", "missing", "failed"}
InFlight == {"valid", "inserted", "mailed", "loaded"}
Registrations == {"RegisterView", "register_page"}

\* The columns that the other handlers save.
ColumnOf == [CurrentUserView |-> "username", AvatarUploadView |-> "avatar",
             ChangePasswordView |-> "password", VerifyEmailView |-> "is_email_verified"]
OwnViews == DOMAIN ColumnOf \ {"VerifyEmailView"}

Init ==
  /\ now = 0
  /\ row = [i \in Ids |-> None]
  /\ born = {}
  /\ mailed = {}
  /\ pc = [w \in Workers |-> "idle"]
  /\ kind = [w \in Workers |-> "none"]
  /\ pk = [w \in Workers |-> None]
  /\ obj = [w \in Workers |-> None]
  /\ last = [i \in Ids |-> None]
  /\ accepted = 0

--------------------------------------------------------------------------------
\* A free worker takes a request of kind k about i, has o in memory, gets as far as p.
Begin(w, k, i, o, p) ==
  /\ pc[w] \in Answered
  /\ accepted < MaxRequests
  /\ accepted' = accepted + 1
  /\ kind' = [kind EXCEPT ![w] = k]
  /\ pk' = [pk EXCEPT ![w] = i]
  /\ obj' = [obj EXCEPT ![w] = o]
  /\ pc' = [pc EXCEPT ![w] = p]
  /\ UNCHANGED <<now, row, born, mailed, last>>

Goto(w, p) == pc' = [pc EXCEPT ![w] = p]

Owners(e) == {i \in Ids : row[i] # None /\ row[i].email = e}

\* The other accounts with the address or the username of u, which becomes account i.
Rivals(i, u) ==
  {j \in Ids \ {i} : row[j] # None /\ (row[j].email = u.email \/ row[j].username = u.username)}

\* Mutant: the constraints leave out the accounts that are not verified.
TakenIfVerified(i, u) == \E j \in Rivals(i, u) : row[j].is_email_verified

\* The constraints of the table.
Taken(i, u) == Rivals(i, u) # {}

is_free_email(e) == e \in FreeEmails

\* The queries before a registration, and the rule about recruiters; the page looks for the
\* address only, and lets everybody in.
Valid(k, i, u, role) ==
  /\ Owners(u.email) = {}
  /\ k = "RegisterView" => /\ Rivals(i, u) = {}
                           /\ role = "recruiter" => ~is_free_email(u.email)

(* POST /api/auth/register/ and /register/ *)
Register(w, k, i, u, role) ==
  /\ i \notin born
  /\ \A v \in Workers : pc[v] = "valid" => pk[v] # i
  /\ ~u.is_email_verified /\ u.avatar = None
  /\ Begin(w, k, i, u, IF Valid(k, i, u, role) THEN "valid" ELSE "refused")

(* user.save(): the INSERT, which a constraint may refuse. *)
InsertUser(w) ==
  /\ pc[w] = "valid"
  /\ IF Taken(pk[w], obj[w])
     THEN Goto(w, "failed") /\ UNCHANGED <<row, born, last>>
     ELSE /\ row' = [row EXCEPT ![pk[w]] = obj[w]]
          /\ last' = [last EXCEPT ![pk[w]] = obj[w]]
          /\ born' = born \cup {pk[w]}
          /\ Goto(w, "inserted")
  /\ UNCHANGED <<now, mailed, local, accepted>>

\* Mutant: fail_silently.
AfterFailedMailSilent == "done"

AfterFailedMail == "failed"

LinkFor(w) == [id |-> pk[w], email |-> obj[w].email, at |-> now]

(* send_verification_email_on_register: the INSERT is committed, whatever becomes of the
   mail.  send_mail may raise before or after the SMTP server has accepted it. *)
SendVerificationMail(w) ==
  /\ pc[w] = "inserted"
  /\ \/ /\ mailed' = mailed \cup {LinkFor(w)}
        /\ Goto(w, IF kind[w] = "register_page" THEN "mailed" ELSE "done")
     \/ /\ mailed' \in {mailed, mailed \cup {LinkFor(w)}}
        /\ Goto(w, AfterFailedMail)
  /\ UNCHANGED <<now, row, born, local, last, accepted>>

(* The page signs the new user in: login() saves last_login, if the account is still there. *)
SignIn(w) ==
  /\ pc[w] = "mailed"
  /\ Goto(w, IF row[pk[w]] = None THEN "failed" ELSE "done")
  /\ UNCHANGED <<now, row, born, mailed, local, last, accepted>>

\* Mutant: the token names the address.
NamedByAddress(t) == IF Owners(t.email) = {} THEN t.id ELSE CHOOSE i \in Owners(t.email) : TRUE

\* verify_email_token: the token names the account.
NamedBy(t) == t.id

SignatureExpired(t) == now > t.at + MaxAge

(* POST /api/auth/verify-email/ loads the account. *)
VerifyEmail(w, t) ==
  LET i == NamedBy(t) IN
    Begin(w, "VerifyEmailView", i,
          IF row[i] = None THEN None ELSE [row[i] EXCEPT !.is_email_verified = TRUE],
          IF SignatureExpired(t) THEN "refused"
          ELSE IF row[i] = None THEN "missing" ELSE "loaded")

\* A change of username is compared with the table, one of the password with the old one.
MayChange(k, i, u, old) ==
  /\ k = "CurrentUserView" => Rivals(i, u) = {}
  /\ k = "ChangePasswordView" => row[i].password = old

(* PATCH /api/auth/me/, POST change-password/ and avatar/: authentication loads the account. *)
ChangeOwn(w, k, i, v, old) ==
  /\ i \in born
  /\ IF row[i] = None
     THEN Begin(w, k, i, None, "refused")
     ELSE LET u == [row[i] EXCEPT ![ColumnOf[k]] = v] IN
            Begin(w, k, i, u, IF MayChange(k, i, u, old) THEN "loaded" ELSE "refused")

\* Mutant: save() without update_fields.
SavedWhole(w, r) == obj[w]

\* Mutant: a field that was not sent is saved as null.
SavedNull(w, r) == [r EXCEPT ![ColumnOf[kind[w]]] = None]

\* save(update_fields=[the column of the handler, "updated_at"]).
Saved(w, r) == [r EXCEPT ![ColumnOf[kind[w]]] = obj[w][ColumnOf[kind[w]]]]

SaveColumn(w) ==
  /\ pc[w] = "loaded"
  /\ IF row[pk[w]] = None \/ Taken(pk[w], Saved(w, row[pk[w]]))
     THEN Goto(w, "failed") /\ UNCHANGED <<row, last>>
     ELSE /\ row' = [row EXCEPT ![pk[w]] = Saved(w, @)]
          /\ last' = [last EXCEPT ![pk[w]][ColumnOf[kind[w]]] = obj[w][ColumnOf[kind[w]]]]
          /\ Goto(w, "done")
  /\ UNCHANGED <<now, born, mailed, local, accepted>>

(* Staff delete an account. *)
DeleteUser(i) ==
  /\ row[i] # None
  /\ row' = [row EXCEPT ![i] = None]
  /\ UNCHANGED <<now, born, mailed, pc, local, last, accepted>>

Tick ==
  /\ now < LastTick
  /\ now' = now + 1
  /\ UNCHANGED <<row, born, mailed, pc, local, last, accepted>>

(* gunicorn kills the worker. *)
Crash(w) ==
  /\ pc[w] \in InFlight
  /\ Goto(w, "idle")
  /\ UNCHANGED <<now, row, born, mailed, local, last, accepted>>

Accept(w) ==
  \/ \E k \in Registrations, i \in Ids, u \in User, role \in {"candidate", "recruiter", "admin"} :
       Register(w, k, i, u, role)
  \/ \E t \in mailed : VerifyEmail(w, t)
  \/ \E k \in OwnViews, i \in Ids, v, old \in Values : ChangeOwn(w, k, i, v, old)

Proceed(w) == InsertUser(w) \/ SendVerificationMail(w) \/ SignIn(w) \/ SaveColumn(w)

Next ==
  \/ Tick
  \/ \E i \in Ids : DeleteUser(i)
  \/ \E w \in Workers : Accept(w) \/ Proceed(w) \/ Crash(w)

Spec == Init /\ [][Next]_vars

--------------------------------------------------------------------------------
TypeOK ==
  /\ now \in 0..LastTick
  /\ row \in [Ids -> User \cup {None}]
  /\ born \subseteq Ids
  /\ mailed \subseteq Token
  /\ pc \in [Workers -> Answered \cup InFlight]
  /\ kind \in [Workers -> {"none"} \cup Registrations \cup DOMAIN ColumnOf]
  /\ pk \in [Workers -> Ids \cup {None}]
  /\ obj \in [Workers -> User \cup {None}]
  /\ last \in [Ids -> User \cup {None}]
  /\ accepted \in Nat

(* However registrations and changes of username overlap, through the API and the page, an
   address has one account, and so has a username. *)
OneAccountPerAddress == \A i \in Ids : row[i] # None => Rivals(i, row[i]) = {}

(* Requests about one account that overlap lose nothing of each other's: a profile, an
   avatar, a password and a verification are what was saved last, whatever was loaded. *)
ColumnsKept == \A i \in Ids : row[i] # None => row[i] = last[i]

(* An account is verified by a link that was mailed for it, and never by the link of another
   account that had the address before.  A mail that the SMTP server accepted counts, even
   if the registration was then answered with an error. *)
VerifiedByItsMail ==
  \A i \in Ids : row[i] # None /\ row[i].is_email_verified => \E t \in mailed : t.id = i

(* A registration that is answered with success has mailed its link; one that ends in an
   error of the server leaves the address or the username taken, by another account or
   by its own, or staff have deleted the account already. *)
AnswersOfRegistrations ==
  [][\A w \in Workers :
       pc'[w] # pc[w] /\ kind'[w] \in Registrations =>
         /\ pc'[w] = "done" => \E t \in mailed' : t.id = pk'[w]
         /\ pc'[w] = "failed" => \/ Rivals(pk[w], obj[w]) # {}
                                 \/ row'[pk'[w]] # None /\ row'[pk'[w]].email = obj'[w].email
                                 \/ row'[pk'[w]] = None /\ pk'[w] \in born']_vars
================================================================================
