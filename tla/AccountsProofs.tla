----------------------------- MODULE AccountsProofs ------------------------------
(***************************************************************************)
(* Proofs about Accounts, for any number of workers, accounts, addresses,  *)
(* values, times and requests.                                             *)
(***************************************************************************)
EXTENDS Accounts, TLAPS

Columns == {"username", "avatar", "password", "is_email_verified"}

\* What a worker has in hand at each point of its request.
RequestOK(w) ==
  /\ pc[w] \in {"valid", "inserted", "mailed"} =>
       kind[w] \in Registrations /\ pk[w] \in Ids /\ obj[w] \in User /\ ~obj[w].is_email_verified
  /\ pc[w] = "valid" => pk[w] \notin born
  /\ pc[w] \in {"inserted", "mailed"} =>
       pk[w] \in born /\ (row[pk[w]] # None => row[pk[w]].email = obj[w].email)
  /\ pc[w] = "mailed" => \E t \in mailed : t.id = pk[w]
  /\ pc[w] = "loaded" =>
       /\ kind[w] \in DOMAIN ColumnOf /\ pk[w] \in Ids /\ obj[w] \in User
       /\ kind[w] = "VerifyEmailView" => \E t \in mailed : t.id = pk[w]

\* Two registrations that may insert have different keys.
KeysDiffer ==
  \A v, w \in Workers : pc[v] = "valid" /\ pc[w] = "valid" /\ pk[v] = pk[w] => v = w

Requests == (\A w \in Workers : RequestOK(w)) /\ KeysDiffer

Unborn == \A i \in Ids \ born : row[i] = None

IInv == /\ TypeOK /\ Requests /\ Unborn
        /\ OneAccountPerAddress /\ ColumnsKept /\ VerifiedByItsMail

--------------------------------------------------------------------------------
(* The columns. *)

LEMMA ColumnsOf ==
  /\ DOMAIN ColumnOf = {"CurrentUserView", "AvatarUploadView", "ChangePasswordView", "VerifyEmailView"}
  /\ \A k \in DOMAIN ColumnOf : ColumnOf[k] \in Columns
  /\ \A k \in DOMAIN ColumnOf : ColumnOf[k] = "is_email_verified" => k = "VerifyEmailView"
  /\ \A k \in OwnViews : k # "VerifyEmailView" /\ k \in DOMAIN ColumnOf
  /\ "VerifyEmailView" \in DOMAIN ColumnOf
  /\ \A k \in DOMAIN ColumnOf : k \notin Registrations
BY DEF ColumnOf, Columns, OwnViews, Registrations

\* One column of an account is replaced.
LEMMA ColumnReplaced ==
  ASSUME NEW r \in User, NEW c \in Columns, NEW v, [r EXCEPT ![c] = v] \in User
  PROVE  /\ [r EXCEPT ![c] = v].email = r.email
         /\ c # "is_email_verified" =>
              [r EXCEPT ![c] = v].is_email_verified = r.is_email_verified
BY DEF Columns, User

LEMMA ColumnSaved ==
  ASSUME NEW r \in User, NEW o \in User, NEW c \in Columns
  PROVE  [r EXCEPT ![c] = o[c]] \in User
<1>1. CASE c = "username"
  BY <1>1 DEF User
<1>2. CASE c = "avatar"
  BY <1>2 DEF User
<1>3. CASE c = "password"
  BY <1>3 DEF User
<1>4. CASE c = "is_email_verified"
  BY <1>4 DEF User
<1> QED BY <1>1, <1>2, <1>3, <1>4 DEF Columns

--------------------------------------------------------------------------------
(* The invariant. *)

\* A request that starts.
LEMMA BeginKeeps ==
  ASSUME IInv, NEW w \in Workers, NEW k \in Registrations \cup DOMAIN ColumnOf, NEW i \in Ids,
         NEW o \in User \cup {None}, NEW p \in {"valid", "loaded", "refused", "missing"},
         Begin(w, k, i, o, p),
         p = "valid" => /\ k \in Registrations /\ o \in User /\ ~o.is_email_verified
                        /\ i \notin born /\ \A v \in Workers : pc[v] = "valid" => pk[v] # i,
         p = "loaded" => /\ k \in DOMAIN ColumnOf /\ o \in User
                         /\ k = "VerifyEmailView" => \E t \in mailed : t.id = i
  PROVE  IInv'
<1>t. TypeOK /\ p \in Answered \cup InFlight
  BY DEF IInv, Answered, InFlight
<1>1. /\ pc' = [pc EXCEPT ![w] = p] /\ kind' = [kind EXCEPT ![w] = k]
      /\ pk' = [pk EXCEPT ![w] = i] /\ obj' = [obj EXCEPT ![w] = o]
      /\ accepted' = accepted + 1 /\ UNCHANGED <<now, row, born, mailed, last>>
  BY DEF Begin
<1>2. TypeOK'
  BY <1>1, <1>t DEF TypeOK
<1>3. ASSUME NEW v \in Workers PROVE RequestOK(v)'
  <2>1. CASE v = w
    BY <2>1, <1>1, <1>t DEF TypeOK, RequestOK
  <2>2. CASE v # w
    BY <2>2, <1>1, <1>t DEF TypeOK, RequestOK, IInv, Requests
  <2> QED BY <2>1, <2>2
<1>4. KeysDiffer'
  BY <1>1, <1>t DEF TypeOK, KeysDiffer, IInv, Requests
<1>5. (Unborn /\ OneAccountPerAddress /\ ColumnsKept /\ VerifiedByItsMail)'
  BY <1>1 DEF IInv, Unborn, OneAccountPerAddress, Rivals, ColumnsKept, VerifiedByItsMail
<1> QED BY <1>2, <1>3, <1>4, <1>5 DEF IInv, Requests

LEMMA AcceptKeeps ==
  ASSUME IInv, NEW w \in Workers, Accept(w)
  PROVE  IInv'
<1>t. TypeOK
  BY DEF IInv
<1>1. ASSUME NEW k \in Registrations, NEW i \in Ids, NEW u \in User, NEW role,
             Register(w, k, i, u, role)
      PROVE  IInv'
  <2>1. PICK p \in {"valid", "refused"} : Begin(w, k, i, u, p)
    BY <1>1 DEF Register
  <2>2. /\ ~u.is_email_verified /\ i \notin born
        /\ \A v \in Workers : pc[v] = "valid" => pk[v] # i
    BY <1>1 DEF Register
  <2> QED BY <2>1, <2>2, BeginKeeps
<1>2. ASSUME NEW t \in mailed, VerifyEmail(w, t)
      PROVE  IInv'
  <2>1. t.id \in Ids
    BY <1>t DEF TypeOK, Token
  <2>2. PICK o, p : /\ Begin(w, "VerifyEmailView", t.id, o, p)
                    /\ o = IF row[t.id] = None THEN None
                           ELSE [row[t.id] EXCEPT !.is_email_verified = TRUE]
                    /\ p \in {"refused", "missing", "loaded"}
                    /\ p = "loaded" => row[t.id] # None
    BY <1>2 DEF VerifyEmail, NamedBy
  <2>3. /\ o \in User \cup {None}
        /\ p = "loaded" => o \in User
    <3>1. CASE row[t.id] = None
      BY <2>2, <3>1
    <3>2. CASE row[t.id] # None
      <4>1. row[t.id] \in User
        BY <3>2, <2>1, <1>t DEF TypeOK
      <4>2. [row[t.id] EXCEPT !.is_email_verified = TRUE] \in User
        BY <4>1 DEF User
      <4> QED BY <2>2, <3>2, <4>2
    <3> QED BY <3>1, <3>2
  <2>4. /\ "VerifyEmailView" \in DOMAIN ColumnOf /\ \E s \in mailed : s.id = t.id
        /\ p \in {"valid", "loaded", "refused", "missing"} /\ p # "valid"
        /\ Begin(w, "VerifyEmailView", t.id, o, p)
    BY <2>2, ColumnsOf
  <2> QED BY <2>1, <2>3, <2>4, BeginKeeps
<1>3. ASSUME NEW k \in OwnViews, NEW i \in Ids, NEW v \in Values, NEW old \in Values,
             ChangeOwn(w, k, i, v, old)
      PROVE  IInv'
  <2>1. PICK o, p : /\ Begin(w, k, i, o, p)
                    /\ o = IF row[i] = None THEN None ELSE [row[i] EXCEPT ![ColumnOf[k]] = v]
                    /\ p \in {"refused", "loaded"}
                    /\ p = "loaded" => row[i] # None
    <3>1. CASE row[i] = None
      BY <1>3, <3>1 DEF ChangeOwn
    <3>2. CASE row[i] # None
      BY <1>3, <3>2 DEF ChangeOwn
    <3> QED BY <3>1, <3>2
  <2>2. /\ o \in User \cup {None}
        /\ p = "loaded" => o \in User
    <3>1. CASE row[i] = None
      BY <2>1, <3>1
    <3>2. CASE row[i] # None
      <4>1. row[i] \in User
        BY <3>2, <1>t DEF TypeOK
      <4>2. ColumnOf[k] \in {"username", "avatar", "password"}
        BY ColumnsOf DEF Columns
      <4>3. [row[i] EXCEPT ![ColumnOf[k]] = v] \in User
        <5>1. CASE ColumnOf[k] = "username"
          BY <4>1, <5>1 DEF User
        <5>2. CASE ColumnOf[k] = "avatar"
          BY <4>1, <5>2 DEF User
        <5>3. CASE ColumnOf[k] = "password"
          BY <4>1, <5>3 DEF User
        <5> QED BY <4>2, <5>1, <5>2, <5>3
      <4> QED BY <2>1, <3>2, <4>3
    <3> QED BY <3>1, <3>2
  <2> QED BY <2>1, <2>2, BeginKeeps, ColumnsOf
<1> QED BY <1>1, <1>2, <1>3 DEF Accept

\* A request that ends, or is killed, or has mailed.
LEMMA EndKeeps ==
  ASSUME IInv, NEW w \in Workers, NEW q \in Answered \cup {"mailed"}, Goto(w, q),
         q = "mailed" => pc[w] = "inserted" /\ \E t \in mailed' : t.id = pk[w],
         mailed' = mailed \/ \E t \in Token : mailed' = mailed \cup {t},
         UNCHANGED <<now, row, born, kind, pk, obj, last, accepted>>
  PROVE  IInv'
<1>t. TypeOK /\ mailed \subseteq mailed' /\ q \notin InFlight \ {"mailed"}
  BY DEF IInv, Answered, InFlight
<1>1. pc' = [pc EXCEPT ![w] = q]
  BY DEF Goto
<1>2. TypeOK'
  BY <1>1, <1>t DEF TypeOK, InFlight
<1>3. ASSUME NEW v \in Workers PROVE RequestOK(v)'
  <2>1. CASE v = w
    BY <2>1, <1>1, <1>t DEF TypeOK, RequestOK, InFlight, IInv, Requests
  <2>2. CASE v # w
    BY <2>2, <1>1, <1>t DEF TypeOK, RequestOK, IInv, Requests
  <2> QED BY <2>1, <2>2
<1>4. KeysDiffer'
  BY <1>1, <1>t DEF TypeOK, KeysDiffer, IInv, Requests, InFlight
<1>5. (Unborn /\ OneAccountPerAddress /\ ColumnsKept /\ VerifiedByItsMail)'
  BY <1>t DEF IInv, Unborn, OneAccountPerAddress, Rivals, ColumnsKept, VerifiedByItsMail
<1> QED BY <1>2, <1>3, <1>4, <1>5 DEF IInv, Requests

LEMMA InsertKeeps ==
  ASSUME IInv, NEW w \in Workers, InsertUser(w)
  PROVE  IInv'
<1>t. /\ TypeOK /\ RequestOK(w) /\ pc[w] = "valid" /\ KeysDiffer
      /\ kind[w] \in Registrations /\ pk[w] \in Ids /\ obj[w] \in User
      /\ ~obj[w].is_email_verified /\ pk[w] \notin born /\ row[pk[w]] = None
      /\ None \notin User
  BY AccountsAssumption DEF AccountsAssumption, InsertUser, IInv, Requests, RequestOK, Unborn
<1>1. CASE Taken(pk[w], obj[w])
  <2>1. /\ Goto(w, "failed") /\ mailed' = mailed
        /\ UNCHANGED <<now, row, born, kind, pk, obj, last, accepted>>
    BY <1>1 DEF InsertUser, local
  <2> QED BY <2>1, EndKeeps DEF Answered
<1>2. CASE ~Taken(pk[w], obj[w])
  <2>1. /\ row' = [row EXCEPT ![pk[w]] = obj[w]] /\ last' = [last EXCEPT ![pk[w]] = obj[w]]
        /\ born' = born \cup {pk[w]} /\ pc' = [pc EXCEPT ![w] = "inserted"]
        /\ UNCHANGED <<now, mailed, kind, pk, obj, accepted>>
    BY <1>2 DEF InsertUser, Goto, local
  <2>2. TypeOK'
    BY <2>1, <1>t DEF TypeOK, InFlight
  <2>3. ASSUME NEW v \in Workers PROVE RequestOK(v)'
    <3>1. CASE v = w
      BY <3>1, <2>1, <1>t DEF TypeOK, RequestOK
    <3>2. CASE v # w
      <4>1. RequestOK(v) /\ (pc[v] = "valid" => pk[v] # pk[w])
        BY <3>2, <1>t DEF IInv, Requests, KeysDiffer
      <4> QED BY <3>2, <4>1, <2>1, <1>t DEF TypeOK, RequestOK
    <3> QED BY <3>1, <3>2
  <2>4. KeysDiffer' /\ Unborn'
    BY <2>1, <1>t DEF TypeOK, KeysDiffer, IInv, Unborn
  <2>5. OneAccountPerAddress'
    BY <1>2, <2>1, <1>t DEF TypeOK, Taken, Rivals, IInv, OneAccountPerAddress
  <2>6. ColumnsKept' /\ VerifiedByItsMail'
    BY <2>1, <1>t DEF TypeOK, IInv, ColumnsKept, VerifiedByItsMail
  <2> QED BY <2>2, <2>3, <2>4, <2>5, <2>6 DEF IInv, Requests
<1> QED BY <1>1, <1>2

LEMMA MailKeeps ==
  ASSUME IInv, NEW w \in Workers, SendVerificationMail(w)
  PROVE  IInv'
<1>1. TypeOK /\ pk[w] \in Ids /\ obj[w] \in User
  BY DEF SendVerificationMail, IInv, Requests, RequestOK
<1>2. UNCHANGED <<now, row, born, kind, pk, obj, last, accepted>>
  BY DEF SendVerificationMail, local
<1>3. ASSUME NEW q \in {"done", "mailed", "failed"}, Goto(w, q), mailed' = mailed \cup {LinkFor(w)}
      PROVE  IInv'
  <2>1. LinkFor(w) \in Token /\ LinkFor(w).id = pk[w]
    BY <1>1 DEF TypeOK, User, Token, LinkFor
  <2>2. pc[w] = "inserted" /\ q \in Answered \cup {"mailed"}
    BY <1>3 DEF SendVerificationMail, Answered
  <2> QED BY <1>2, <1>3, <2>1, <2>2, EndKeeps
<1>4. CASE Goto(w, "failed") /\ mailed' = mailed
  BY <1>2, <1>4, EndKeeps DEF Answered
<1> QED BY <1>3, <1>4 DEF SendVerificationMail, AfterFailedMail

LEMMA SignInKeeps ==
  ASSUME IInv, NEW w \in Workers, SignIn(w)
  PROVE  IInv'
<1>1. PICK q \in {"done", "failed"} : Goto(w, q)
  BY DEF SignIn
<1>2. mailed' = mailed /\ UNCHANGED <<now, row, born, kind, pk, obj, last, accepted>>
  BY DEF SignIn, local
<1>3. q \in Answered \cup {"mailed"} /\ q # "mailed"
  BY DEF Answered
<1> QED BY <1>1, <1>2, <1>3, EndKeeps

LEMMA SaveKeeps ==
  ASSUME IInv, NEW w \in Workers, SaveColumn(w)
  PROVE  IInv'
<1> DEFINE c == ColumnOf[kind[w]]
           i == pk[w]
<1>t. /\ TypeOK /\ pc[w] = "loaded" /\ kind[w] \in DOMAIN ColumnOf /\ i \in Ids /\ obj[w] \in User
      /\ kind[w] = "VerifyEmailView" => \E t \in mailed : t.id = i
      /\ None \notin User
  BY AccountsAssumption DEF AccountsAssumption, SaveColumn, IInv, Requests, RequestOK
<1> DEFINE s == [row[i] EXCEPT ![c] = obj[w][c]]
<1>1. CASE row[i] = None \/ Taken(i, s)
  <2>1. /\ Goto(w, "failed") /\ mailed' = mailed
        /\ UNCHANGED <<now, row, born, kind, pk, obj, last, accepted>>
    BY <1>1 DEF SaveColumn, Saved, local
  <2> QED BY <2>1, EndKeeps DEF Answered
<1>2. CASE row[i] # None /\ ~Taken(i, s)
  <2> DEFINE r == [row[i] EXCEPT ![c] = obj[w][c]]
  <2>1. /\ row' = [row EXCEPT ![i] = r]
        /\ last' = [last EXCEPT ![i] = [last[i] EXCEPT ![c] = obj[w][c]]]
        /\ pc' = [pc EXCEPT ![w] = "done"]
        /\ UNCHANGED <<now, born, mailed, kind, pk, obj, accepted>>
    BY <1>2 DEF SaveColumn, Saved, Goto, local
  <2>2. c \in Columns /\ row[i] \in User /\ last[i] = row[i]
    BY <1>2, <1>t, ColumnsOf DEF TypeOK, IInv, ColumnsKept
  <2>3. /\ r \in User /\ r.email = row[i].email
        /\ kind[w] # "VerifyEmailView" => r.is_email_verified = row[i].is_email_verified
    <3>1. r \in User
      BY <2>2, <1>t, ColumnSaved
    <3> QED BY <3>1, <2>2, <1>t, ColumnReplaced, ColumnsOf
  <2>4. [last[i] EXCEPT ![c] = obj[w][c]] = r
    BY <2>2
  <2>u. Rivals(i, r) = {}
    BY <1>2 DEF Taken
  <2> HIDE DEF r, c, i, s
  <2>5. row' = [row EXCEPT ![i] = r] /\ last' = [last EXCEPT ![i] = r]
    BY <2>1, <2>4
  <2>6. TypeOK'
    BY <2>1, <2>3, <2>5, <1>t DEF TypeOK, Answered
  <2>7. ASSUME NEW v \in Workers PROVE RequestOK(v)'
    <3>1. CASE v = w
      BY <3>1, <2>1, <1>t DEF TypeOK, RequestOK
    <3>2. CASE v # w
      <4>1. RequestOK(v) /\ pc'[v] = pc[v]
        BY <3>2, <2>1, <1>t DEF TypeOK, IInv, Requests
      <4>2. ASSUME pc[v] \in {"inserted", "mailed"}
            PROVE  row'[pk[v]] # None => row'[pk[v]].email = obj[v].email
        BY <4>1, <4>2, <2>3, <2>5, <1>2, <1>t DEF TypeOK, RequestOK
      <4> QED BY <4>1, <4>2, <2>1 DEF RequestOK
    <3> QED BY <3>1, <3>2
  <2>8. KeysDiffer' /\ Unborn'
    BY <2>1, <2>5, <1>2, <1>t DEF TypeOK, KeysDiffer, IInv, Requests, Unborn
  <2>9. OneAccountPerAddress'
    BY <2>3, <2>5, <2>u, <1>2, <1>t DEF TypeOK, Rivals, IInv, OneAccountPerAddress
  <2>10. ColumnsKept'
    BY <2>5, <1>t DEF TypeOK, IInv, ColumnsKept
  <2>11. VerifiedByItsMail'
    BY <2>1, <2>3, <2>5, <1>2, <1>t DEF TypeOK, IInv, VerifiedByItsMail
  <2> QED BY <2>6, <2>7, <2>8, <2>9, <2>10, <2>11 DEF IInv, Requests
<1> QED BY <1>1, <1>2

LEMMA DeletionKeeps ==
  ASSUME IInv, NEW i \in Ids, DeleteUser(i)
  PROVE  IInv'
<1>1. /\ row' = [row EXCEPT ![i] = None] /\ TypeOK
      /\ UNCHANGED <<now, born, mailed, pc, kind, pk, obj, last, accepted>>
  BY DEF DeleteUser, local, IInv
<1>2. TypeOK'
  BY <1>1 DEF TypeOK
<1>3. ASSUME NEW v \in Workers PROVE RequestOK(v)'
  BY <1>1 DEF TypeOK, RequestOK, IInv, Requests
<1>4. KeysDiffer' /\ Unborn'
  BY <1>1 DEF TypeOK, KeysDiffer, IInv, Requests, Unborn
<1>5. OneAccountPerAddress' /\ ColumnsKept' /\ VerifiedByItsMail'
  BY <1>1 DEF TypeOK, IInv, OneAccountPerAddress, Rivals, ColumnsKept, VerifiedByItsMail
<1> QED BY <1>2, <1>3, <1>4, <1>5 DEF IInv, Requests

LEMMA InductiveInit == Init => IInv
<1> SUFFICES ASSUME Init PROVE IInv
  OBVIOUS
<1>1. TypeOK
  <2>1. now \in 0..LastTick
    BY AccountsAssumption DEF Init, AccountsAssumption
  <2>2. "idle" \in Answered \cup InFlight
    BY DEF Answered
  <2> QED BY <2>1, <2>2 DEF Init, TypeOK
<1>2. Requests
  BY DEF Init, Requests, RequestOK, KeysDiffer
<1>3. Unborn /\ OneAccountPerAddress /\ ColumnsKept /\ VerifiedByItsMail
  BY DEF Init, Unborn, OneAccountPerAddress, ColumnsKept, VerifiedByItsMail
<1> QED BY <1>1, <1>2, <1>3 DEF IInv

LEMMA InductiveStep == IInv /\ [Next]_vars => IInv'
<1> SUFFICES ASSUME IInv, [Next]_vars PROVE IInv'
  OBVIOUS
<1>1. CASE Tick
  <2>1. now' \in 0..LastTick /\ UNCHANGED <<row, born, mailed, pc, kind, pk, obj, last, accepted>>
    BY <1>1, AccountsAssumption DEF Tick, local, IInv, TypeOK, AccountsAssumption
  <2> QED
    BY <2>1 DEF IInv, TypeOK, Requests, RequestOK, KeysDiffer, Unborn, OneAccountPerAddress, Rivals,
                ColumnsKept, VerifiedByItsMail
<1>2. CASE \E i \in Ids : DeleteUser(i)
  BY <1>2, DeletionKeeps
<1>3. CASE \E w \in Workers : Accept(w)
  BY <1>3, AcceptKeeps
<1>4. CASE \E w \in Workers : Proceed(w)
  BY <1>4, InsertKeeps, MailKeeps, SignInKeeps, SaveKeeps DEF Proceed
<1>5. ASSUME NEW w \in Workers, Crash(w) PROVE IInv'
  <2>1. /\ Goto(w, "idle") /\ mailed' = mailed
        /\ UNCHANGED <<now, row, born, kind, pk, obj, last, accepted>>
    BY <1>5 DEF Crash, local
  <2> QED BY <2>1, EndKeeps DEF Answered
<1>6. CASE UNCHANGED vars
  BY <1>6 DEF vars, IInv, TypeOK, Requests, RequestOK, KeysDiffer, Unborn, OneAccountPerAddress, Rivals,
              ColumnsKept, VerifiedByItsMail
<1> QED BY <1>1, <1>2, <1>3, <1>4, <1>5, <1>6 DEF Next

LEMMA Inductive == Spec => []IInv
BY InductiveInit, InductiveStep, PTL DEF Spec

(* Every reachable state of the accounts is well typed. *)
THEOREM TypeCorrect == Spec => []TypeOK
<1>1. IInv => TypeOK
  BY DEF IInv
<1> QED BY <1>1, Inductive, PTL

(* No interleaving of registrations and changes of username gives an address, or a
   username, two accounts: the constraints of the table are enough. *)
THEOREM AddressesUnique == Spec => []OneAccountPerAddress
<1>1. IInv => OneAccountPerAddress
  BY DEF IInv
<1> QED BY <1>1, Inductive, PTL

(* The handlers of one's own account and of its verification, which each save one column,
   lose nothing of each other's. *)
THEOREM NothingLost == Spec => []ColumnsKept
<1>1. IInv => ColumnsKept
  BY DEF IInv
<1> QED BY <1>1, Inductive, PTL

(* No account is verified but by a link that was mailed for that account. *)
THEOREM OnlyByItsMail == Spec => []VerifiedByItsMail
<1>1. IInv => VerifiedByItsMail
  BY DEF IInv
<1> QED BY <1>1, Inductive, PTL

--------------------------------------------------------------------------------
(* The answers. *)

\* The step that AnswersOfRegistrations allows worker w.
AnswerStep(w) ==
  pc'[w] # pc[w] /\ kind'[w] \in Registrations =>
    /\ pc'[w] = "done" => \E t \in mailed' : t.id = pk'[w]
    /\ pc'[w] = "failed" => \/ Rivals(pk[w], obj[w]) # {}
                            \/ row'[pk'[w]] # None /\ row'[pk'[w]].email = obj'[w].email
                            \/ row'[pk'[w]] = None /\ pk'[w] \in born'

LEMMA AnswersStep == IInv /\ [Next]_vars => \A w \in Workers : AnswerStep(w)
<1> SUFFICES ASSUME IInv, [Next]_vars, NEW w \in Workers PROVE AnswerStep(w)
  OBVIOUS
<1>t. TypeOK /\ RequestOK(w)
  BY DEF IInv, Requests
<1>0. ASSUME pc'[w] = pc[w] \/ pc'[w] \notin {"done", "failed"} \/ kind'[w] \notin Registrations
      PROVE  AnswerStep(w)
  BY <1>0 DEF AnswerStep
<1>1. ASSUME NEW v \in Workers, NEW k, NEW i, NEW o, NEW p, Begin(v, k, i, o, p),
             p \notin {"done", "failed"}
      PROVE  AnswerStep(w)
  BY <1>0, <1>1, <1>t DEF Begin, TypeOK
<1>2. ASSUME NEW v \in Workers, Accept(v) PROVE AnswerStep(w)
  <2>1. ASSUME NEW k \in Registrations, NEW i \in Ids, NEW u \in User, NEW role,
               Register(v, k, i, u, role)
        PROVE  AnswerStep(w)
    <3>1. PICK p \in {"valid", "refused"} : Begin(v, k, i, u, p)
      BY <2>1 DEF Register
    <3> QED BY <1>1, <3>1
  <2>2. ASSUME NEW t \in mailed, VerifyEmail(v, t) PROVE AnswerStep(w)
    <3>1. PICK o, p : Begin(v, "VerifyEmailView", t.id, o, p) /\ p \in {"refused", "missing", "loaded"}
      BY <2>2 DEF VerifyEmail, NamedBy
    <3> QED BY <1>1, <3>1
  <2>3. ASSUME NEW k \in OwnViews, NEW i \in Ids, NEW x \in Values, NEW old \in Values,
               ChangeOwn(v, k, i, x, old)
        PROVE  AnswerStep(w)
    <3>1. PICK o, p : Begin(v, k, i, o, p) /\ p \in {"refused", "loaded"}
      <4>1. CASE row[i] = None
        BY <2>3, <4>1 DEF ChangeOwn
      <4>2. CASE row[i] # None
        BY <2>3, <4>2 DEF ChangeOwn
      <4> QED BY <4>1, <4>2
    <3> QED BY <1>1, <3>1
  <2> QED BY <1>2, <2>1, <2>2, <2>3 DEF Accept
<1>3. ASSUME NEW v \in Workers, InsertUser(v) PROVE AnswerStep(w)
  <2>1. CASE v # w
    BY <1>0, <1>3, <2>1, <1>t DEF InsertUser, Goto, TypeOK
  <2>2. CASE v = w /\ ~Taken(pk[w], obj[w])
    BY <1>0, <1>3, <2>2, <1>t DEF InsertUser, Goto, TypeOK
  <2>3. CASE v = w /\ Taken(pk[w], obj[w])
    <3>1. pc'[w] = "failed"
      BY <1>3, <2>3, <1>t DEF InsertUser, Goto, TypeOK
    <3> QED BY <2>3, <3>1 DEF Taken, AnswerStep
  <2> QED BY <2>1, <2>2, <2>3
<1>4. ASSUME NEW v \in Workers, SendVerificationMail(v) PROVE AnswerStep(w)
  <2>1. CASE v # w
    BY <1>0, <1>4, <2>1, <1>t DEF SendVerificationMail, Goto, TypeOK
  <2>2. CASE v = w
    <3> DEFINE t == LinkFor(w)
    <3>1. /\ pc[w] = "inserted" /\ UNCHANGED <<row, born, pk, obj>>
          /\ pc'[w] = "done" => t \in mailed' /\ t.id = pk[w]
      <4>1. UNCHANGED <<row, born, pk, obj>>
        BY <1>4, <2>2 DEF SendVerificationMail, local
      <4>2. pc'[w] = "done" => mailed' = mailed \cup {t}
        BY <1>4, <2>2, <1>t DEF SendVerificationMail, Goto, TypeOK, AfterFailedMail
      <4> QED BY <1>4, <2>2, <4>1, <4>2 DEF SendVerificationMail, LinkFor
    <3>2. pk[w] \in Ids /\ pk[w] \in born /\ (row[pk[w]] # None => row[pk[w]].email = obj[w].email)
      BY <3>1, <1>t DEF RequestOK
    <3> QED BY <3>1, <3>2 DEF AnswerStep
  <2> QED BY <2>1, <2>2
<1>5. ASSUME NEW v \in Workers, SignIn(v) PROVE AnswerStep(w)
  <2>1. CASE v # w
    BY <1>0, <1>5, <2>1, <1>t DEF SignIn, Goto, TypeOK
  <2>2. CASE v = w
    <3>1. /\ pc[w] = "mailed" /\ UNCHANGED <<row, born, mailed, pk, obj>>
          /\ pc'[w] = IF row[pk[w]] = None THEN "failed" ELSE "done"
      BY <1>5, <2>2, <1>t DEF SignIn, Goto, TypeOK, local
    <3> QED BY <3>1, <1>t DEF RequestOK, AnswerStep
  <2> QED BY <2>1, <2>2
<1>6. ASSUME NEW v \in Workers, SaveColumn(v) PROVE AnswerStep(w)
  <2>1. CASE v # w
    BY <1>0, <1>6, <2>1, <1>t DEF SaveColumn, Goto, TypeOK
  <2>2. CASE v = w
    <3>1. kind'[w] = kind[w] /\ kind[w] \in DOMAIN ColumnOf
      BY <1>6, <2>2, <1>t DEF SaveColumn, local, RequestOK
    <3> QED BY <1>0, <3>1, ColumnsOf
  <2> QED BY <2>1, <2>2
<1>7. ASSUME NEW v \in Workers, Crash(v) PROVE AnswerStep(w)
  BY <1>0, <1>7, <1>t DEF Crash, Goto, TypeOK
<1>8. CASE Tick \/ (\E i \in Ids : DeleteUser(i)) \/ UNCHANGED vars
  BY <1>0, <1>8 DEF Tick, DeleteUser, vars
<1> QED BY <1>2, <1>3, <1>4, <1>5, <1>6, <1>7, <1>8 DEF Next, Proceed

(* A registration answered with success has mailed its link, and one that fails in the
   server leaves its address taken, unless the account has been deleted meanwhile. *)
THEOREM AnswersTrue == Spec => AnswersOfRegistrations
<1>1. IInv /\ [Next]_vars => [\A w \in Workers : AnswerStep(w)]_vars
  BY AnswersStep
<1> QED BY <1>1, Inductive, PTL DEF Spec, AnswersOfRegistrations, AnswerStep
================================================================================
