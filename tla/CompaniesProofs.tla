----------------------------- MODULE CompaniesProofs -----------------------------
(***************************************************************************)
(* Proofs about Companies, for any number of workers, users, profiles,     *)
(* times and requests, and any cooldown and expiry.                        *)
(***************************************************************************)
EXTENDS Companies, TLAPS

\* A request in flight holds a copy of the company.
CopiesLoaded == \A w \in Workers : pc[w] \in InFlight => copy[w] # None

TInv == TypeOK /\ CopiesLoaded

--------------------------------------------------------------------------------
(* Types. *)

\* A request that starts.
LEMMA BeginTyped ==
  ASSUME TInv, NEW w \in Workers, NEW u \in Users, NEW k \in Kinds,
         NEW a \in Nat \cup Users \cup {None}, NEW c \in Company \cup {None},
         NEW p \in Answered \cup InFlight, Begin(w, k, u, a, c, p),
         p \in InFlight => c # None,
         UNCHANGED <<now, users, lost, forsaken>>, accepted' \in Nat,
         row' \in Company \cup {None}, members' \subseteq CompanyMember,
         tokens' \in Nat, ids' \in Nat
  PROVE  TInv'
<1>1. TypeOK'
  BY DEF TInv, TypeOK, Begin
<1>2. CopiesLoaded'
  <2> SUFFICES ASSUME NEW v \in Workers, pc'[v] \in InFlight PROVE copy'[v] # None
    BY DEF CopiesLoaded
  <2>1. CASE v = w
    BY <2>1 DEF TInv, TypeOK, Begin
  <2>2. CASE v # w
    BY <2>2 DEF TInv, TypeOK, Begin, CopiesLoaded
  <2> QED BY <2>1, <2>2
<1> QED BY <1>1, <1>2 DEF TInv

\* A request that goes on.
LEMMA GotoTyped ==
  ASSUME TInv, NEW w \in Workers, pc[w] \in InFlight,
         NEW p \in Answered \cup InFlight, Goto(w, p),
         UNCHANGED <<now, users, accepted, kind, user, arg, copy>>,
         row' \in Company \cup {None}, members' \subseteq CompanyMember,
         tokens' \in Nat, ids' \in Nat, lost' \subseteq TwoTierColumns, forsaken' \in BOOLEAN
  PROVE  TInv'
<1>1. TypeOK'
  BY DEF TInv, TypeOK, Goto
<1>2. CopiesLoaded'
  <2> SUFFICES ASSUME NEW v \in Workers, pc'[v] \in InFlight PROVE copy'[v] # None
    BY DEF CopiesLoaded
  <2>1. CASE v = w
    BY <2>1 DEF TInv, TypeOK, Goto, CopiesLoaded, Answered, InFlight
  <2>2. CASE v # w
    BY <2>2 DEF TInv, TypeOK, Goto, CopiesLoaded
  <2> QED BY <2>1, <2>2
<1> QED BY <1>1, <1>2 DEF TInv

LEMMA AcceptTyped ==
  ASSUME TInv, NEW w \in Workers, Accept(w)
  PROVE  TInv'
<1> USE CompaniesAssumption
<1>1. ASSUME NEW u \in Users, NEW p \in Profiles, Create(w, u, p)
      PROVE  TInv'
  <2>1. Begin(w, "create", u, None, None, "done")
    BY <1>1 DEF Create
  <2>2. "create" \in Kinds /\ "done" \in Answered /\ "done" \notin InFlight
    BY DEF Kinds, Answered, InFlight
  <2>3. NewCompany(p, tokens + 1) \in Company
    BY DEF TInv, TypeOK, NewCompany, Company, Times, VerificationStatus
  <2>4. /\ row' \in Company \cup {None} /\ members' \subseteq CompanyMember
        /\ tokens' \in Nat /\ ids' \in Nat /\ accepted' \in Nat
    BY <1>1, <2>3 DEF Create, CompanyMember, TInv, TypeOK
  <2>5. UNCHANGED <<now, users, lost, forsaken>>
    BY <1>1 DEF Create
  <2> QED BY <2>1, <2>2, <2>4, <2>5, BeginTyped
<1>2. ASSUME NEW u \in Users, NEW k \in Kinds \ {"none", "create"}, Load(w, k, u)
      PROVE  TInv'
  <2> DEFINE p == IF row # None THEN "found"
                  ELSE IF k \in MemberViewKinds THEN "failed" ELSE "missing"
  <2>1. PICK a \in ArgsOf(k) : Begin(w, k, u, a, row, p)
    BY <1>2 DEF Load
  <2>2. a \in Nat \cup Users \cup {None}
    BY <2>1 DEF ArgsOf, TInv, TypeOK
  <2>3. p \in Answered \cup InFlight /\ (p \in InFlight => row # None)
    BY DEF Answered, InFlight
  <2>4. UNCHANGED <<now, tables, lost, forsaken>> /\ accepted' \in Nat
    BY <1>2 DEF Load, TInv, TypeOK
  <2> HIDE DEF p
  <2> QED BY <2>1, <2>2, <2>3, <2>4, BeginTyped DEF TInv, TypeOK, tables
<1> QED BY <1>1, <1>2 DEF Accept

\* Save, the end of a handler that saves a few columns.
LEMMA SaveTyped ==
  ASSUME TInv, NEW w \in Workers, pc[w] = "member", NEW allowed, NEW r,
         Save(w, allowed, r), row # None => r \in Company,
         tokens' \in Nat, UNCHANGED lost
  PROVE  TInv'
<1>1. PICK p \in {"refused", "failed", "done"} : Goto(w, p)
  BY DEF Save
<1>2. p \in Answered \cup InFlight /\ pc[w] \in InFlight
  BY <1>1 DEF Answered, InFlight
<1>3. row' \in Company \cup {None}
  BY DEF Save, TInv, TypeOK
<1>4. UNCHANGED <<now, users, accepted, kind, user, arg, copy>>
  BY DEF Save, local
<1>5. /\ members' \subseteq CompanyMember /\ ids' \in Nat
      /\ lost' \subseteq TwoTierColumns /\ forsaken' \in BOOLEAN
  BY DEF Save, TInv, TypeOK
<1> QED BY <1>1, <1>2, <1>3, <1>4, <1>5, GotoTyped

LEMMA ProceedTyped ==
  ASSUME TInv, NEW w \in Workers, Proceed(w)
  PROVE  TInv'
<1> USE CompaniesAssumption
<1>t. TypeOK
  BY DEF TInv
<1>1. CASE CheckMembership(w)
  <2>1. PICK p \in {"member", "refused"} : Goto(w, p)
    BY <1>1 DEF CheckMembership
  <2>2. pc[w] \in InFlight /\ p \in Answered \cup InFlight
    BY <1>1, <2>1 DEF CheckMembership, Answered, InFlight
  <2>3. UNCHANGED <<now, users, accepted, kind, user, arg, copy>>
        /\ UNCHANGED <<row, members, tokens, ids, lost, forsaken>>
    BY <1>1 DEF CheckMembership, local, tables
  <2> QED BY <2>1, <2>2, <2>3, <1>t, GotoTyped DEF TypeOK
<1>2. CASE VerifyDomain(w)
  <2>1. pc[w] = "member" /\ UNCHANGED <<tokens, lost>>
    BY <1>2 DEF VerifyDomain
  <2>2. row # None => [row EXCEPT !.domain_verified = TRUE] \in Company
    BY <1>t DEF TypeOK, Company
  <2>3. Save(w, TokenMatches(w) /\ ~is_domain_token_expired(copy[w]),
             [row EXCEPT !.domain_verified = TRUE])
    BY <1>2 DEF VerifyDomain
  <2> QED BY <2>1, <2>2, <2>3, <1>t, SaveTyped DEF TypeOK
<1>3. CASE ResendToken(w)
  <2>1. pc[w] \in InFlight /\ tokens' \in Nat
    BY <1>3, <1>t DEF ResendToken, InFlight, TypeOK
  <2>2. ASSUME row # None
        PROVE  [row EXCEPT !.token = tokens + 1, !.generated_at = now] \in Company
    <3>1. row \in Company /\ tokens + 1 \in Nat /\ now \in Times
      BY <2>2, <1>t DEF TypeOK, Times
    <3> QED BY <3>1 DEF Company
  <2>3. /\ row' \in Company \cup {None}
        /\ UNCHANGED <<now, users, accepted, kind, user, arg, copy>>
        /\ UNCHANGED <<members, ids, lost, forsaken>>
    BY <1>3, <1>t, <2>2 DEF ResendToken, Save, local, TypeOK
  <2>4. PICK p \in {"refused", "failed", "done"} : Goto(w, p)
    BY <1>3 DEF ResendToken, Save
  <2>5. p \in Answered \cup InFlight
    BY <2>4 DEF Answered
  <2> QED BY <2>1, <2>3, <2>4, <2>5, <1>t, GotoTyped DEF TypeOK
<1>4. CASE Submit(w)
  <2>1. pc[w] = "member" /\ UNCHANGED <<tokens, lost>>
    BY <1>4 DEF Submit
  <2>2. row # None => [row EXCEPT !.status = "pending"] \in Company
    BY <1>t DEF TypeOK, Company, VerificationStatus
  <2>3. Save(w, MaySubmit(copy[w]), [row EXCEPT !.status = "pending"])
    BY <1>4 DEF Submit
  <2> QED BY <2>1, <2>2, <2>3, <1>t, SaveTyped DEF TypeOK
<1>5. CASE LoadAgain(w)
  <2>1. PICK p \in {"missing", "ready"} : Goto(w, p) /\ (p = "ready" => row # None)
    BY <1>5 DEF LoadAgain
  <2>2. pc[w] \in InFlight /\ p \in Answered \cup InFlight /\ (p # "ready" => p \notin InFlight)
    BY <1>5, <2>1 DEF LoadAgain, Answered, InFlight
  <2>3. copy' = [copy EXCEPT ![w] = row]
        /\ UNCHANGED <<now, tables, kind, user, arg, lost, forsaken, accepted>>
    BY <1>5 DEF LoadAgain
  <2>4. TypeOK'
    BY <2>1, <2>2, <2>3, <1>t DEF TypeOK, Goto, tables
  <2>5. ASSUME NEW v \in Workers, pc'[v] \in InFlight PROVE copy'[v] # None
    <3>1. CASE v = w
      BY <3>1, <2>1, <2>2, <2>3, <2>5, <1>t DEF TypeOK, Goto
    <3>2. CASE v # w
      BY <3>2, <2>1, <2>3, <2>5, <1>t DEF TInv, TypeOK, Goto, CopiesLoaded
    <3> QED BY <3>1, <3>2
  <2> QED BY <2>4, <2>5 DEF TInv, CopiesLoaded
<1>6. CASE SaveEverything(w)
  <2>1. Goto(w, "done") /\ "done" \in Answered \cup InFlight /\ pc[w] \in InFlight
    BY <1>6 DEF SaveEverything, Answered, InFlight
  <2>2. copy[w] \in Company
    BY <2>1, <1>t DEF TInv, CopiesLoaded, TypeOK
  <2>3. row' \in Company \cup {None}
    BY <1>6, <2>2 DEF SaveEverything, Company
  <2>4. lost' \subseteq TwoTierColumns /\ forsaken' \in BOOLEAN
    BY <1>6, <1>t DEF SaveEverything, TypeOK
  <2>5. UNCHANGED <<now, users, accepted, kind, user, arg, copy>>
        /\ UNCHANGED <<members, tokens, ids>>
    BY <1>6 DEF SaveEverything, local
  <2> QED BY <2>1, <2>3, <2>4, <2>5, <1>t, GotoTyped DEF TypeOK
<1>7. CASE DeleteCompany(w)
  <2>1. Goto(w, "done") /\ "done" \in Answered \cup InFlight /\ pc[w] \in InFlight
    BY <1>7 DEF DeleteCompany, Answered, InFlight
  <2>2. UNCHANGED <<now, users, accepted, kind, user, arg, copy>>
        /\ UNCHANGED <<tokens, ids, lost, forsaken>> /\ row' = None /\ members' = {}
    BY <1>7 DEF DeleteCompany, local
  <2> QED BY <2>1, <2>2, <1>t, GotoTyped DEF TypeOK
<1>8. CASE DeletionFails(w)
  <2>1. Goto(w, "failed") /\ "failed" \in Answered \cup InFlight /\ pc[w] \in InFlight
    BY <1>8 DEF DeletionFails, Answered, InFlight
  <2>2. UNCHANGED <<now, users, accepted, kind, user, arg, copy>>
        /\ UNCHANGED <<row, members, tokens, ids, lost, forsaken>>
    BY <1>8 DEF DeletionFails, local, tables
  <2> QED BY <2>1, <2>2, <1>t, GotoTyped DEF TypeOK
<1>9. CASE ValidateInvitation(w)
  <2>1. PICK p \in {"ready", "refused"} : Goto(w, p)
    BY <1>9 DEF ValidateInvitation
  <2>2. pc[w] \in InFlight /\ p \in Answered \cup InFlight
    BY <1>9, <2>1 DEF ValidateInvitation, Answered, InFlight
  <2>3. UNCHANGED <<now, users, accepted, kind, user, arg, copy>>
        /\ UNCHANGED <<row, members, tokens, ids, lost, forsaken>>
    BY <1>9 DEF ValidateInvitation, local, tables
  <2> QED BY <2>1, <2>2, <2>3, <1>t, GotoTyped DEF TypeOK
<1>10. CASE InsertMember(w)
  <2>1. PICK p \in {"done", "failed"} : Goto(w, p)
    BY <1>10 DEF InsertMember
  <2>2. pc[w] \in InFlight /\ p \in Answered \cup InFlight
    BY <1>10, <2>1 DEF InsertMember, Answered, InFlight
  <2>3. members' \subseteq CompanyMember /\ ids' \in Nat
    <3>1. CASE MayInsert(arg[w])
      <4>1. arg[w] \in Users /\ ids + 1 \in Nat
        BY <3>1, <1>t DEF MayInsert, TypeOK
      <4>2. [id |-> ids + 1, user |-> arg[w], role |-> "recruiter"] \in CompanyMember
        BY <4>1 DEF CompanyMember
      <4> QED BY <4>1, <4>2, <3>1, <1>10, <1>t DEF InsertMember, TypeOK
    <3>2. CASE ~MayInsert(arg[w])
      BY <3>2, <1>10, <1>t DEF InsertMember, TypeOK
    <3> QED BY <3>1, <3>2
  <2>4. UNCHANGED <<now, users, accepted, kind, user, arg, copy>>
        /\ UNCHANGED <<row, tokens, lost, forsaken>>
    BY <1>10 DEF InsertMember, local
  <2> QED BY <2>1, <2>2, <2>3, <2>4, <1>t, GotoTyped DEF TypeOK
<1>11. CASE FindMembership(w)
  <2>1. PICK p \in {"missing", "ready", "refused"} : Goto(w, p)
    BY <1>11 DEF FindMembership
  <2>2. pc[w] \in InFlight /\ p \in Answered \cup InFlight
    BY <1>11, <2>1 DEF FindMembership, Answered, InFlight
  <2>3. UNCHANGED <<now, users, accepted, kind, user, arg, copy>>
        /\ UNCHANGED <<row, members, tokens, ids, lost, forsaken>>
    BY <1>11 DEF FindMembership, local, tables
  <2> QED BY <2>1, <2>2, <2>3, <1>t, GotoTyped DEF TypeOK
<1>12. CASE DeleteMembership(w)
  <2>1. Goto(w, "done") /\ "done" \in Answered \cup InFlight /\ pc[w] \in InFlight
    BY <1>12 DEF DeleteMembership, Answered, InFlight
  <2>2. UNCHANGED <<now, users, accepted, kind, user, arg, copy>>
        /\ UNCHANGED <<row, tokens, ids, lost, forsaken>> /\ members' \subseteq CompanyMember
    BY <1>12, <1>t DEF DeleteMembership, local, TypeOK
  <2> QED BY <2>1, <2>2, <1>t, GotoTyped DEF TypeOK
<1> QED
  BY <1>1, <1>2, <1>3, <1>4, <1>5, <1>6, <1>7, <1>8, <1>9, <1>10, <1>11, <1>12 DEF Proceed

LEMMA EnvironmentTyped ==
  ASSUME TInv, Tick \/ (\E d \in {"verified", "rejected"} : Review(d))
                 \/ (\E u \in Users : DeleteUser(u)) \/ (\E w \in Workers : Crash(w))
                 \/ UNCHANGED vars
  PROVE  TInv'
<1> USE CompaniesAssumption
<1>t. TypeOK
  BY DEF TInv
<1>1. CASE Tick
  BY <1>1 DEF Tick, TInv, TypeOK, CopiesLoaded, tables, local
<1>2. ASSUME NEW d \in {"verified", "rejected"}, Review(d) PROVE TInv'
  <2>1. row \in Company /\ row' = [row EXCEPT !.status = d]
    BY <1>2, <1>t DEF Review, Reviewable, TypeOK
  <2>2. row' \in Company \cup {None}
    BY <2>1 DEF Company, VerificationStatus
  <2> QED BY <2>2, <1>2 DEF Review, TInv, TypeOK, CopiesLoaded, local
<1>3. ASSUME NEW u \in Users, DeleteUser(u) PROVE TInv'
  BY <1>3 DEF DeleteUser, TInv, TypeOK, CopiesLoaded, local
<1>4. ASSUME NEW w \in Workers, Crash(w) PROVE TInv'
  <2>1. Goto(w, "idle") /\ "idle" \in Answered \cup InFlight /\ pc[w] \in InFlight
    BY <1>4 DEF Crash, Answered, InFlight
  <2>2. UNCHANGED <<now, users, accepted, kind, user, arg, copy>>
        /\ UNCHANGED <<row, members, tokens, ids, lost, forsaken>>
    BY <1>4 DEF Crash, tables, local
  <2> QED BY <2>1, <2>2, <1>t, GotoTyped DEF TypeOK
<1>5. CASE UNCHANGED vars
  BY <1>5 DEF vars, TInv, TypeOK, CopiesLoaded
<1> QED BY <1>1, <1>2, <1>3, <1>4, <1>5

LEMMA TypedInit == Init => TInv
<1> SUFFICES ASSUME Init PROVE TInv
  OBVIOUS
<1> USE CompaniesAssumption
<1>1. row \in Company \cup {None} /\ members \subseteq CompanyMember /\ ids \in Nat
  <2>1. CASE row = None /\ members = {} /\ ids = 0
    BY <2>1
  <2>2. ASSUME NEW p \in Profiles, NEW v \in BOOLEAN, row = Migrated(p, v)
        PROVE  row \in Company
    BY <2>2 DEF Migrated, Company, Times, VerificationStatus
  <2>3. ASSUME NEW u \in Users, members = {[id |-> 1, user |-> u, role |-> "owner"]}
        PROVE  members \subseteq CompanyMember
    BY <2>3 DEF CompanyMember
  <2>4. CASE /\ \E p \in Profiles, v \in BOOLEAN : row = Migrated(p, v)
             /\ \E u \in Users : members = {[id |-> 1, user |-> u, role |-> "owner"]}
             /\ ids = 1
    BY <2>4, <2>2, <2>3
  <2> QED BY <2>1, <2>4 DEF Init
<1>2. "idle" \in Answered \cup InFlight /\ "idle" \notin InFlight /\ "none" \in Kinds
  BY DEF Answered, InFlight, Kinds
<1>3. TypeOK
  <2>1. /\ pc \in [Workers -> Answered \cup InFlight]
        /\ kind \in [Workers -> Kinds]
        /\ user \in [Workers -> Users \cup {None}]
        /\ arg \in [Workers -> Nat \cup Users \cup {None}]
        /\ copy \in [Workers -> Company \cup {None}]
    <3> HIDE CompaniesAssumption
    <3> QED BY <1>2 DEF Init
  <2>2. now \in 0..LastTick
    BY DEF Init, CompaniesAssumption
  <2>3. users \subseteq Users /\ tokens \in Nat /\ accepted \in Nat
    BY DEF Init
  <2>4. lost \subseteq TwoTierColumns /\ forsaken \in BOOLEAN
    BY DEF Init
  <2> QED BY <1>1, <2>1, <2>2, <2>3, <2>4 DEF TypeOK
<1>4. CopiesLoaded
  BY <1>2 DEF Init, CopiesLoaded
<1> QED BY <1>3, <1>4 DEF TInv

LEMMA TypedStep == TInv /\ [Next]_vars => TInv'
<1> SUFFICES ASSUME TInv, [Next]_vars PROVE TInv'
  OBVIOUS
<1>1. CASE \E w \in Workers : Accept(w)
  BY <1>1, AcceptTyped
<1>2. CASE \E w \in Workers : Proceed(w)
  BY <1>2, ProceedTyped
<1>3. CASE Tick \/ (\E d \in {"verified", "rejected"} : Review(d))
             \/ (\E u \in Users : DeleteUser(u)) \/ (\E w \in Workers : Crash(w))
             \/ UNCHANGED vars
  BY <1>3, EnvironmentTyped
<1> QED BY <1>1, <1>2, <1>3 DEF Next

LEMMA Typed == Spec => []TInv
BY TypedInit, TypedStep, PTL DEF Spec

(* The state is well typed, and every request in flight has loaded the company, in every
   interleaving of the handlers. *)
THEOREM TypeCorrect == Spec => []TypeOK
<1>1. TInv => TypeOK
  BY DEF TInv
<1> QED BY <1>1, Typed, PTL

--------------------------------------------------------------------------------
(* The membership table. *)

\* Before the company is created there is nothing.
Fresh == ids = 0 => row = None /\ members = {} /\ ~forsaken

MemberIds == \A m \in members : m.id \in 1..ids

\* A removal in flight names a membership that was created, and, once it has found it,
\* no owner's: ids are not used twice.
RequestOK(w) ==
  pc[w] \in InFlight =>
    /\ ids # 0
    /\ kind[w] = "remove" =>
         /\ arg[w] \in 1..ids
         /\ pc[w] = "ready" => \A m \in members : m.id = arg[w] => m.role # "owner"
Removals == \A w \in Workers : RequestOK(w)

TableOK == Fresh /\ MemberIds /\ MembersExact /\ OwnerKept

MInv == TInv /\ TableOK /\ Removals

\* A step that leaves the table, and whether there is a company, alone.
LEMMA TableKept ==
  ASSUME TableOK, UNCHANGED <<members, ids, users, forsaken>>, row' = None <=> row = None
  PROVE  TableOK'
BY DEF TableOK, Fresh, MemberIds, MembersExact, OwnerKept

\* A step that leaves request v alone; a new membership has a new id.
LEMMA RequestKept ==
  ASSUME MInv, NEW v \in Workers,
         pc'[v] \in InFlight => pc[v] = pc'[v] /\ kind'[v] = kind[v] /\ arg'[v] = arg[v],
         ids' \in Nat, ids' >= ids, \A m \in members' : m \in members \/ m.id = ids + 1
  PROVE  RequestOK(v)'
<1> SUFFICES ASSUME pc'[v] \in InFlight
             PROVE  /\ ids' # 0
                    /\ kind'[v] = "remove" =>
                         /\ arg'[v] \in 1..ids'
                         /\ pc'[v] = "ready" => \A m \in members' : m.id = arg'[v] => m.role # "owner"
  BY DEF RequestOK
<1>1. RequestOK(v) /\ ids \in Nat
  BY DEF MInv, Removals, TInv, TypeOK
<1> QED BY <1>1 DEF RequestOK

\* A request that goes on from p to q, and is no removal that has just been allowed.
LEMMA RequestMoves ==
  ASSUME MInv, NEW w \in Workers, pc[w] \in InFlight, NEW q \in Answered \cup InFlight,
         Goto(w, q), UNCHANGED <<kind, arg, ids, members>>,
         kind[w] = "remove" => q # "ready"
  PROVE  Removals'
<1> SUFFICES ASSUME NEW v \in Workers PROVE RequestOK(v)'
  BY DEF Removals
<1>1. CASE v = w
  <2>1. RequestOK(w) /\ pc'[w] = q
    BY DEF MInv, Removals, Goto, TInv, TypeOK
  <2> QED BY <2>1, <1>1 DEF RequestOK
<1>2. CASE v # w
  BY <1>2, RequestKept DEF MInv, TInv, TypeOK, Goto
<1> QED BY <1>1, <1>2

LEMMA AcceptMembers ==
  ASSUME MInv, NEW w \in Workers, Accept(w)
  PROVE  TableOK' /\ Removals'
<1>t. TypeOK /\ TableOK
  BY DEF MInv, TInv
<1>1. ASSUME NEW u \in Users, NEW p \in Profiles, Create(w, u, p)
      PROVE  TableOK' /\ Removals'
  <2> DEFINE o == [id |-> 1, user |-> u, role |-> "owner"]
  <2>1. /\ ids = 0 /\ ids' = 1 /\ members' = {o} /\ UNCHANGED <<users, forsaken>>
        /\ Begin(w, "create", u, None, None, "done")
    BY <1>1 DEF Create
  <2>2. u \in users /\ ~forsaken
    BY <2>1, <1>t DEF Begin, TableOK, Fresh
  <2>3. row' # None
    <3>1. row' \in Company
      BY <1>1, <1>t DEF Create, NewCompany, Company, Times, VerificationStatus, TypeOK
    <3> QED BY <3>1, CompaniesAssumption DEF CompaniesAssumption
  <2>4. TableOK'
    <3>1. Fresh' /\ MemberIds'
      BY <2>1 DEF Fresh, MemberIds
    <3>2. MembersExact'
      BY <2>1, <2>2, <2>3 DEF MembersExact
    <3>3. OwnerKept'
      BY <2>1, <2>2 DEF OwnerKept
    <3> QED BY <3>1, <3>2, <3>3 DEF TableOK
  <2>5. ASSUME NEW v \in Workers PROVE RequestOK(v)'
    <3>1. CASE v = w
      BY <3>1, <2>1, <1>t DEF Begin, TypeOK, RequestOK, InFlight
    <3>2. CASE v # w
      BY <3>2, <2>1, <1>t DEF Begin, TypeOK, RequestOK, MInv, Removals
    <3> QED BY <3>1, <3>2
  <2> QED BY <2>4, <2>5 DEF Removals
<1>2. ASSUME NEW u \in Users, NEW k \in Kinds \ {"none", "create"}, Load(w, k, u)
      PROVE  TableOK' /\ Removals'
  <2>1. PICK a \in ArgsOf(k), p \in {"found", "failed", "missing"} : Begin(w, k, u, a, row, p)
    BY <1>2 DEF Load
  <2>2. ids > 0 /\ UNCHANGED <<row, members, users, ids, forsaken>>
    BY <1>2 DEF Load, tables
  <2>3. TableOK'
    BY <2>2, <1>t, TableKept
  <2>4. ASSUME NEW v \in Workers PROVE RequestOK(v)'
    <3>1. CASE v = w
      <4>1. pc'[w] # "ready" /\ kind'[w] = k /\ arg'[w] = a
        BY <2>1, <1>t DEF Begin, TypeOK
      <4>2. k = "remove" => a \in 1..ids
        BY <2>1 DEF ArgsOf
      <4> QED BY <3>1, <4>1, <4>2, <2>2, <1>t DEF RequestOK, TypeOK
    <3>2. CASE v # w
      BY <3>2, <2>1, <2>2, <1>t, RequestKept DEF Begin, TypeOK
    <3> QED BY <3>1, <3>2
  <2> QED BY <2>3, <2>4 DEF Removals
<1> QED BY <1>1, <1>2 DEF Accept

LEMMA ProceedMembers ==
  ASSUME MInv, NEW w \in Workers, Proceed(w)
  PROVE  TableOK' /\ Removals'
<1>t. TypeOK /\ TableOK /\ None \notin Company
  BY CompaniesAssumption DEF MInv, TInv, CompaniesAssumption
\* What the steps that save, check or load have in common.
<1>0. ASSUME pc[w] \in InFlight, NEW q \in Answered \cup InFlight, Goto(w, q),
             UNCHANGED <<kind, arg, ids, members, users, forsaken>>,
             kind[w] = "remove" => q # "ready", row' = None <=> row = None
      PROVE  TableOK' /\ Removals'
  BY <1>0, <1>t, TableKept, RequestMoves
<1>1. CASE CheckMembership(w)
  <2>1. PICK q \in {"member", "refused"} : Goto(w, q)
    BY <1>1 DEF CheckMembership
  <2>2. pc[w] \in InFlight /\ q \in Answered \cup InFlight /\ q # "ready"
    BY <1>1, <2>1 DEF CheckMembership, Answered, InFlight
  <2>3. UNCHANGED <<kind, arg, ids, members, users, forsaken>> /\ row' = row
    BY <1>1 DEF CheckMembership, local, tables
  <2> QED BY <1>0, <2>1, <2>2, <2>3
<1>2. ASSUME NEW allowed, NEW r, pc[w] = "member", Save(w, allowed, r), row # None => r \in Company
      PROVE  TableOK' /\ Removals'
  <2>1. PICK q \in {"refused", "failed", "done"} : Goto(w, q)
    BY <1>2 DEF Save
  <2>2. pc[w] \in InFlight /\ q \in Answered \cup InFlight /\ q # "ready"
    BY <1>2, <2>1 DEF Answered, InFlight
  <2>3. UNCHANGED <<kind, arg, ids, members, users, forsaken>> /\ (row' = None <=> row = None)
    BY <1>2, <1>t DEF Save, local
  <2> QED BY <1>0, <2>1, <2>2, <2>3
<1>3. CASE VerifyDomain(w)
  <2>1. row # None => [row EXCEPT !.domain_verified = TRUE] \in Company
    BY <1>t DEF TypeOK, Company
  <2> QED BY <1>2, <1>3, <2>1 DEF VerifyDomain
<1>4. CASE ResendToken(w)
  <2>1. ASSUME row # None
        PROVE  [row EXCEPT !.token = tokens + 1, !.generated_at = now] \in Company
    <3>1. row \in Company /\ tokens + 1 \in Nat /\ now \in Times
      BY <2>1, <1>t DEF TypeOK, Times
    <3> QED BY <3>1 DEF Company
  <2> QED BY <1>2, <1>4, <2>1 DEF ResendToken
<1>5. CASE Submit(w)
  <2>1. row # None => [row EXCEPT !.status = "pending"] \in Company
    BY <1>t DEF TypeOK, Company, VerificationStatus
  <2> QED BY <1>2, <1>5, <2>1 DEF Submit
<1>6. CASE LoadAgain(w)
  <2>1. PICK q \in {"missing", "ready"} : Goto(w, q)
    BY <1>6 DEF LoadAgain
  <2>2. pc[w] \in InFlight /\ q \in Answered \cup InFlight /\ kind[w] # "remove"
    BY <1>6, <2>1 DEF LoadAgain, Answered, InFlight
  <2>3. UNCHANGED <<kind, arg, ids, members, users, forsaken>> /\ row' = row
    BY <1>6 DEF LoadAgain, tables
  <2> QED BY <1>0, <2>1, <2>2, <2>3
<1>7. CASE SaveEverything(w)
  <2>1. Goto(w, "done") /\ pc[w] \in InFlight /\ "done" \in Answered \cup InFlight
        /\ UNCHANGED <<members, users, ids, kind, arg>>
    BY <1>7 DEF SaveEverything, Answered, InFlight, local
  <2>2. copy[w] \in Company
    BY <2>1, <1>t DEF MInv, TInv, CopiesLoaded, TypeOK
  <2>3. row' # None
    BY <1>7, <2>2, <1>t DEF SaveEverything, Company
  <2>4. CASE row # None
    <3>1. forsaken' = forsaken
      BY <1>7, <2>4, <1>t DEF SaveEverything, TypeOK
    <3> QED BY <1>0, <2>1, <2>3, <2>4, <3>1
  <2>5. CASE row = None
    <3>1. members = {} /\ forsaken' = TRUE
      BY <1>7, <2>5, <1>t DEF TableOK, MembersExact, SaveEverything
    <3>2. ids # 0
      BY <2>1 DEF MInv, Removals, RequestOK
    <3>3. TableOK'
      BY <2>1, <2>3, <3>1, <3>2 DEF TableOK, Fresh, MemberIds, MembersExact, OwnerKept
    <3> QED BY <3>3, <2>1, RequestMoves
  <2> QED BY <2>4, <2>5
<1>8. CASE DeleteCompany(w)
  <2>1. /\ pc[w] \in InFlight /\ Goto(w, "done") /\ "done" \notin InFlight
        /\ row' = None /\ members' = {} /\ UNCHANGED <<users, ids, kind, arg, forsaken>>
    BY <1>8 DEF DeleteCompany, InFlight, local
  <2>2. ids # 0 /\ ids \in Nat
    BY <2>1, <1>t DEF MInv, Removals, RequestOK, TypeOK
  <2>3. TableOK'
    BY <2>1, <2>2 DEF TableOK, Fresh, MemberIds, MembersExact, OwnerKept
  <2>4. ASSUME NEW v \in Workers PROVE RequestOK(v)'
    BY <2>1, <2>2, <1>t DEF MInv, Removals, RequestOK, Goto, TypeOK
  <2> QED BY <2>3, <2>4 DEF Removals
<1>9. CASE DeletionFails(w)
  <2>1. Goto(w, "failed") /\ pc[w] \in InFlight /\ "failed" \in Answered \cup InFlight
    BY <1>9 DEF DeletionFails, Answered, InFlight
  <2>2. UNCHANGED <<kind, arg, ids, members, users, forsaken>> /\ row' = row
    BY <1>9 DEF DeletionFails, local, tables
  <2> QED BY <1>0, <2>1, <2>2
<1>10. CASE ValidateInvitation(w)
  <2>1. PICK q \in {"ready", "refused"} : Goto(w, q)
    BY <1>10 DEF ValidateInvitation
  <2>2. pc[w] \in InFlight /\ q \in Answered \cup InFlight /\ kind[w] # "remove"
    BY <1>10, <2>1 DEF ValidateInvitation, Answered, InFlight
  <2>3. UNCHANGED <<kind, arg, ids, members, users, forsaken>> /\ row' = row
    BY <1>10 DEF ValidateInvitation, local, tables
  <2> QED BY <1>0, <2>1, <2>2, <2>3
<1>11. CASE InsertMember(w)
  <2> DEFINE n == [id |-> ids + 1, user |-> arg[w], role |-> "recruiter"]
  <2>1. /\ pc[w] = "ready" /\ kind[w] = "invite" /\ UNCHANGED <<row, users, kind, arg, forsaken>>
        /\ ids \in Nat /\ ids # 0
    BY <1>11, <1>t DEF InsertMember, local, MInv, Removals, RequestOK, TypeOK, InFlight
  <2>2. CASE ~MayInsert(arg[w])
    <3>1. Goto(w, "failed") /\ UNCHANGED <<members, ids>>
      BY <1>11, <2>2 DEF InsertMember
    <3> QED BY <1>0, <2>1, <3>1 DEF Answered, InFlight
  <2>3. CASE MayInsert(arg[w])
    <3>1. members' = members \cup {n} /\ ids' = ids + 1 /\ Goto(w, "done")
      BY <1>11, <2>3 DEF InsertMember
    <3>2. Fresh' /\ MemberIds'
      BY <2>1, <3>1, <1>t DEF TableOK, Fresh, MemberIds
    <3>3. MembersExact'
      BY <2>1, <2>3, <3>1, <1>t DEF TableOK, MembersExact, MayInsert
    <3>4. OwnerKept'
      <4>1. n.role # "owner"
        OBVIOUS
      <4> HIDE DEF n
      <4>2. CASE forsaken /\ \A m \in members : m.role # "owner"
        BY <2>1, <3>1, <4>1, <4>2 DEF OwnerKept
      <4>3. ASSUME ~forsaken, NEW o \in members, \A m \in members : m.role = "owner" <=> m = o
            PROVE  OwnerKept'
        <5>1. \A m \in members' : m.role = "owner" <=> m = o
          BY <3>1, <4>1, <4>3
        <5>2. o \in members' /\ ~forsaken'
          BY <2>1, <3>1, <4>3
        <5> QED BY <5>1, <5>2 DEF OwnerKept
      <4> QED BY <4>2, <4>3, <2>3, <1>t DEF TableOK, OwnerKept, MayInsert
    <3>5. ASSUME NEW v \in Workers PROVE RequestOK(v)'
      <4>1. CASE v = w
        BY <4>1, <3>1, <1>t DEF RequestOK, Goto, TypeOK, InFlight
      <4>2. CASE v # w
        BY <4>2, <2>1, <3>1, <1>t, RequestKept DEF Goto, TypeOK
      <4> QED BY <4>1, <4>2
    <3> QED BY <3>2, <3>3, <3>4, <3>5 DEF TableOK, Removals
  <2> QED BY <2>2, <2>3
<1>12. CASE FindMembership(w)
  <2>1. /\ pc[w] = "member" /\ kind[w] = "remove"
        /\ UNCHANGED <<row, members, users, ids, kind, arg, forsaken>>
    BY <1>12 DEF FindMembership, local, tables
  <2>2. TableOK'
    BY <2>1, <1>t, TableKept
  <2>3. ASSUME NEW v \in Workers PROVE RequestOK(v)'
    <3>1. CASE v = w
      <4>1. RequestOK(w) /\ pc[w] \in InFlight
        BY <2>1 DEF MInv, Removals, InFlight
      <4>2. pc'[w] = "ready" => \A m \in members : m.id = arg[w] => m.role # "owner"
        BY <1>12, <1>t DEF FindMembership, Goto, TypeOK, Removable
      <4> QED BY <2>1, <3>1, <4>1, <4>2 DEF RequestOK
    <3>2. CASE v # w
      BY <3>2, <1>12, <2>1, <1>t, RequestKept DEF FindMembership, Goto, TypeOK
    <3> QED BY <3>1, <3>2
  <2> QED BY <2>2, <2>3 DEF Removals
<1>13. CASE DeleteMembership(w)
  <2>1. /\ pc[w] = "ready" /\ kind[w] = "remove" /\ Goto(w, "done")
        /\ members' = {m \in members : m.id # arg[w]}
        /\ UNCHANGED <<row, users, ids, kind, arg, forsaken>>
    BY <1>13 DEF DeleteMembership, local
  <2>2. \A m \in members : m.id = arg[w] => m.role # "owner"
    BY <2>1 DEF MInv, Removals, RequestOK, InFlight
  <2>3. Fresh' /\ MemberIds' /\ MembersExact'
    BY <2>1, <1>t DEF TableOK, Fresh, MemberIds, MembersExact
  <2>4. OwnerKept'
    BY <2>1, <2>2, <1>t DEF TableOK, OwnerKept
  <2>5. ASSUME NEW v \in Workers PROVE RequestOK(v)'
    <3>1. CASE v = w
      BY <3>1, <2>1, <1>t DEF RequestOK, Goto, TypeOK, InFlight
    <3>2. CASE v # w
      BY <3>2, <2>1, <1>t, RequestKept DEF Goto, TypeOK
    <3> QED BY <3>1, <3>2
  <2> QED BY <2>3, <2>4, <2>5 DEF TableOK, Removals
<1> QED
  BY <1>1, <1>3, <1>4, <1>5, <1>6, <1>7, <1>8, <1>9, <1>10, <1>11, <1>12, <1>13 DEF Proceed

LEMMA EnvironmentMembers ==
  ASSUME MInv, Tick \/ (\E d \in {"verified", "rejected"} : Review(d))
                 \/ (\E u \in Users : DeleteUser(u)) \/ (\E w \in Workers : Crash(w))
                 \/ UNCHANGED vars
  PROVE  TableOK' /\ Removals'
<1>t. TypeOK /\ TableOK /\ None \notin Company
  BY CompaniesAssumption DEF MInv, TInv, CompaniesAssumption
<1>0. ASSUME UNCHANGED <<pc, kind, arg, ids, members, users, forsaken>>, row' = None <=> row = None
      PROVE  TableOK' /\ Removals'
  <2>1. TableOK'
    BY <1>0, <1>t, TableKept
  <2>2. ASSUME NEW v \in Workers PROVE RequestOK(v)'
    BY <1>0, <1>t, RequestKept DEF TypeOK
  <2> QED BY <2>1, <2>2 DEF Removals
<1>1. CASE Tick \/ UNCHANGED vars
  BY <1>0, <1>1 DEF Tick, vars, tables, local
<1>2. ASSUME NEW d \in {"verified", "rejected"}, Review(d) PROVE TableOK' /\ Removals'
  <2>1. row \in Company /\ row' = [row EXCEPT !.status = d]
    BY <1>2, <1>t DEF Review, Reviewable, TypeOK
  <2>2. row' \in Company
    BY <2>1 DEF Company, VerificationStatus
  <2> QED BY <1>0, <1>2, <2>1, <2>2, <1>t DEF Review, local
<1>3. ASSUME NEW u \in Users, DeleteUser(u) PROVE TableOK' /\ Removals'
  <2>1. /\ users' = users \ {u} /\ members' = {m \in members : m.user # u}
        /\ forsaken' = (forsaken \/ \E m \in members : m.user = u /\ m.role = "owner")
        /\ UNCHANGED <<row, ids, pc, kind, arg>>
    BY <1>3 DEF DeleteUser, local
  <2>2. Fresh' /\ MemberIds' /\ MembersExact'
    BY <2>1, <1>t DEF TableOK, Fresh, MemberIds, MembersExact
  <2>3. OwnerKept'
    <3>1. CASE forsaken /\ \A m \in members : m.role # "owner"
      BY <2>1, <3>1 DEF OwnerKept
    <3>2. ASSUME ~forsaken, NEW o \in members, \A m \in members : m.role = "owner" <=> m = o
          PROVE  OwnerKept'
      <4>1. CASE o.user = u
        <5>1. forsaken' = TRUE
          BY <2>1, <3>2, <4>1
        <5>2. \A m \in members' : m.role # "owner"
          BY <2>1, <3>2, <4>1
        <5> QED BY <5>1, <5>2 DEF OwnerKept
      <4>2. CASE o.user # u
        <5>1. o \in members' /\ \A m \in members' : m.role = "owner" <=> m = o
          BY <2>1, <3>2, <4>2
        <5>2. ~forsaken'
          BY <2>1, <3>2, <4>2
        <5> QED BY <5>1, <5>2 DEF OwnerKept
      <4> QED BY <4>1, <4>2
    <3>3. CASE row = None
      BY <2>1, <3>3 DEF OwnerKept
    <3> QED BY <3>1, <3>2, <3>3, <1>t DEF TableOK, OwnerKept
  <2>4. ASSUME NEW v \in Workers PROVE RequestOK(v)'
    BY <2>1, <1>t, RequestKept DEF TypeOK
  <2> QED BY <2>2, <2>3, <2>4 DEF TableOK, Removals
<1>4. ASSUME NEW w \in Workers, Crash(w) PROVE TableOK' /\ Removals'
  <2>1. /\ Goto(w, "idle") /\ "idle" \in Answered \cup InFlight /\ pc[w] \in InFlight
        /\ UNCHANGED <<kind, arg, ids, members, row, users, forsaken>>
    BY <1>4 DEF Crash, tables, local, Answered, InFlight
  <2> QED BY <2>1, <1>t, TableKept, RequestMoves
<1> QED BY <1>1, <1>2, <1>3, <1>4

LEMMA MembersInit == Init => MInv
<1> SUFFICES ASSUME Init PROVE MInv
  OBVIOUS
<1>1. Removals
  BY DEF Init, Removals, RequestOK, InFlight
<1>2. TableOK
  <2>1. CASE row = None /\ members = {} /\ ids = 0
    BY <2>1 DEF Init, TableOK, Fresh, MemberIds, MembersExact, OwnerKept
  <2>2. ASSUME NEW c \in Company, row = c, ids = 1, NEW u \in Users,
               members = {[id |-> 1, user |-> u, role |-> "owner"]}
        PROVE  TableOK
    <3>1. row # None /\ users = Users /\ ~forsaken
      BY <2>2, CompaniesAssumption DEF Init, CompaniesAssumption
    <3> QED BY <2>2, <3>1 DEF TableOK, Fresh, MemberIds, MembersExact, OwnerKept
  <2>3. ASSUME NEW p \in Profiles, NEW v \in BOOLEAN PROVE Migrated(p, v) \in Company
    BY DEF Migrated, Company, Times, VerificationStatus
  <2> QED BY <2>1, <2>2, <2>3 DEF Init
<1> QED BY <1>1, <1>2, TypedInit DEF MInv

LEMMA MembersStep == MInv /\ [Next]_vars => MInv'
<1> SUFFICES ASSUME MInv, [Next]_vars PROVE MInv'
  OBVIOUS
<1>1. TInv'
  BY TypedStep DEF MInv
<1>2. CASE \E w \in Workers : Accept(w)
  BY <1>1, <1>2, AcceptMembers DEF MInv
<1>3. CASE \E w \in Workers : Proceed(w)
  BY <1>1, <1>3, ProceedMembers DEF MInv
<1>4. CASE Tick \/ (\E d \in {"verified", "rejected"} : Review(d))
             \/ (\E u \in Users : DeleteUser(u)) \/ (\E w \in Workers : Crash(w))
             \/ UNCHANGED vars
  BY <1>1, <1>4, EnvironmentMembers DEF MInv
<1> QED BY <1>2, <1>3, <1>4 DEF Next

LEMMA Membership == Spec => []MInv
BY MembersInit, MembersStep, PTL DEF Spec

(* However invitations, removals and deletions of accounts and of the company overlap: a
   user is a member once, and only while the company and the account exist. *)
THEOREM MembershipSound == Spec => []MembersExact
<1>1. MInv => MembersExact
  BY DEF MInv, TableOK
<1> QED BY <1>1, Membership, PTL

(* The company keeps its one owner until that account is deleted, or the company is and
   an edit brings it back. *)
THEOREM OneOwner == Spec => []OwnerKept
<1>1. MInv => OwnerKept
  BY DEF MInv, TableOK
<1> QED BY <1>1, Membership, PTL

--------------------------------------------------------------------------------
(* What a step does to the row of the company. *)

\* No column changes; at most the row is gone, or a token was generated for a row that is.
Quiet ==
  /\ row' = row \/ row' = None
  /\ lost' = lost
  /\ tokens' \in {tokens, tokens + 1}
  /\ row' # None => tokens' = tokens

Creates ==
  /\ row = None
  /\ \A v \in Workers : pc'[v] \notin InFlight
  /\ \E p \in Profiles : row' = NewCompany(p, tokens + 1)
  /\ tokens' = tokens + 1
  /\ lost' = lost

\* Request w, of kind k, ends by writing r.
Writes(w, k, r) == pc[w] \in InFlight /\ pc'[w] = "done" /\ kind[w] = k /\ row' = r

Verifies(w) ==
  /\ Writes(w, "verify", [row EXCEPT !.domain_verified = TRUE])
  /\ row # None
  /\ pc[w] = "member" /\ arg[w] = copy[w].token
  /\ UNCHANGED <<tokens, lost>>

Resends(w) ==
  /\ Writes(w, "resend", [row EXCEPT !.token = tokens + 1, !.generated_at = now])
  /\ row # None
  /\ ~is_resend_on_cooldown(copy[w])
  /\ tokens' = tokens + 1
  /\ lost' = lost

Submits(w) ==
  /\ Writes(w, "submit", [row EXCEPT !.status = "pending"])
  /\ row # None
  /\ MaySubmit(copy[w])
  /\ UNCHANGED <<tokens, lost>>

Edits(w) ==
  /\ \E p \in Profiles : Writes(w, "edit", [copy[w] EXCEPT !.profile = p])
  /\ tokens' = tokens
  /\ lost' = lost \cup {c \in TwoTierColumns : row = None \/ row[c] # copy[w][c]}

Reviews ==
  /\ row # None /\ row.status = "pending"
  /\ \E d \in {"verified", "rejected"} : row' = [row EXCEPT !.status = d]
  /\ UNCHANGED <<tokens, lost>>

LEMMA RowStep ==
  ASSUME MInv, [Next]_vars
  PROVE  \/ Quiet \/ Creates \/ Reviews
         \/ \E w \in Workers : Verifies(w) \/ Resends(w) \/ Submits(w) \/ Edits(w)
<1> DEFINE Goal == \/ Quiet \/ Creates \/ Reviews
                   \/ \E w \in Workers : Verifies(w) \/ Resends(w) \/ Submits(w) \/ Edits(w)
<1>t. TypeOK /\ TableOK /\ Removals
  BY DEF MInv, TInv
<1>0. ASSUME UNCHANGED <<row, tokens, lost>> PROVE Goal
  BY <1>0 DEF Quiet
<1>1. ASSUME NEW w \in Workers, NEW u \in Users, NEW p \in Profiles, Create(w, u, p)
      PROVE  Goal
  <2>1. ids = 0 /\ row = None
    BY <1>1, <1>t DEF Create, TableOK, Fresh
  <2>2. \A v \in Workers : pc'[v] \notin InFlight
    BY <2>1, <1>1, <1>t DEF Create, Begin, TypeOK, Removals, RequestOK, InFlight
  <2>3. Creates
    BY <2>1, <2>2, <1>1 DEF Create, Creates
  <2> QED BY <2>3
<1>2. ASSUME NEW w \in Workers, NEW u \in Users, NEW k \in Kinds \ {"none", "create"}, Load(w, k, u)
      PROVE  Goal
  BY <1>0, <1>2 DEF Load, tables
<1>3. ASSUME NEW w \in Workers, Proceed(w)
      PROVE  Goal
  <2> HIDE DEF Goal
  <2>1. CASE \/ CheckMembership(w) \/ LoadAgain(w) \/ DeletionFails(w) \/ ValidateInvitation(w)
             \/ FindMembership(w)
    BY <2>1, <1>0 DEF CheckMembership, LoadAgain, DeletionFails, ValidateInvitation,
                      FindMembership, tables
  <2>2. CASE InsertMember(w) \/ DeleteMembership(w)
    BY <2>2, <1>0 DEF InsertMember, DeleteMembership
  <2>3. CASE VerifyDomain(w)
    <3>1. CASE row' = row
      BY <1>0, <2>3, <3>1 DEF VerifyDomain
    <3>2. CASE row' # row
      <4>1. Verifies(w)
        BY <2>3, <3>2, <1>t DEF VerifyDomain, Save, Verifies, Writes, Goto, TypeOK,
                                TokenMatches, InFlight
      <4> QED BY <4>1 DEF Goal
    <3> QED BY <3>1, <3>2
  <2>4. CASE ResendToken(w)
    <3>1. CASE UNCHANGED <<row, tokens>>
      BY <1>0, <2>4, <3>1 DEF ResendToken
    <3>2. CASE row = None
      <4>1. Quiet
        BY <2>4, <3>2 DEF ResendToken, Save, Quiet
      <4> QED BY <4>1 DEF Goal
    <3>3. CASE row # None /\ ~UNCHANGED <<row, tokens>>
      <4>1. Resends(w)
        BY <2>4, <3>3, <1>t DEF ResendToken, Save, Resends, Writes, Goto, TypeOK, InFlight
      <4> QED BY <4>1 DEF Goal
    <3> QED BY <3>1, <3>2, <3>3
  <2>5. CASE Submit(w)
    <3>1. CASE row' = row
      BY <1>0, <2>5, <3>1 DEF Submit
    <3>2. CASE row' # row
      <4>1. Submits(w)
        BY <2>5, <3>2, <1>t DEF Submit, Save, Submits, Writes, Goto, TypeOK, InFlight
      <4> QED BY <4>1 DEF Goal
    <3> QED BY <3>1, <3>2
  <2>6. CASE SaveEverything(w)
    <3>1. Edits(w)
      BY <2>6, <1>t DEF SaveEverything, Edits, Writes, Goto, TypeOK, InFlight
    <3> QED BY <3>1 DEF Goal
  <2>7. CASE DeleteCompany(w)
    <3>1. Quiet
      BY <2>7 DEF DeleteCompany, Quiet
    <3> QED BY <3>1 DEF Goal
  <2> QED BY <1>3, <2>1, <2>2, <2>3, <2>4, <2>5, <2>6, <2>7 DEF Proceed
<1>4. ASSUME NEW d \in {"verified", "rejected"}, Review(d)
      PROVE  Goal
  <2>1. Reviews
    BY <1>4 DEF Review, Reviewable, Reviews
  <2> QED BY <2>1
<1>5. ASSUME Tick \/ (\E u \in Users : DeleteUser(u)) \/ (\E w \in Workers : Crash(w)) \/ UNCHANGED vars
      PROVE  Goal
  BY <1>0, <1>5 DEF Tick, DeleteUser, Crash, tables, vars
<1> HIDE DEF Goal
<1>6. ASSUME \E w \in Workers : Accept(w) PROVE Goal
  BY <1>1, <1>2, <1>6 DEF Accept
<1>7. ASSUME \E w \in Workers : Proceed(w) PROVE Goal
  BY <1>3, <1>7
<1>8. ASSUME \E d \in {"verified", "rejected"} : Review(d) PROVE Goal
  BY <1>4, <1>8
<1>9. Goal
  BY <1>5, <1>6, <1>7, <1>8 DEF Next
<1> QED BY <1>9 DEF Goal

\* A request in flight still holds the copy it held, or the row as it was before the step.
LEMMA CopyStep ==
  ASSUME TInv, [Next]_vars, NEW v \in Workers, pc'[v] \in InFlight
  PROVE  \/ pc[v] \in InFlight /\ copy'[v] = copy[v]
         \/ row # None /\ copy'[v] = row
<1> DEFINE Goal == \/ pc[v] \in InFlight /\ copy'[v] = copy[v]
                   \/ row # None /\ copy'[v] = row
<1>t. TypeOK
  BY DEF TInv
<1>1. ASSUME NEW w \in Workers, NEW u \in Users, NEW p \in Profiles, Create(w, u, p)
      PROVE  Goal
  BY <1>1, <1>t DEF Create, Begin, TypeOK, InFlight
<1>2. ASSUME NEW w \in Workers, NEW u \in Users, NEW k \in Kinds \ {"none", "create"}, Load(w, k, u)
      PROVE  Goal
  BY <1>2, <1>t DEF Load, Begin, TypeOK, InFlight
<1>3. ASSUME NEW w \in Workers, Proceed(w)
      PROVE  Goal
  <2>1. CASE LoadAgain(w)
    BY <2>1, <1>t DEF LoadAgain, Goto, TypeOK, InFlight
  <2>2. CASE ~LoadAgain(w)
    <3>1. copy' = copy /\ pc[w] \in InFlight /\ \E p \in Answered \cup InFlight : Goto(w, p)
      <4>1. CASE CheckMembership(w) \/ DeletionFails(w) \/ ValidateInvitation(w) \/ FindMembership(w)
        BY <4>1 DEF CheckMembership, DeletionFails, ValidateInvitation, FindMembership, local,
                    Answered, InFlight
      <4>2. CASE VerifyDomain(w) \/ ResendToken(w) \/ Submit(w)
        BY <4>2 DEF VerifyDomain, ResendToken, Submit, Save, local, Answered, InFlight
      <4>3. CASE SaveEverything(w) \/ DeleteCompany(w) \/ InsertMember(w) \/ DeleteMembership(w)
        BY <4>3 DEF SaveEverything, DeleteCompany, InsertMember, DeleteMembership, local,
                    Answered, InFlight
      <4> QED BY <1>3, <2>2, <4>1, <4>2, <4>3 DEF Proceed
    <3> QED BY <3>1, <1>t DEF Goto, TypeOK
  <2> QED BY <2>1, <2>2
<1>4. ASSUME NEW w \in Workers, Crash(w)
      PROVE  Goal
  BY <1>4, <1>t DEF Crash, Goto, TypeOK, local, InFlight
<1>5. ASSUME Tick \/ (\E d \in {"verified", "rejected"} : Review(d))
             \/ (\E u \in Users : DeleteUser(u)) \/ UNCHANGED vars
      PROVE  Goal
  BY <1>5 DEF Tick, Review, DeleteUser, local, vars
<1> HIDE DEF Goal
<1>6. ASSUME \E w \in Workers : Accept(w) PROVE Goal
  BY <1>1, <1>2, <1>6 DEF Accept
<1>7. ASSUME \E w \in Workers : Proceed(w) PROVE Goal
  BY <1>3, <1>7
<1>8. ASSUME \E w \in Workers : Crash(w) PROVE Goal
  BY <1>4, <1>8
<1>9. Goal
  BY <1>5, <1>6, <1>7, <1>8 DEF Next
<1> QED BY <1>9 DEF Goal

--------------------------------------------------------------------------------
(* The two tiers. *)

DomainLost == "domain_verified" \in lost

Tiers(c) == c.status # "unverified" => c.domain_verified \/ DomainLost

\* Copies obey the tiers too, and what they know to be verified is, or was taken back.
DomainKept ==
  \A w \in Workers : pc[w] \in InFlight =>
    /\ Tiers(copy[w])
    /\ row # None /\ copy[w].domain_verified => row.domain_verified \/ DomainLost

VInv == MInv /\ TwoTier /\ DomainKept

LEMMA TiersStep == VInv /\ [Next]_vars => VInv'
<1> SUFFICES ASSUME VInv, [Next]_vars PROVE VInv'
  OBVIOUS
<1>1. MInv' /\ TInv /\ MInv
  BY MembersStep DEF VInv, MInv
<1>2. /\ TypeOK /\ None \notin Company
      /\ \A w \in Workers : pc[w] \in InFlight => copy[w] \in Company
  BY <1>1, CompaniesAssumption DEF TInv, TypeOK, CopiesLoaded, CompaniesAssumption
<1>3. lost \subseteq lost'
  BY <1>1, RowStep DEF Quiet, Creates, Reviews, Verifies, Resends, Submits, Edits
\* The new row obeys the tiers, and keeps a domain verified or says that it does not.
<1>4. /\ TwoTier'
      /\ row' # None /\ row # None /\ row.domain_verified => row'.domain_verified \/ DomainLost'
      /\ row' # None /\ row = None => DomainLost' \/ \A v \in Workers : pc'[v] \notin InFlight
  <2>1. CASE Quiet
    BY <2>1 DEF Quiet, TwoTier, VInv, DomainLost
  <2>2. CASE Creates
    BY <2>2 DEF Creates, TwoTier, NewCompany
  <2>3. CASE Reviews
    <3>1. row \in Company
      BY <2>3, <1>2 DEF Reviews, TypeOK
    <3> QED BY <2>3, <3>1, <1>2 DEF Reviews, TwoTier, VInv, DomainLost, Company
  <2>4. ASSUME NEW w \in Workers, Verifies(w) \/ Resends(w) PROVE <1>4!1 /\ <1>4!2 /\ <1>4!3
    <3>1. row \in Company
      BY <2>4, <1>2 DEF Verifies, Resends, TypeOK
    <3> QED
      BY <2>4, <3>1, <1>2 DEF Verifies, Resends, Writes, TwoTier, VInv, DomainLost, Company
  <2>5. ASSUME NEW w \in Workers, Submits(w) PROVE <1>4!1 /\ <1>4!2 /\ <1>4!3
    <3>1. row \in Company
      BY <2>5, <1>2 DEF Submits, TypeOK
    <3>2. row.domain_verified \/ DomainLost
      BY <2>5 DEF Submits, Writes, MaySubmit, VInv, DomainKept
    <3> QED
      BY <2>5, <3>1, <3>2, <1>2 DEF Submits, Writes, TwoTier, VInv, DomainLost, Company
  <2>6. ASSUME NEW w \in Workers, Edits(w) PROVE <1>4!1 /\ <1>4!2 /\ <1>4!3
    <3>1. copy[w] \in Company /\ Tiers(copy[w])
      BY <2>6, <1>2 DEF Edits, Writes, VInv, DomainKept
    <3>2. /\ row'.domain_verified = copy[w].domain_verified
          /\ row'.status = copy[w].status
      BY <2>6, <3>1 DEF Edits, Writes, Company
    <3>3. /\ row = None => DomainLost'
          /\ row # None /\ row.domain_verified # copy[w].domain_verified => DomainLost'
      BY <2>6 DEF Edits, DomainLost, TwoTierColumns
    <3>4. DomainLost => DomainLost'
      BY <1>3 DEF DomainLost
    <3> QED BY <3>1, <3>2, <3>3, <3>4 DEF TwoTier, Tiers, DomainLost
  <2> QED BY <2>1, <2>2, <2>3, <2>4, <2>5, <2>6, <1>1, RowStep
<1>5. DomainKept'
  <2> SUFFICES ASSUME NEW v \in Workers, pc'[v] \in InFlight
               PROVE  /\ Tiers(copy[v])'
                      /\ row' # None /\ copy'[v].domain_verified => row'.domain_verified \/ DomainLost'
    BY DEF DomainKept
  <2>1. DomainLost => DomainLost'
    BY <1>3 DEF DomainLost
  <2>2. CASE pc[v] \in InFlight /\ copy'[v] = copy[v]
    BY <2>1, <2>2, <1>4 DEF VInv, DomainKept, Tiers
  <2>3. CASE row # None /\ copy'[v] = row
    BY <2>1, <2>3, <1>4 DEF VInv, TwoTier, Tiers, DomainLost
  <2> QED BY <2>2, <2>3, <1>1, CopyStep
<1> QED BY <1>1, <1>4, <1>5 DEF VInv

LEMMA TiersInit == Init => VInv
<1> SUFFICES ASSUME Init PROVE VInv
  OBVIOUS
<1>1. TwoTier
  BY DEF Init, TwoTier, Migrated
<1>2. DomainKept
  BY DEF Init, DomainKept, InFlight
<1> QED BY <1>1, <1>2, MembersInit DEF VInv

(* No company is under review, approved or rejected whose domain was not verified first,
   unless an edit has written an unverified domain back from an older copy. *)
THEOREM TiersInOrder == Spec => []TwoTier
<1>1. VInv => TwoTier
  BY DEF VInv
<1> QED BY <1>1, TiersInit, TiersStep, PTL DEF Spec

--------------------------------------------------------------------------------
(* The decisions. *)

\* The step that DecisionsStand allows.
DecisionStep ==
  row # None /\ row' # None /\ row'.status # row.status
    => \/ <<row.status, row'.status>> \in ReviewMoves
       \/ \E w \in Workers : kind[w] \in {"submit", "edit"} /\ WritesOver(w, "status")

LEMMA StatusStep == MInv /\ [Next]_vars => DecisionStep
<1> SUFFICES ASSUME MInv, [Next]_vars, row # None, row' # None, row'.status # row.status
             PROVE  \/ <<row.status, row'.status>> \in ReviewMoves
                    \/ \E w \in Workers : kind[w] \in {"submit", "edit"} /\ WritesOver(w, "status")
  BY DEF DecisionStep
<1>1. /\ row \in Company
      /\ \A w \in Workers : pc[w] \in InFlight => copy[w] \in Company
  BY DEF MInv, TInv, TypeOK, CopiesLoaded
<1>2. ~Quiet /\ ~Creates
  BY DEF Quiet, Creates
<1>3. ASSUME NEW w \in Workers, Verifies(w) \/ Resends(w) PROVE FALSE
  BY <1>1, <1>3 DEF Verifies, Resends, Writes, Company
<1>4. CASE Reviews
  BY <1>1, <1>4 DEF Reviews, ReviewMoves, Company
<1>5. ASSUME NEW w \in Workers, Submits(w)
      PROVE  \/ <<row.status, row'.status>> \in ReviewMoves
             \/ kind[w] \in {"submit", "edit"} /\ WritesOver(w, "status")
  <2>1. /\ row'.status = "pending" /\ copy[w].status \in {"unverified", "rejected"}
        /\ pc[w] \in InFlight /\ pc'[w] = "done" /\ kind[w] = "submit"
    BY <1>1, <1>5 DEF Submits, Writes, MaySubmit, Company, VerificationStatus
  <2> QED BY <2>1 DEF ReviewMoves, WritesOver
<1>6. ASSUME NEW w \in Workers, Edits(w)
      PROVE  kind[w] \in {"submit", "edit"} /\ WritesOver(w, "status")
  <2>1. /\ row'.status = copy[w].status
        /\ pc[w] \in InFlight /\ pc'[w] = "done" /\ kind[w] = "edit"
    BY <1>1, <1>6 DEF Edits, Writes, Company
  <2> QED BY <2>1 DEF WritesOver
<1> QED BY <1>2, <1>3, <1>4, <1>5, <1>6, RowStep

(* The review of a company: its status moves from a submission to a decision and from a
   rejection to a new submission, or in the write of a request that has not seen the
   status it overwrites, and in no other way. *)
THEOREM DecisionsKept == Spec => DecisionsStand
<1>1. MInv /\ [Next]_vars => [DecisionStep]_vars
  BY StatusStep
<1> QED BY <1>1, Membership, PTL DEF Spec, DecisionsStand, DecisionStep

--------------------------------------------------------------------------------
(* The tokens. *)

SameToken(c, d) == c.token = d.token => c.generated_at = d.generated_at

\* A token is known by its number: rows and copies with the same token agree when it was
\* generated, and the row has the last one unless an edit brought back an older one.
TokensKnown ==
  /\ row # None => row.token <= tokens /\ (row.token = tokens \/ "token" \in lost)
  /\ \A w \in Workers : pc[w] \in InFlight =>
       /\ copy[w].token <= tokens
       /\ row # None => SameToken(copy[w], row)
       /\ \A v \in Workers : pc[v] \in InFlight => SameToken(copy[w], copy[v])

KInv == MInv /\ TokensKnown

\* Where the token of the row comes from.
KeptToken ==
  /\ row # None /\ row' # None
  /\ row'.token = row.token /\ row'.generated_at = row.generated_at
  /\ UNCHANGED <<tokens, lost>>
NewToken ==
  /\ row'.token = tokens + 1 /\ tokens' = tokens + 1
CopiedToken(w) ==
  /\ pc[w] \in InFlight
  /\ row'.token = copy[w].token /\ row'.generated_at = copy[w].generated_at
  /\ tokens' = tokens
  /\ row = None \/ row.token # copy[w].token => "token" \in lost'

LEMMA TokenStep ==
  ASSUME MInv, [Next]_vars, row' # None
  PROVE  KeptToken \/ NewToken \/ \E w \in Workers : CopiedToken(w)
<1>1. /\ tokens \in Nat
      /\ row # None => row \in Company
      /\ \A w \in Workers : pc[w] \in InFlight => copy[w] \in Company
  BY DEF MInv, TInv, TypeOK, CopiesLoaded
<1>2. CASE Quiet
  BY <1>2 DEF Quiet, KeptToken
<1>3. CASE Creates
  BY <1>3 DEF Creates, NewCompany, NewToken
<1>4. CASE Reviews
  BY <1>1, <1>4 DEF Reviews, KeptToken, Company
<1>5. ASSUME NEW w \in Workers, Verifies(w) \/ Submits(w) PROVE KeptToken
  BY <1>1, <1>5 DEF Verifies, Submits, Writes, KeptToken, Company
<1>6. ASSUME NEW w \in Workers, Resends(w) PROVE NewToken
  BY <1>1, <1>6 DEF Resends, Writes, NewToken, Company
<1>7. ASSUME NEW w \in Workers, Edits(w) PROVE CopiedToken(w)
  <2>1. /\ row'.token = copy[w].token /\ row'.generated_at = copy[w].generated_at
        /\ pc[w] \in InFlight /\ tokens' = tokens
    BY <1>1, <1>7 DEF Edits, Writes, Company
  <2>2. row = None \/ row.token # copy[w].token => "token" \in lost'
    BY <1>7 DEF Edits, TwoTierColumns
  <2> QED BY <2>1, <2>2 DEF CopiedToken
<1> QED BY <1>2, <1>3, <1>4, <1>5, <1>6, <1>7, RowStep

LEMMA TokensStep == KInv /\ [Next]_vars => KInv'
<1> SUFFICES ASSUME KInv, [Next]_vars PROVE KInv'
  OBVIOUS
<1>1. MInv' /\ TInv /\ MInv
  BY MembersStep DEF KInv, MInv
<1>2. /\ tokens \in Nat /\ tokens' \in Nat
      /\ row # None => row.token \in Nat
      /\ \A w \in Workers : pc[w] \in InFlight => copy[w].token \in Nat
  <2>1. /\ tokens \in Nat /\ tokens' \in Nat
        /\ row # None => row \in Company
        /\ \A w \in Workers : pc[w] \in InFlight => copy[w] \in Company
    BY <1>1 DEF MInv, TInv, TypeOK, CopiesLoaded
  <2> QED BY <2>1 DEF Company
<1>3. lost \subseteq lost' /\ tokens' >= tokens
  BY <1>1, <1>2, RowStep DEF Quiet, Creates, Reviews, Verifies, Resends, Submits, Edits
\* What was in hand: the row, when there is one, and the copies.
<1> DEFINE Known(c) ==
      /\ c.token \in Nat /\ c.token <= tokens
      /\ row # None => SameToken(c, row)
      /\ \A v \in Workers : pc[v] \in InFlight => SameToken(c, copy[v])
<1>4. /\ row # None => Known(row)
      /\ \A v \in Workers : pc[v] \in InFlight => Known(copy[v])
  BY <1>2 DEF KInv, TokensKnown, SameToken
<1>5. \A v \in Workers : pc'[v] \in InFlight => Known(copy'[v])
  BY <1>1, <1>4, CopyStep
<1>6. \A w, v \in Workers : pc'[w] \in InFlight /\ pc'[v] \in InFlight
                               => SameToken(copy'[w], copy'[v])
  <2> HIDE DEF Known
  <2> SUFFICES ASSUME NEW w \in Workers, NEW v \in Workers, pc'[w] \in InFlight, pc'[v] \in InFlight
               PROVE  SameToken(copy'[w], copy'[v])
    OBVIOUS
  <2>1. Known(copy'[w])
    BY <1>5
  <2> QED BY <2>1, <1>1, CopyStep DEF Known
<1>7. row' # None => row'.token <= tokens' /\ (row'.token = tokens' \/ "token" \in lost')
  <2> SUFFICES ASSUME row' # None
               PROVE  row'.token <= tokens' /\ (row'.token = tokens' \/ "token" \in lost')
    OBVIOUS
  <2>1. CASE KeptToken
    BY <2>1 DEF KeptToken, KInv, TokensKnown
  <2>2. CASE NewToken
    BY <2>2, <1>2 DEF NewToken
  <2>3. ASSUME NEW w \in Workers, CopiedToken(w)
        PROVE  row'.token <= tokens' /\ (row'.token = tokens' \/ "token" \in lost')
    BY <2>3, <1>3 DEF CopiedToken, KInv, TokensKnown
  <2> QED BY <2>1, <2>2, <2>3, <1>1, TokenStep
<1>8. ASSUME row' # None, NEW v \in Workers, pc'[v] \in InFlight PROVE SameToken(copy'[v], row')
  <2>1. Known(copy'[v])
    BY <1>5, <1>8
  <2>2. CASE KeptToken
    BY <2>1, <2>2 DEF KeptToken, SameToken
  <2>3. CASE NewToken
    BY <2>1, <2>3, <1>2 DEF NewToken, SameToken
  <2>4. ASSUME NEW w \in Workers, CopiedToken(w) PROVE SameToken(copy'[v], row')
    BY <2>1, <2>4 DEF CopiedToken, SameToken
  <2> QED BY <2>2, <2>3, <2>4, <1>1, <1>8, TokenStep
<1>9. \A v \in Workers : pc'[v] \in InFlight => copy'[v].token <= tokens'
  BY <1>2, <1>3, <1>5
<1> QED BY <1>1, <1>6, <1>7, <1>8, <1>9 DEF KInv, TokensKnown

LEMMA TokensInit == Init => KInv
<1> SUFFICES ASSUME Init PROVE KInv
  OBVIOUS
<1>1. TokensKnown
  BY DEF Init, TokensKnown, Migrated, InFlight
<1> QED BY <1>1, MembersInit DEF KInv

LEMMA Tokens == Spec => []KInv
BY TokensInit, TokensStep, PTL DEF Spec

\* The step that TokensPaced allows.
PaceStep ==
  row # None /\ row' # None /\ row'.token # row.token
    => \/ row.generated_at = None
       \/ now >= row.generated_at + Cooldown
       \/ \E w \in Workers : kind[w] \in {"resend", "edit"} /\ WritesOver(w, "token")

LEMMA PaceKept == KInv /\ [Next]_vars => PaceStep
<1> SUFFICES ASSUME KInv, [Next]_vars, row # None, row' # None, row'.token # row.token,
                    row.generated_at # None, ~(now >= row.generated_at + Cooldown)
             PROVE  \E w \in Workers : kind[w] \in {"resend", "edit"} /\ WritesOver(w, "token")
  BY DEF PaceStep
<1>1. /\ MInv /\ row \in Company /\ now \in Nat /\ Cooldown \in Nat
      /\ \A w \in Workers : pc[w] \in InFlight => copy[w] \in Company
  BY CompaniesAssumption DEF KInv, MInv, TInv, TypeOK, CopiesLoaded, CompaniesAssumption
<1>2. ~Quiet /\ ~Creates
  BY DEF Quiet, Creates
<1>3. ~Reviews
  BY <1>1 DEF Reviews, Company
<1>4. ASSUME NEW w \in Workers, Verifies(w) \/ Submits(w) PROVE FALSE
  BY <1>1, <1>4 DEF Verifies, Submits, Writes, Company
<1>5. ASSUME NEW w \in Workers, Resends(w)
      PROVE  kind[w] \in {"resend", "edit"} /\ WritesOver(w, "token")
  <2>1. pc[w] \in InFlight /\ pc'[w] = "done" /\ kind[w] = "resend"
        /\ ~is_resend_on_cooldown(copy[w])
    BY <1>5 DEF Resends, Writes
  <2>2. row.generated_at \in Nat
    BY <1>1, CompaniesAssumption DEF Company, Times, CompaniesAssumption
  <2>3. copy[w].generated_at # row.generated_at
    BY <2>1, <2>2, <1>1 DEF is_resend_on_cooldown
  <2>4. copy[w].token # row.token
    BY <2>1, <2>3 DEF KInv, TokensKnown, SameToken
  <2> QED BY <2>1, <2>4 DEF WritesOver
<1>6. ASSUME NEW w \in Workers, Edits(w)
      PROVE  kind[w] \in {"resend", "edit"} /\ WritesOver(w, "token")
  <2>1. /\ row'.token = copy[w].token
        /\ pc[w] \in InFlight /\ pc'[w] = "done" /\ kind[w] = "edit"
    BY <1>1, <1>6 DEF Edits, Writes, Company
  <2> QED BY <2>1 DEF WritesOver
<1> QED BY <1>1, <1>2, <1>3, <1>4, <1>5, <1>6, RowStep

(* The cooldown holds for any cooldown: a token stays for that long, unless a request
   that had loaded the company before that token was there writes another. *)
THEOREM CooldownKept == Spec => TokensPaced
<1>1. KInv /\ [Next]_vars => [PaceStep]_vars
  BY PaceKept
<1> QED BY <1>1, Tokens, PTL DEF Spec, TokensPaced, PaceStep

\* The step that ReplacedTokensVoid allows.
VoidStep ==
  row # None /\ row' # None /\ ~row.domain_verified /\ row'.domain_verified
    => \/ "token" \in lost
       \/ \E w \in Workers :
            \/ kind[w] = "verify" /\ pc[w] = "member" /\ arg[w] = tokens
            \/ WritesOver(w, "token")
            \/ kind[w] = "edit" /\ WritesOver(w, "domain_verified")

LEMMA VoidKept == KInv /\ [Next]_vars => VoidStep
<1> SUFFICES ASSUME KInv, [Next]_vars, row # None, row' # None,
                    ~row.domain_verified, row'.domain_verified, "token" \notin lost
             PROVE  \E w \in Workers :
                      \/ kind[w] = "verify" /\ pc[w] = "member" /\ arg[w] = tokens
                      \/ WritesOver(w, "token")
                      \/ kind[w] = "edit" /\ WritesOver(w, "domain_verified")
  BY DEF VoidStep
<1>1. /\ MInv /\ row \in Company
      /\ \A w \in Workers : pc[w] \in InFlight => copy[w] \in Company
  BY DEF KInv, MInv, TInv, TypeOK, CopiesLoaded
<1>2. ~Quiet /\ ~Creates
  BY DEF Quiet, Creates
<1>3. ~Reviews
  BY <1>1 DEF Reviews, Company
<1>4. ASSUME NEW w \in Workers, Resends(w) \/ Submits(w) PROVE FALSE
  BY <1>1, <1>4 DEF Resends, Submits, Writes, Company
<1>5. ASSUME NEW w \in Workers, Verifies(w)
      PROVE  \/ kind[w] = "verify" /\ pc[w] = "member" /\ arg[w] = tokens
             \/ WritesOver(w, "token")
  <2>1. /\ kind[w] = "verify" /\ pc[w] = "member" /\ arg[w] = copy[w].token
        /\ pc[w] \in InFlight /\ pc'[w] = "done"
    BY <1>5 DEF Verifies, Writes
  <2>2. row.token = tokens
    BY DEF KInv, TokensKnown
  <2> QED BY <2>1, <2>2 DEF WritesOver
<1>6. ASSUME NEW w \in Workers, Edits(w)
      PROVE  kind[w] = "edit" /\ WritesOver(w, "domain_verified")
  <2>1. /\ row'.domain_verified = copy[w].domain_verified
        /\ pc[w] \in InFlight /\ pc'[w] = "done" /\ kind[w] = "edit"
    BY <1>1, <1>6 DEF Edits, Writes, Company
  <2> QED BY <2>1 DEF WritesOver
<1> QED BY <1>1, <1>2, <1>3, <1>4, <1>5, <1>6, RowStep

(* Only the last token generated verifies the domain, unless the verification overlaps
   with its replacement or an edit has brought an older token back. *)
THEOREM OldTokensVoid == Spec => ReplacedTokensVoid
<1>1. KInv /\ [Next]_vars => [VoidStep]_vars
  BY VoidKept
<1> QED BY <1>1, Tokens, PTL DEF Spec, ReplacedTokensVoid, VoidStep

--------------------------------------------------------------------------------
(* Every exception that the properties above make is for a request whose company changed
   between its load and its save.  A lock on the row from the one to the other would
   leave none: no two requests that may write the company are in flight at once, and a
   review waits for the one that is. *)
Holds(w) == pc[w] \in InFlight /\ kind[w] \in {"verify", "resend", "submit", "edit", "delete"}

Exclusive == \A v, w \in Workers : v # w => ~(Holds(v) /\ Holds(w))

ReviewWaits ==
  [][\A d \in {"verified", "rejected"} : Review(d) => \A w \in Workers : ~Holds(w)]_vars

\* What a request that may write has loaded is what the table has.
CopyCurrent == lost = {} /\ \A w \in Workers : Holds(w) => copy[w] = row

CurInv == KInv /\ CopyCurrent

LEMMA KindKept ==
  ASSUME TInv, [Next]_vars, NEW v \in Workers, pc[v] \in InFlight
  PROVE  kind'[v] = kind[v]
<1>1. TypeOK
  BY DEF TInv
<1>2. ASSUME NEW w \in Workers, NEW k, NEW u, NEW a, NEW c, NEW p, Begin(w, k, u, a, c, p)
      PROVE  kind'[v] = kind[v]
  BY <1>1, <1>2 DEF Begin, TypeOK, Answered, InFlight
<1>3. ASSUME NEW w \in Workers, Accept(w) PROVE kind'[v] = kind[v]
  BY <1>2, <1>3 DEF Accept, Create, Load
<1>4. ASSUME NEW w \in Workers, Proceed(w) \/ Crash(w) PROVE kind' = kind
  BY <1>4 DEF Proceed, Crash, CheckMembership, VerifyDomain, ResendToken, Submit, Save,
              LoadAgain, SaveEverything, DeleteCompany, DeletionFails, ValidateInvitation,
              InsertMember, FindMembership, DeleteMembership, local
<1>5. ASSUME Tick \/ (\E d \in {"verified", "rejected"} : Review(d))
             \/ (\E u \in Users : DeleteUser(u)) \/ UNCHANGED vars
      PROVE  kind' = kind
  BY <1>5 DEF Tick, Review, DeleteUser, local, vars
<1> QED BY <1>3, <1>4, <1>5 DEF Next

\* A request that may write held its copy before the step, or has just loaded the row.
LEMMA HolderStep ==
  ASSUME TInv, [Next]_vars, NEW v \in Workers, Holds(v)'
  PROVE  (Holds(v) /\ copy'[v] = copy[v]) \/ copy'[v] = row
BY CopyStep, KindKept DEF Holds

\* Who changes the row: the creation, a review, or a request in flight, which ends.
LEMMA RowWriter ==
  ASSUME MInv, [Next]_vars, row' # row
  PROVE  \/ \A v \in Workers : pc'[v] \notin InFlight
         \/ \E d \in {"verified", "rejected"} : Review(d)
         \/ \E w \in Workers : Holds(w) /\ pc' = [pc EXCEPT ![w] = "done"]
<1> DEFINE Goal == \/ \A v \in Workers : pc'[v] \notin InFlight
                   \/ \E d \in {"verified", "rejected"} : Review(d)
                   \/ \E w \in Workers : Holds(w) /\ pc' = [pc EXCEPT ![w] = "done"]
<1>1. ASSUME NEW w \in Workers, NEW u \in Users, NEW p \in Profiles, Create(w, u, p)
      PROVE  Goal
  <2>1. ids = 0
    BY <1>1 DEF Create
  <2>2. \A v \in Workers : pc[v] \notin InFlight
    BY <2>1 DEF MInv, Removals, RequestOK
  <2>3. \A v \in Workers : pc'[v] \notin InFlight
    BY <1>1, <2>2 DEF Create, Begin, MInv, TInv, TypeOK, InFlight
  <2> QED BY <2>3
<1>2. ASSUME NEW w \in Workers, Proceed(w)
      PROVE  Goal
  <2>1. CASE VerifyDomain(w) \/ ResendToken(w) \/ Submit(w)
    <3>1. Holds(w) /\ pc' = [pc EXCEPT ![w] = "done"]
      BY <2>1 DEF VerifyDomain, ResendToken, Submit, Save, Goto, Holds, InFlight
    <3> QED BY <3>1
  <2>2. CASE SaveEverything(w) \/ DeleteCompany(w)
    <3>1. Holds(w) /\ pc' = [pc EXCEPT ![w] = "done"]
      BY <2>2 DEF SaveEverything, DeleteCompany, Goto, Holds, InFlight
    <3> QED BY <3>1
  <2> HIDE DEF Goal
  <2> QED
    BY <1>2, <2>1, <2>2 DEF Proceed, CheckMembership, LoadAgain, DeletionFails,
         ValidateInvitation, FindMembership, InsertMember, DeleteMembership, tables
<1>3. \A w \in Workers : ~Crash(w) /\ \A u \in Users, k \in Kinds : ~Load(w, k, u)
  BY DEF Crash, Load, tables
<1>4. ~Tick /\ \A u \in Users : ~DeleteUser(u)
  BY DEF Tick, DeleteUser, tables
<1> HIDE DEF Goal
<1>5. ASSUME NEW w \in Workers, Accept(w) PROVE Goal
  BY <1>1, <1>3, <1>5 DEF Accept
<1>6. (\E d \in {"verified", "rejected"} : Review(d)) => Goal
  BY DEF Goal
<1>7. Goal
  BY <1>2, <1>3, <1>4, <1>5, <1>6 DEF Next, vars
<1> QED BY <1>7 DEF Goal

LEMMA CurrentStep ==
  ASSUME CurInv, Exclusive, [Next]_vars,
         \A d \in {"verified", "rejected"} : Review(d) => \A w \in Workers : ~Holds(w)
  PROVE  CurInv'
<1>1. MInv /\ TInv /\ pc \in [Workers -> Answered \cup InFlight]
  BY DEF CurInv, KInv, MInv, TInv, TypeOK
<1>2. lost' = {}
  <2>1. ASSUME NEW w \in Workers, Edits(w) PROVE lost' = {}
    <3>1. copy[w] = row /\ row # None
      BY <1>1, <2>1 DEF Edits, Writes, CurInv, CopyCurrent, Holds, TInv, CopiesLoaded
    <3> QED BY <2>1, <3>1 DEF Edits, CurInv, CopyCurrent
  <2> QED
    BY <1>1, <2>1, RowStep
    DEF Quiet, Creates, Reviews, Verifies, Resends, Submits, CurInv, CopyCurrent
<1>3. ASSUME NEW v \in Workers, Holds(v)' PROVE copy'[v] = row'
  <2>1. copy'[v] = row \/ (Holds(v) /\ copy'[v] = copy[v])
    BY <1>1, <1>3, HolderStep
  <2>2. CASE row' = row
    BY <2>1, <2>2 DEF CurInv, CopyCurrent
  <2>3. CASE row' # row
    <3>1. pc'[v] \in InFlight
      BY <1>3 DEF Holds
    <3>2. ASSUME NEW d \in {"verified", "rejected"}, Review(d) PROVE FALSE
      <4>1. UNCHANGED <<pc, local>> /\ ~Holds(v)
        BY <3>2 DEF Review
      <4> QED BY <1>3, <4>1 DEF Holds, local
    <3>3. ASSUME NEW w \in Workers, Holds(w), pc' = [pc EXCEPT ![w] = "done"] PROVE FALSE
      <4>1. v # w /\ pc'[v] = pc[v]
        BY <1>1, <3>1, <3>3 DEF InFlight
      <4>2. kind'[v] = kind[v]
        BY <1>1, <3>1, <4>1, KindKept
      <4>3. Holds(v)
        BY <1>3, <4>1, <4>2 DEF Holds
      <4> QED BY <3>3, <4>1, <4>3 DEF Exclusive
    <3> QED BY <1>1, <2>3, <3>1, <3>2, <3>3, RowWriter
  <2> QED BY <2>2, <2>3
<1>4. KInv'
  BY TokensStep DEF CurInv
<1> QED BY <1>2, <1>3, <1>4 DEF CurInv, CopyCurrent

\* The properties without their exceptions.
StrictTiers == row # None /\ row.status # "unverified" => row.domain_verified

StrictDecision ==
  row # None /\ row' # None /\ row'.status # row.status
    => <<row.status, row'.status>> \in ReviewMoves

StrictPace ==
  row # None /\ row' # None /\ row'.token # row.token
    => row.generated_at = None \/ now >= row.generated_at + Cooldown

StrictVoid ==
  row # None /\ row' # None /\ ~row.domain_verified /\ row'.domain_verified
    => \E w \in Workers : kind[w] = "verify" /\ pc[w] = "member" /\ arg[w] = tokens

StaysDeleted == ids > 0 /\ row = None => row' = None

LEMMA StrictStep ==
  ASSUME CurInv, [Next]_vars
  PROVE  StrictDecision /\ StrictPace /\ StrictVoid /\ StaysDeleted
<1>1. /\ MInv /\ KInv /\ TypeOK /\ lost = {} /\ ids \in Nat
      /\ row # None => row \in Company
      /\ \A w \in Workers : Holds(w) => copy[w] = row /\ row # None
  BY DEF CurInv, KInv, MInv, TInv, TypeOK, CopyCurrent, Holds, CopiesLoaded
<1>2. \A w \in Workers : kind[w] \in {"verify", "resend", "submit", "edit"}
        => ~WritesOver(w, "status") /\ ~WritesOver(w, "token")
  BY <1>1 DEF WritesOver, Holds
<1>3. StrictDecision
  BY <1>1, <1>2, StatusStep DEF DecisionStep, StrictDecision
<1>4. StrictPace
  BY <1>1, <1>2, PaceKept DEF PaceStep, StrictPace
<1>5. StrictVoid
  <2> SUFFICES ASSUME row # None, row' # None, ~row.domain_verified, row'.domain_verified
               PROVE  \E w \in Workers : kind[w] = "verify" /\ pc[w] = "member" /\ arg[w] = tokens
    BY DEF StrictVoid
  <2>1. ~Quiet /\ ~Creates /\ ~Reviews
    BY <1>1 DEF Quiet, Creates, Reviews, Company
  <2>2. ASSUME NEW w \in Workers, Resends(w) \/ Submits(w) PROVE FALSE
    BY <1>1, <2>2 DEF Resends, Submits, Writes, Company
  <2>3. ASSUME NEW w \in Workers, Edits(w) PROVE FALSE
    <3>1. copy[w] = row
      BY <1>1, <2>3 DEF Edits, Writes, Holds
    <3> QED BY <1>1, <2>3, <3>1 DEF Edits, Writes, Company
  <2>4. ASSUME NEW w \in Workers, Verifies(w)
        PROVE  kind[w] = "verify" /\ pc[w] = "member" /\ arg[w] = tokens
    <3>1. copy[w] = row
      BY <1>1, <2>4 DEF Verifies, Writes, Holds
    <3> QED BY <1>1, <2>4, <3>1 DEF Verifies, Writes, KInv, TokensKnown
  <2> QED BY <1>1, <2>1, <2>2, <2>3, <2>4, RowStep
<1>6. StaysDeleted
  <2> SUFFICES ASSUME ids > 0, row = None, row' # None PROVE FALSE
    BY DEF StaysDeleted
  <2>1. \A w \in Workers, u \in Users, p \in Profiles : ~Create(w, u, p)
    BY <1>1 DEF Create
  <2>2. \A w \in Workers : ~Holds(w)
    BY <1>1
  <2>3. \A w \in Workers : ~SaveEverything(w)
    BY <2>2 DEF SaveEverything, Holds, InFlight
  <2> QED
    BY <2>1, <2>3 DEF Next, Accept, Load, Proceed, CheckMembership, VerifyDomain, ResendToken,
       Submit, Save, LoadAgain, DeleteCompany, DeletionFails, ValidateInvitation, InsertMember,
       FindMembership, DeleteMembership, Crash, Tick, Review, Reviewable, DeleteUser, tables, vars
<1> QED BY <1>3, <1>4, <1>5, <1>6

(* With a lock on the company from load to save, and nothing else changed, the exceptions
   go: what was submitted has a verified domain, decisions stand, the cooldown holds,
   only the last token verifies, and a deleted company stays deleted, for any number of
   workers.  Without the lock each of the five is false. *)
THEOREM CompanyLockSuffices ==
  Spec /\ []Exclusive /\ ReviewWaits =>
    /\ []StrictTiers
    /\ [][StrictDecision]_vars
    /\ [][StrictPace]_vars
    /\ [][StrictVoid]_vars
    /\ [][StaysDeleted]_vars
<1> DEFINE Waits == \A d \in {"verified", "rejected"} : Review(d) => \A w \in Workers : ~Holds(w)
<1>1. Init => CurInv
  <2>1. Init => CopyCurrent
    BY DEF Init, CopyCurrent, Holds, InFlight
  <2> QED BY <2>1, TokensInit DEF CurInv
<1>2. CurInv /\ Exclusive /\ [Next]_vars /\ [Waits]_vars => CurInv'
  <2> SUFFICES ASSUME CurInv, Exclusive, [Next]_vars, [Waits]_vars PROVE CurInv'
    OBVIOUS
  <2>1. CASE Waits
    BY <2>1, CurrentStep
  <2>2. CASE UNCHANGED vars
    <3>1. KInv'
      BY TokensStep DEF CurInv
    <3> QED BY <2>2, <3>1 DEF vars, CurInv, CopyCurrent, Holds
  <2> QED BY <2>1, <2>2
<1>3. CurInv /\ [Next]_vars
        => [StrictDecision]_vars /\ [StrictPace]_vars /\ [StrictVoid]_vars /\ [StaysDeleted]_vars
  BY StrictStep
<1>4. VInv /\ CurInv => StrictTiers
  BY DEF VInv, TwoTier, CurInv, CopyCurrent, StrictTiers
<1> QED
  BY <1>1, <1>2, <1>3, <1>4, TiersInit, TiersStep, PTL DEF Spec, ReviewWaits
================================================================================
