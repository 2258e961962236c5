----------------------------- MODULE CoopProofs -----------------------------
(***************************************************************************)
(* The co-op's partners, for any number of members, investments, requests, *)
(* sales and payers: votes, rights and the equity account rest on          *)
(* confirmed capital (Membership), refunds add up and a store console      *)
(* never overpays (Settlement).                                            *)
(*                                                                         *)
(* The inductive invariants say what each request still relies on.  A      *)
(* request that was not overtaken has read what is still true: a           *)
(* finalization that no capital is open, a refund that it was not paid, a  *)
(* change inside its transaction the sum that it will leave behind, a      *)
(* payer no more than is accrued.  The settings request holds totals that  *)
(* are right for every member whose capital has not moved since.           *)
(*                                                                         *)
(* Then dividends: how a pool is split, for any capital and patronage, and *)
(* what a run of them leaves behind; and benefits: who wins which line of  *)
(* a cart, for any cart and any benefits.                                  *)
(***************************************************************************)
EXTENDS Membership, Settlement, Dividends, Benefits, TotalsProofs, SequenceTheorems

CapitalOps == {"RECORD", "CONFIRM", "REFUND"}

Served == [op : MemberOps \cup CapitalOps, member : Members, row : Investments \cup {NoRow},
           sum : Nat, inTx : BOOLEAN, overtaken : BOOLEAN]

\* What the sum of a request in its transaction will be when it commits.
SumAfter(r) == Total(Amount, CountedOf(request[r].member, StatusAfter(request[r])))

\* A request knows its member and row, and relies on what is still so.
RequestOK(r) ==
  /\ request[r] \in Served
  /\ memberStatus[request[r].member] # "NONE"
  /\ request[r].op \in CapitalOps =>
       request[r].row \in Investments /\ InvestorOf[request[r].row] = request[r].member
  /\ request[r].inTx => request[r].op \in CapitalOps
  /\ request[r].op = "VOTE" => request[r].member \in qualified
  /\ request[r].op = "FINALIZE" /\ ~request[r].overtaken => ~OpenCapital(request[r].member)
  /\ request[r].op = "REFUND" /\ ~request[r].overtaken => request[r].row \notin refundedAt
  /\ request[r].inTx /\ ~request[r].overtaken => request[r].sum = SumAfter(r)

\* The rows of the capital: only members invest, and what was paid back says so.
CapitalOK ==
  /\ paymentStatus \in [Investments -> {"NONE", "PENDING", "CONFIRMED", "REFUNDED"}]
  /\ refundedAt \subseteq Investments
  /\ payouts \in [Investments -> Nat]
  /\ \A i \in Investments :
       /\ paymentStatus[i] # "NONE" => memberStatus[InvestorOf[i]] # "NONE"
       /\ paymentStatus[i] = "REFUNDED" => i \in refundedAt
       /\ payouts[i] <= IF i \in refundedAt THEN 1 ELSE 0

\* The settings request: the totals it has read are right where capital stayed.
RecomputeOK ==
  \/ recompute = Idle
  \/ /\ recompute.stage = "WRITTEN"
     /\ recompute = [Idle EXCEPT !.stage = "WRITTEN"]
  \/ /\ recompute.stage = "READ"
     /\ recompute \in [stage : {"READ"}, totals : [Members -> Nat], overtaken : SUBSET Members]
     /\ \A m \in Members :
          /\ m \notin recompute.overtaken => recompute.totals[m] = Counted(m)
          /\ recompute.totals[m] >= threshold => m \in qualified
          /\ memberStatus[m] = "NONE" => recompute.totals[m] = 0

\* Rights and votes belong to those who have, or had, the capital.
VotesOK ==
  /\ hasVotingRights \cup voted \subseteq qualified /\ qualified \subseteq Members
  /\ \A m \in Members : Counted(m) >= threshold => m \in qualified

CapitalInv ==
  /\ MembershipTypeOK
  /\ CapitalOK
  /\ \A r \in Requests : request[r] # Nothing => RequestOK(r)
  /\ RecomputeOK
  /\ VotesOK
  /\ RightsFollowCapital
  /\ EquityMatchesCapital

-----------------------------------------------------------------------------
(* Capital added up *)

\* The rows that count are finitely many amounts, so they add up to a natural.
LEMMA CountedType ==
  ASSUME NEW m, NEW st
  PROVE  /\ CountedOf(m, st) \in SUBSET Investments
         /\ Total(Amount, CountedOf(m, st)) \in Nat
<1>1. CountedOf(m, st) \in SUBSET Investments
  BY DEF CountedOf
<1>2. IsFiniteSet(CountedOf(m, st))
  BY <1>1, FS_Subset, MembershipAssumption
<1>3. NaturalOn(Amount, CountedOf(m, st))
  BY <1>1, MembershipAssumption DEF NaturalOn
<1> QED
  BY <1>1, <1>2, <1>3, TotalNatural

\* Who has no open capital has none that counts.
LEMMA NoneCounted ==
  ASSUME NEW m, ~OpenCapital(m)
  PROVE  Counted(m) = 0
<1>1. \A x \in CountedOf(m, paymentStatus) : Amount[x] = 0
  BY DEF OpenCapital
<1> QED
  BY <1>1, TotalZero DEF Counted

\* The capital of a member depends on the rows alone.
LEMMA RowsDecide ==
  ASSUME UNCHANGED <<paymentStatus, refundedAt>>
  PROVE  \A m : Counted(m)' = Counted(m) /\ OpenCapital(m)' = OpenCapital(m)
BY DEF Counted, OpenCapital, CountedOf

\* A request that goes on relies on the rows, its member and who qualified.
LEMMA RequestAlone ==
  ASSUME NEW q \in Requests, RequestOK(q), request'[q] = request[q],
         UNCHANGED <<paymentStatus, refundedAt>>, qualified \subseteq qualified',
         \A m \in Members : memberStatus[m] # "NONE" => memberStatus'[m] # "NONE"
  PROVE  RequestOK(q)'
<1>1. SumAfter(q)' = SumAfter(q)
  BY DEF SumAfter, StatusAfter, CountedOf
<1>2. request[q].member \in Members
  BY DEF RequestOK, Served
<1> QED
  BY <1>1, <1>2, RowsDecide DEF RequestOK

-----------------------------------------------------------------------------
(* Steps that leave capital and rights alone *)

\* Members and requests may change where rows, rights and threshold do not.
LEMMA CapitalStays ==
  ASSUME CapitalInv,
         UNCHANGED <<rightsVars, capitalVars, settingsVars, recompute, ghostVars>>,
         memberStatus' \in [Members -> {"NONE", "PENDING", "ACTIVE", "SUSPENDED", "WITHDRAWN"}],
         isEligibleToVote' \subseteq Members,
         \A m \in Members : memberStatus'[m] = "NONE" =>
           memberStatus[m] = "NONE" /\ m \notin isEligibleToVote',
         voted' \subseteq qualified, \A m \in voted' : memberStatus'[m] # "NONE",
         DOMAIN request' = Requests,
         \A q \in Requests : request'[q] # Nothing => RequestOK(q)'
  PROVE  CapitalInv'
<1>1. UNCHANGED <<hasVotingRights, totalInvested, contributed, paymentStatus, refundedAt, payouts,
                  threshold, changes, recompute, qualified, staleAccount, staleRights>>
  BY DEF rightsVars, capitalVars, settingsVars, ghostVars
<1>2. \A m : Counted(m)' = Counted(m)
  BY <1>1, RowsDecide
<1>3. MembershipTypeOK'
  BY <1>1 DEF CapitalInv, MembershipTypeOK
<1>4. CapitalOK'
  BY <1>1, MembershipAssumption DEF CapitalInv, CapitalOK
<1>5. RecomputeOK'
  BY <1>1, <1>2 DEF CapitalInv, RecomputeOK, Idle
<1>6. VotesOK'
  BY <1>1, <1>2 DEF CapitalInv, VotesOK
<1>7. RightsFollowCapital' /\ EquityMatchesCapital'
  BY <1>1, <1>2 DEF CapitalInv, RightsFollowCapital, EquityMatchesCapital, Idle
<1> QED
  BY <1>3, <1>4, <1>5, <1>6, <1>7 DEF CapitalInv

\* createMember and updateMember: nobody ceases to be a member.
LEMMA MemberStepKeeps ==
  ASSUME CapitalInv, NEW m \in Members,
         \/ \E activate \in BOOLEAN : createMember(m, activate)
         \/ \E status \in {"PENDING", "ACTIVE", "SUSPENDED", "WITHDRAWN"}, eligible \in BOOLEAN :
              updateMember(m, status, eligible)
  PROVE  CapitalInv'
<1>1. /\ MembershipTypeOK /\ voted \subseteq qualified /\ voted \subseteq Members
      /\ \A q \in Requests : request[q] # Nothing => RequestOK(q)
  BY DEF CapitalInv, VotesOK
<1>2. /\ UNCHANGED <<rightsVars, capitalVars, settingsVars, recompute, voted, request, ghostVars>>
      /\ memberStatus' \in [Members -> {"NONE", "PENDING", "ACTIVE", "SUSPENDED", "WITHDRAWN"}]
      /\ isEligibleToVote' \subseteq Members
      /\ \A n \in Members : memberStatus'[n] = "NONE" =>
           memberStatus[n] = "NONE" /\ n \notin isEligibleToVote'
      /\ \A n \in Members : memberStatus[n] # "NONE" => memberStatus'[n] # "NONE"
  BY <1>1 DEF createMember, updateMember, MembershipTypeOK
<1>3. \A n \in voted' : memberStatus'[n] # "NONE"
  BY <1>1, <1>2 DEF MembershipTypeOK
<1>4. \A q \in Requests : request'[q] # Nothing => RequestOK(q)'
  <2>1. UNCHANGED <<paymentStatus, refundedAt, qualified>>
    BY <1>2 DEF capitalVars, ghostVars
  <2> QED
    BY <1>1, <1>2, <2>1, RequestAlone
<1> QED
  BY <1>1, <1>2, <1>3, <1>4, CapitalStays DEF MembershipTypeOK

\* What a request that ends leaves to the others.
LEMMA EndsKeeps ==
  ASSUME CapitalInv, NEW r \in Requests, Ends(r), UNCHANGED <<paymentStatus, refundedAt, qualified>>,
         \A m \in Members : memberStatus[m] # "NONE" => memberStatus'[m] # "NONE"
  PROVE  /\ DOMAIN request' = Requests
         /\ \A q \in Requests : request'[q] # Nothing => RequestOK(q)'
<1>1. DOMAIN request = Requests /\ \A q \in Requests : request[q] # Nothing => RequestOK(q)
  BY DEF CapitalInv, MembershipTypeOK
<1>2. /\ DOMAIN request' = Requests /\ request'[r] = Nothing
      /\ \A q \in Requests \ {r} : request'[q] = request[q]
  BY <1>1 DEF Ends
<1>3. ASSUME NEW q \in Requests, request'[q] # Nothing PROVE RequestOK(q)'
  <2>1. request'[q] = request[q] /\ RequestOK(q)
    BY <1>1, <1>2, <1>3
  <2> QED
    BY <2>1, RequestAlone
<1> QED
  BY <1>2, <1>3

\* A request that is in some operation is being served.
LEMMA TheRequest ==
  ASSUME CapitalInv, NEW r \in Requests, request[r] # Nothing
  PROVE  /\ RequestOK(r) /\ request[r] \in Served
         /\ request[r].member \in Members /\ memberStatus[request[r].member] # "NONE"
BY DEF CapitalInv, RequestOK, Served

\* approveMember, requestWithdrawal and castVote write what they were asked to,
\* on readings that may be old; a vote rests on rights its member had.
LEMMA AnswerKeeps ==
  ASSUME CapitalInv, NEW r \in Requests,
         approveMember(r) \/ requestWithdrawal(r) \/ castVote(r)
  PROVE  CapitalInv'
<1>1. request[r] # Nothing /\ request[r].op \in {"APPROVE", "WITHDRAW", "VOTE"} /\ Ends(r)
  BY DEF approveMember, requestWithdrawal, castVote, Nothing
<1>2. PICK m \in Members :
        m = request[r].member /\ memberStatus[m] # "NONE"
        /\ (request[r].op = "VOTE" => m \in qualified)
  BY <1>1, TheRequest DEF RequestOK
<1>3. MembershipTypeOK /\ voted \subseteq qualified /\ voted \subseteq Members
  BY DEF CapitalInv, VotesOK
<1>4. /\ UNCHANGED <<rightsVars, capitalVars, settingsVars, recompute, ghostVars>>
      /\ memberStatus' \in [Members -> {"NONE", "PENDING", "ACTIVE", "SUSPENDED", "WITHDRAWN"}]
      /\ isEligibleToVote' \subseteq Members
      /\ \A n \in Members : memberStatus'[n] = "NONE" =>
           memberStatus[n] = "NONE" /\ n \notin isEligibleToVote'
      /\ \A n \in Members : memberStatus[n] # "NONE" => memberStatus'[n] # "NONE"
      /\ voted' \subseteq voted \cup {m}
      /\ voted' \subseteq qualified
  BY <1>1, <1>2, <1>3 DEF approveMember, requestWithdrawal, castVote, MembershipTypeOK, memberVars
<1>5. \A n \in voted' : memberStatus'[n] # "NONE"
  BY <1>2, <1>3, <1>4 DEF MembershipTypeOK
<1>6. UNCHANGED <<paymentStatus, refundedAt, qualified>>
  BY <1>4 DEF capitalVars, ghostVars
<1> QED
  BY <1>1, <1>4, <1>5, <1>6, EndsKeeps, CapitalStays

\* An operation begins on what it reads: a vote on rights, a finalization on
\* there being no capital, a refund on its not having been paid.
LEMMA BeginKeeps ==
  ASSUME CapitalInv, NEW r \in Requests, NEW op, NEW m \in Members, NEW i, Begin(r, op, m, i),
         \/ op \in CapitalOps /\ i \in Investments /\ InvestorOf[i] = m
         \/ op \in MemberOps /\ i = NoRow
  PROVE  CapitalInv'
<1>1. /\ MembershipTypeOK /\ voted \subseteq qualified /\ hasVotingRights \subseteq qualified
      /\ DOMAIN request = Requests
      /\ \A q \in Requests : request[q] # Nothing => RequestOK(q)
  BY DEF CapitalInv, VotesOK, MembershipTypeOK
<1>2. /\ UNCHANGED <<memberVars, rightsVars, capitalVars, settingsVars, recompute, voted, ghostVars>>
      /\ memberStatus[m] # "NONE" /\ MayBegin(op, m, i)
      /\ DOMAIN request' = Requests /\ \A q \in Requests \ {r} : request'[q] = request[q]
      /\ request'[r] = [op |-> op, member |-> m, row |-> i, sum |-> 0, inTx |-> FALSE,
                        overtaken |-> FALSE]
  BY <1>1 DEF Begin
<1>3. UNCHANGED <<memberStatus, isEligibleToVote, paymentStatus, refundedAt, qualified, voted>>
  BY <1>2 DEF memberVars, capitalVars, ghostVars
<1>4. RequestOK(r)'
  <2>1. request'[r] \in Served
    BY <1>2 DEF Served
  <2>2. op = "VOTE" => m \in qualified
    BY <1>1, <1>2 DEF MayBegin, MayVote
  <2>3. op = "FINALIZE" => ~OpenCapital(m)'
    BY <1>2, <1>3, RowsDecide DEF MayBegin
  <2>4. op = "REFUND" => i \notin refundedAt
    BY <1>2 DEF MayBegin, InvestmentOpen
  <2>5. op \in CapitalOps => i \in Investments /\ InvestorOf[i] = m
    BY DEF CapitalOps, MemberOps
  <2> QED
    BY <1>2, <1>3, <2>1, <2>2, <2>3, <2>4, <2>5 DEF RequestOK
<1>5. \A q \in Requests : request'[q] # Nothing => RequestOK(q)'
  BY <1>1, <1>2, <1>3, <1>4, RequestAlone
<1> QED
  BY <1>1, <1>2, <1>3, <1>5, CapitalStays DEF MembershipTypeOK

\* Inside the transaction the row is changed and the capital added up.
LEMMA ChangeRowKeeps ==
  ASSUME CapitalInv, NEW r \in Requests, ChangeRow(r)
  PROVE  CapitalInv'
<1>1. /\ MembershipTypeOK /\ voted \subseteq qualified /\ DOMAIN request = Requests
      /\ \A q \in Requests : request[q] # Nothing => RequestOK(q)
  BY DEF CapitalInv, VotesOK, MembershipTypeOK
<1>2. /\ request[r] # Nothing /\ request[r].op \in CapitalOps
      /\ UNCHANGED <<memberVars, rightsVars, capitalVars, settingsVars, recompute, voted, ghostVars>>
  BY DEF ChangeRow, CapitalOps, Nothing
<1>3. UNCHANGED <<memberStatus, isEligibleToVote, paymentStatus, refundedAt, qualified, voted>>
  BY <1>2 DEF memberVars, capitalVars, ghostVars
<1>4. RequestOK(r) /\ request[r] \in Served
  BY <1>2, TheRequest
<1>5. PICK sum \in Nat : sum = SumAfter(r)
  BY CountedType DEF SumAfter
<1>6. /\ DOMAIN request' = Requests /\ \A q \in Requests \ {r} : request'[q] = request[q]
      /\ request'[r] = [request[r] EXCEPT !.inTx = TRUE, !.sum = sum]
  BY <1>1, <1>5 DEF ChangeRow, SumAfter
<1>7. /\ request'[r] \in Served /\ request'[r].op = request[r].op /\ request'[r].row = request[r].row
      /\ request'[r].member = request[r].member /\ request'[r].sum = sum
      /\ request'[r].overtaken = request[r].overtaken
  BY <1>4, <1>6 DEF Served
<1>8. SumAfter(r)' = sum
  BY <1>3, <1>5, <1>7 DEF SumAfter, StatusAfter, CountedOf
<1>9. RequestOK(r)'
  BY <1>2, <1>3, <1>4, <1>7, <1>8, RowsDecide DEF RequestOK
<1>10. \A q \in Requests : request'[q] # Nothing => RequestOK(q)'
  BY <1>1, <1>3, <1>6, <1>9, RequestAlone
<1> QED
  BY <1>1, <1>2, <1>3, <1>6, <1>10, CapitalStays DEF MembershipTypeOK

-----------------------------------------------------------------------------
(* Steps that move capital, rights or the threshold *)

\* finalizeWithdrawal takes the rights of a member who, unless it was
\* overtaken, has no capital.
LEMMA finalizeKeeps ==
  ASSUME CapitalInv, NEW r \in Requests, finalizeWithdrawal(r)
  PROVE  CapitalInv'
<1>1. request[r] # Nothing /\ request[r].op = "FINALIZE" /\ Ends(r)
  BY DEF finalizeWithdrawal, Nothing
<1>2. PICK m \in Members, late \in BOOLEAN :
        /\ m = request[r].member /\ memberStatus[m] # "NONE" /\ late = request[r].overtaken
        /\ (~late => Counted(m) = 0)
  BY <1>1, TheRequest, NoneCounted DEF RequestOK, Served
<1>3. /\ MembershipTypeOK /\ VotesOK
      /\ UNCHANGED <<totalInvested, contributed, paymentStatus, refundedAt, payouts, threshold,
                     changes, recompute, voted, qualified, staleAccount>>
      /\ hasVotingRights' = hasVotingRights \ {m}
      /\ staleRights' = IF late THEN staleRights \cup {m} ELSE staleRights
      /\ isEligibleToVote' = isEligibleToVote \ {m}
      /\ memberStatus' = [memberStatus EXCEPT ![m] = "WITHDRAWN"]
  BY <1>2 DEF finalizeWithdrawal, CapitalInv, capitalVars, settingsVars
<1>4. \A n : Counted(n)' = Counted(n)
  BY <1>3, RowsDecide
<1>5. \A n \in Members : /\ memberStatus[n] # "NONE" => memberStatus'[n] # "NONE"
                         /\ memberStatus'[n] = "NONE" => memberStatus[n] = "NONE"
  BY <1>3 DEF MembershipTypeOK
<1>6. DOMAIN request' = Requests /\ \A q \in Requests : request'[q] # Nothing => RequestOK(q)'
  BY <1>1, <1>3, <1>5, EndsKeeps
<1>7. MembershipTypeOK'
  BY <1>3, <1>5, <1>6 DEF MembershipTypeOK, VotesOK
<1>8. CapitalOK'
  BY <1>3, <1>5, MembershipAssumption DEF CapitalInv, CapitalOK
<1>9. RecomputeOK'
  BY <1>3, <1>4, <1>5 DEF CapitalInv, RecomputeOK, Idle
<1>10. VotesOK'
  BY <1>3, <1>4 DEF VotesOK
<1>11. RightsFollowCapital'
  <2>1. threshold \in Nat \ {0}
    BY <1>3, MembershipAssumption DEF MembershipTypeOK
  <2>2. Idle' = Idle
    BY DEF Idle
  <2>3. ASSUME recompute = Idle, NEW n \in Members, n \notin staleRights'
        PROVE  totalInvested[n] = Counted(n) /\ (n \in hasVotingRights' <=> Counted(n) >= threshold)
    <3>1. n \notin staleRights /\ (n = m => ~late)
      BY <1>3, <2>3
    <3>2. totalInvested[n] = Counted(n) /\ (n \in hasVotingRights <=> Counted(n) >= threshold)
      BY <2>3, <3>1 DEF CapitalInv, RightsFollowCapital
    <3> QED
      BY <1>2, <1>3, <2>1, <3>1, <3>2
  <2> QED
    BY <1>3, <1>4, <2>2, <2>3 DEF RightsFollowCapital
<1>12. EquityMatchesCapital'
  BY <1>3, <1>4 DEF CapitalInv, EquityMatchesCapital
<1> QED
  BY <1>6, <1>7, <1>8, <1>9, <1>10, <1>11, <1>12 DEF CapitalInv

\* An investment that is not paid yet counts for nothing.
LEMMA recordPendingKeeps ==
  ASSUME CapitalInv, NEW i \in Investments, recordPending(i)
  PROVE  CapitalInv'
<1>1. /\ MembershipTypeOK /\ CapitalOK /\ VotesOK /\ memberStatus[InvestorOf[i]] # "NONE"
      /\ \A q \in Requests : request[q] # Nothing => RequestOK(q) /\ request[q].row # i
      /\ UNCHANGED <<memberStatus, isEligibleToVote, hasVotingRights, totalInvested, contributed,
                     refundedAt, payouts, threshold, changes, recompute, voted, request, qualified,
                     staleAccount, staleRights>>
      /\ paymentStatus[i] = "NONE" /\ paymentStatus' = [paymentStatus EXCEPT ![i] = "PENDING"]
  BY DEF recordPending, CapitalInv, memberVars, rightsVars, settingsVars, ghostVars
<1>2. paymentStatus \in [Investments -> {"NONE", "PENDING", "CONFIRMED", "REFUNDED"}]
  BY <1>1 DEF CapitalOK
<1>3. \A m : CountedOf(m, paymentStatus)' = CountedOf(m, paymentStatus)
  BY <1>1, <1>2 DEF CountedOf
<1>4. \A m : Counted(m)' = Counted(m) /\ OpenCapital(m)' = OpenCapital(m)
  BY <1>3 DEF Counted, OpenCapital
<1>5. ASSUME NEW q \in Requests, request'[q] # Nothing PROVE RequestOK(q)'
  <2>1. RequestOK(q) /\ request[q].row # i /\ request'[q] = request[q]
    BY <1>1, <1>5
  <2>2. request[q].inTx => SumAfter(q)' = SumAfter(q)
    <3> SUFFICES ASSUME request[q].inTx PROVE SumAfter(q)' = SumAfter(q)
      OBVIOUS
    <3>1. request[q].row \in Investments
      BY <2>1 DEF RequestOK
    <3>2. \A j \in Investments : StatusAfter(request[q])'[j] = "CONFIRMED" <=>
                                   StatusAfter(request[q])[j] = "CONFIRMED"
      BY <1>1, <1>2, <2>1, <3>1 DEF StatusAfter
    <3>3. CountedOf(request[q].member, StatusAfter(request[q]))' =
            CountedOf(request[q].member, StatusAfter(request[q]))
      BY <1>1, <2>1, <3>2 DEF CountedOf
    <3> QED
      BY <2>1, <3>3 DEF SumAfter
  <2> QED
    BY <1>1, <1>4, <2>1, <2>2 DEF RequestOK
<1>6. MembershipTypeOK'
  BY <1>1 DEF MembershipTypeOK
<1>7. CapitalOK'
  BY <1>1, <1>2, MembershipAssumption DEF CapitalOK
<1>8. RecomputeOK' /\ VotesOK'
  BY <1>1, <1>4 DEF CapitalInv, RecomputeOK, VotesOK, Idle
<1>9. RightsFollowCapital' /\ EquityMatchesCapital'
  BY <1>1, <1>4 DEF CapitalInv, RightsFollowCapital, EquityMatchesCapital, Idle
<1> QED
  BY <1>5, <1>6, <1>7, <1>8, <1>9 DEF CapitalInv

\* The three steps of updateCooperativeSettings.
LEMMA SettingsKeep ==
  ASSUME CapitalInv,
         \/ \E amount \in Thresholds : updateCooperativeSettings(amount)
         \/ ReadAllTotals
         \/ WriteAllRights
  PROVE  CapitalInv'
<1>1. /\ MembershipTypeOK /\ CapitalOK /\ VotesOK /\ RecomputeOK
      /\ RightsFollowCapital /\ EquityMatchesCapital
      /\ \A q \in Requests : request[q] # Nothing => RequestOK(q)
  BY DEF CapitalInv
<1>2. /\ UNCHANGED <<memberStatus, isEligibleToVote, contributed, paymentStatus, refundedAt, payouts,
                     voted, request, staleAccount>>
      /\ qualified \subseteq qualified'
  BY DEF updateCooperativeSettings, ReadAllTotals, WriteAllRights, memberVars, rightsVars,
         capitalVars, settingsVars, ghostVars
<1>3. \A m : Counted(m)' = Counted(m)
  BY <1>2, RowsDecide
<1>4. \A m \in Members : Counted(m) \in Nat
  BY CountedType DEF Counted
<1>5. \A q \in Requests : request'[q] # Nothing => RequestOK(q)'
  BY <1>1, <1>2, RequestAlone
<1>6. CapitalOK' /\ EquityMatchesCapital'
  BY <1>1, <1>2, <1>3, MembershipAssumption DEF CapitalOK, EquityMatchesCapital
<1>7. threshold \in Nat \ {0}
  BY <1>1, MembershipAssumption DEF MembershipTypeOK
<1>8. ASSUME NEW amount \in Thresholds, updateCooperativeSettings(amount) PROVE CapitalInv'
  <2>1. /\ threshold' = amount /\ changes' = changes + 1 /\ changes < MaxChanges
        /\ recompute' = [Idle EXCEPT !.stage = "WRITTEN"]
        /\ qualified' = qualified \cup {m \in Members : Counted(m) >= amount}
        /\ UNCHANGED <<hasVotingRights, totalInvested, staleRights>>
    BY <1>8 DEF updateCooperativeSettings, rightsVars
  <2>2. MembershipTypeOK'
    BY <1>1, <1>2, <2>1, MembershipAssumption DEF MembershipTypeOK
  <2>3. recompute'.stage = "WRITTEN" /\ RecomputeOK'
    BY <2>1 DEF RecomputeOK, Idle
  <2>4. VotesOK'
    BY <1>1, <1>2, <1>3, <2>1 DEF VotesOK
  <2>5. RightsFollowCapital'
    BY <2>3 DEF RightsFollowCapital, Idle
  <2> QED
    BY <1>5, <1>6, <2>2, <2>3, <2>4, <2>5 DEF CapitalInv
<1>9. CASE ReadAllTotals
  <2>1. /\ UNCHANGED <<hasVotingRights, totalInvested, staleRights, threshold, changes, qualified>>
        /\ recompute.stage = "WRITTEN"
        /\ recompute' = [recompute EXCEPT !.stage = "READ", !.totals = [m \in Members |-> Counted(m)]]
    BY <1>9 DEF ReadAllTotals, rightsVars, settingsVars, ghostVars
  <2>2. PICK totals \in [Members -> Nat] :
          /\ recompute' = [stage |-> "READ", totals |-> totals, overtaken |-> {}]
          /\ \A m \in Members : totals[m] = Counted(m)
    <3>1. recompute = [stage |-> "WRITTEN", totals |-> [m \in Members |-> 0], overtaken |-> {}]
      BY <1>1, <2>1 DEF RecomputeOK, Idle
    <3>2. [m \in Members |-> Counted(m)] \in [Members -> Nat]
      BY <1>4
    <3> QED
      BY <2>1, <3>1, <3>2
  <2>3. MembershipTypeOK' /\ VotesOK'
    BY <1>1, <1>2, <1>3, <2>1 DEF MembershipTypeOK, VotesOK
  <2>4. \A m \in Members : memberStatus[m] = "NONE" => Counted(m) = 0
    <3>1. \A m \in Members : memberStatus[m] = "NONE" => ~OpenCapital(m)
      BY <1>1 DEF CapitalOK, OpenCapital, CountedOf
    <3> QED
      BY <3>1, NoneCounted
  <2>5. RecomputeOK'
    <3>1. /\ recompute' \in [stage : {"READ"}, totals : [Members -> Nat], overtaken : SUBSET Members]
          /\ recompute'.stage = "READ" /\ recompute'.totals = totals
      BY <2>2
    <3>2. \A m \in Members :
            /\ totals[m] = Counted(m)'
            /\ totals[m] >= threshold' => m \in qualified'
            /\ memberStatus'[m] = "NONE" => totals[m] = 0
      BY <1>1, <1>2, <1>3, <2>1, <2>2, <2>4 DEF VotesOK
    <3> QED
      BY <3>1, <3>2 DEF RecomputeOK
  <2>6. RightsFollowCapital'
    BY <2>2 DEF RightsFollowCapital, Idle
  <2> QED
    BY <1>5, <1>6, <2>3, <2>5, <2>6 DEF CapitalInv
<1>10. CASE WriteAllRights
  <2>1. /\ UNCHANGED <<threshold, changes, qualified>> /\ recompute.stage = "READ"
        /\ totalInvested' = recompute.totals /\ recompute' = Idle
        /\ hasVotingRights' = {m \in Members : recompute.totals[m] >= threshold}
        /\ staleRights' = recompute.overtaken
    BY <1>10 DEF WriteAllRights, settingsVars, RightsAfter, VotingRights
  <2>2. /\ recompute.totals \in [Members -> Nat]
        /\ \A m \in Members :
             /\ m \notin recompute.overtaken => recompute.totals[m] = Counted(m)
             /\ recompute.totals[m] >= threshold => m \in qualified
             /\ memberStatus[m] = "NONE" => recompute.totals[m] = 0
    BY <1>1, <2>1 DEF RecomputeOK, Idle
  <2>3. MembershipTypeOK'
    BY <1>1, <1>2, <1>7, <2>1, <2>2 DEF MembershipTypeOK
  <2>4. RecomputeOK' /\ VotesOK'
    BY <1>1, <1>2, <1>3, <2>1, <2>2 DEF RecomputeOK, VotesOK, Idle
  <2>5. RightsFollowCapital'
    BY <1>3, <2>1, <2>2 DEF RightsFollowCapital
  <2> QED
    BY <1>5, <1>6, <2>3, <2>4, <2>5 DEF CapitalInv
<1> QED
  BY <1>8, <1>9, <1>10

\* What CommitCapital does to the rows: one row of the member changes, so the
\* capital of the member is the sum it has added up, that of others stays.
LEMMA CommitEffect ==
  ASSUME CapitalInv, NEW r \in Requests, CommitCapital(r)
  PROVE  \E m \in Members, i \in Investments, x \in {"CONFIRMED", "REFUNDED"} :
           /\ m = request[r].member /\ i = request[r].row /\ InvestorOf[i] = m
           /\ memberStatus[m] # "NONE" /\ request[r] # Nothing
           /\ (x = "REFUNDED" <=> request[r].op = "REFUND")
           /\ paymentStatus' = [paymentStatus EXCEPT ![i] = x]
           /\ refundedAt' = IF x = "REFUNDED" THEN refundedAt \cup {i} ELSE refundedAt
           /\ CountedOf(m, paymentStatus)' = CountedOf(m, StatusAfter(request[r]))
           /\ \A n : n # m => CountedOf(n, paymentStatus)' = CountedOf(n, paymentStatus)
<1>1. RequestOK(r) /\ request[r] # Nothing /\ request[r].op \in CapitalOps
  BY TheRequest DEF CommitCapital, RequestOK
<1>2. PICK m \in Members, i \in Investments, x \in {"CONFIRMED", "REFUNDED"} :
        /\ m = request[r].member /\ i = request[r].row /\ InvestorOf[i] = m
        /\ memberStatus[m] # "NONE"
        /\ x = IF request[r].op = "REFUND" THEN "REFUNDED" ELSE "CONFIRMED"
  BY <1>1 DEF RequestOK, Served
<1>3. /\ paymentStatus' = [paymentStatus EXCEPT ![i] = x]
      /\ StatusAfter(request[r]) = [paymentStatus EXCEPT ![i] = x]
      /\ refundedAt' = IF x = "REFUNDED" THEN refundedAt \cup {i} ELSE refundedAt
  BY <1>2 DEF CommitCapital, StatusAfter, RefundedAtAfter
<1>4. paymentStatus \in [Investments -> {"NONE", "PENDING", "CONFIRMED", "REFUNDED"}]
  BY DEF CapitalInv, CapitalOK
<1>5. CountedOf(m, paymentStatus)' = CountedOf(m, StatusAfter(request[r]))
  BY <1>2, <1>3, <1>4 DEF CountedOf
<1>6. \A n : n # m => CountedOf(n, paymentStatus)' = CountedOf(n, paymentStatus)
  BY <1>2, <1>3, <1>4 DEF CountedOf
<1> QED
  BY <1>1, <1>2, <1>3, <1>5, <1>6

\* A request about somebody else's capital is not touched; one that relies on
\* the capital that moved is overtaken.
LEMMA CommitKeepsRequests ==
  ASSUME CapitalInv, NEW r \in Requests, CommitCapital(r), NEW q \in Requests, request'[q] # Nothing
  PROVE  RequestOK(q)'
<1>1. PICK m \in Members, i \in Investments, x \in {"CONFIRMED", "REFUNDED"} :
        /\ m = request[r].member /\ i = request[r].row /\ InvestorOf[i] = m
        /\ paymentStatus' = [paymentStatus EXCEPT ![i] = x]
        /\ refundedAt' = IF x = "REFUNDED" THEN refundedAt \cup {i} ELSE refundedAt
        /\ \A n : n # m => CountedOf(n, paymentStatus)' = CountedOf(n, paymentStatus)
  BY CommitEffect
<1>2. /\ request' = Overtake(r, m) /\ UNCHANGED memberStatus /\ qualified \subseteq qualified'
  BY <1>1 DEF CommitCapital, memberVars
<1>3. q # r /\ request[q] # Nothing
  <2>1. request'[q] = CASE q = r -> Nothing
                        [] q \in RelyOnCapital(m) \ {r} -> [request[q] EXCEPT !.overtaken = TRUE]
                        [] OTHER -> request[q]
    BY <1>2 DEF Overtake
  <2> QED
    BY <2>1 DEF RelyOnCapital
<1>4. RequestOK(q) /\ request[q] \in Served
  BY <1>3, TheRequest
<1>5. request'[q] = IF q \in RelyOnCapital(m) THEN [request[q] EXCEPT !.overtaken = TRUE]
                                              ELSE request[q]
  BY <1>2, <1>3 DEF Overtake
<1>6. /\ request'[q] \in Served /\ request'[q].op = request[q].op
      /\ request'[q].member = request[q].member /\ request'[q].row = request[q].row
      /\ request'[q].inTx = request[q].inTx /\ request'[q].sum = request[q].sum
      /\ q \in RelyOnCapital(m) => request'[q].overtaken
      /\ ~request'[q].overtaken => ~request[q].overtaken
  BY <1>4, <1>5 DEF Served
<1>7. CASE request[q].member = m
  <2>1. ~request'[q].overtaken =>
          request[q].op \notin {"FINALIZE", "REFUND"} /\ ~request[q].inTx
    BY <1>3, <1>6, <1>7 DEF RelyOnCapital
  <2> QED
    BY <1>2, <1>4, <1>6, <2>1 DEF RequestOK
<1>8. CASE request[q].member # m
  <2>1. OpenCapital(request[q].member)' <=> OpenCapital(request[q].member)
    <3>1. CountedOf(request[q].member, paymentStatus)' = CountedOf(request[q].member, paymentStatus)
      <4>1. PICK n \in Members : n = request[q].member /\ n = request'[q].member
        BY <1>4, <1>6 DEF Served
      <4>2. CountedOf(n, paymentStatus)' = CountedOf(n, paymentStatus)
        BY <1>1, <1>8, <4>1
      <4> QED
        BY <4>1, <4>2
    <3> QED
      BY <3>1 DEF OpenCapital
  <2>2. request[q].op \in CapitalOps =>
          request[q].row # i /\ (request[q].row \in refundedAt' <=> request[q].row \in refundedAt)
    BY <1>1, <1>4, <1>8 DEF RequestOK
  <2>3. request[q].inTx => SumAfter(q)' = SumAfter(q)
    <3> SUFFICES ASSUME request[q].inTx PROVE SumAfter(q)' = SumAfter(q)
      OBVIOUS
    <3>1. PICK n \in Members, j \in Investments :
            /\ n = request[q].member /\ n = request'[q].member
            /\ j = request[q].row /\ j = request'[q].row /\ j # i /\ n # m
      BY <1>4, <1>6, <1>8, <2>2 DEF RequestOK, Served
    <3>2. paymentStatus \in [Investments -> {"NONE", "PENDING", "CONFIRMED", "REFUNDED"}]
      BY DEF CapitalInv, CapitalOK
    <3>3. \A k \in Investments : k # i => StatusAfter(request[q])'[k] = StatusAfter(request[q])[k]
      BY <1>1, <1>6, <3>1, <3>2 DEF StatusAfter
    <3>4. CountedOf(n, StatusAfter(request[q]))' = CountedOf(n, StatusAfter(request[q]))
      BY <1>1, <3>1, <3>3 DEF CountedOf
    <3> QED
      BY <3>1, <3>4 DEF SumAfter
  <2>4. request[q].op = "REFUND" => request[q].op \in CapitalOps
    BY DEF CapitalOps
  <2> QED
    BY <1>2, <1>4, <1>6, <2>1, <2>2, <2>3, <2>4 DEF RequestOK
<1> QED
  BY <1>7, <1>8

\* CommitCapital: account, total and rights follow the row it changed.
LEMMA CommitKeeps ==
  ASSUME CapitalInv, NEW r \in Requests, CommitCapital(r)
  PROVE  CapitalInv'
<1>1. /\ MembershipTypeOK /\ CapitalOK /\ VotesOK /\ RecomputeOK
      /\ RightsFollowCapital /\ EquityMatchesCapital
  BY DEF CapitalInv
<1>2. PICK m \in Members, i \in Investments, x \in {"CONFIRMED", "REFUNDED"} :
        /\ m = request[r].member /\ i = request[r].row /\ InvestorOf[i] = m
        /\ memberStatus[m] # "NONE" /\ request[r] # Nothing
        /\ (x = "REFUNDED" <=> request[r].op = "REFUND")
        /\ paymentStatus' = [paymentStatus EXCEPT ![i] = x]
        /\ refundedAt' = IF x = "REFUNDED" THEN refundedAt \cup {i} ELSE refundedAt
        /\ CountedOf(m, paymentStatus)' = CountedOf(m, StatusAfter(request[r]))
        /\ \A n : n # m => CountedOf(n, paymentStatus)' = CountedOf(n, paymentStatus)
  BY CommitEffect
<1>3. PICK total \in Nat : total = SumAfter(r)
  BY CountedType DEF SumAfter
<1>4. /\ Counted(m)' = total /\ MemberTotal(r) = total
      /\ \A n : n # m => Counted(n)' = Counted(n)
  BY <1>2, <1>3 DEF Counted, SumAfter, MemberTotal
<1>5. PICK late \in BOOLEAN, sum \in Nat :
        /\ late = request[r].overtaken /\ sum = request[r].sum /\ (~late => sum = total)
        /\ (x = "REFUNDED" /\ ~late => i \notin refundedAt)
  <2>1. request[r].inTx /\ RequestOK(r)
    BY <1>2, TheRequest DEF CommitCapital
  <2> QED
    BY <1>2, <1>3, <2>1 DEF RequestOK, Served
<1>6. /\ UNCHANGED <<memberStatus, isEligibleToVote, threshold, changes, voted>>
      /\ payouts' = IF x = "REFUNDED" /\ ~late THEN [payouts EXCEPT ![i] = @ + 1] ELSE payouts
      /\ contributed' = [contributed EXCEPT ![m] = sum]
      /\ totalInvested' = [totalInvested EXCEPT ![m] = total]
      /\ hasVotingRights' = IF total >= threshold THEN hasVotingRights \cup {m}
                                                  ELSE hasVotingRights \ {m}
      /\ request' = Overtake(r, m)
      /\ recompute' = IF recompute.stage = "READ"
                      THEN [recompute EXCEPT !.overtaken = @ \cup {m}] ELSE recompute
      /\ staleAccount' = IF late THEN staleAccount \cup {m} ELSE staleAccount \ {m}
      /\ staleRights' = staleRights \ {m}
  BY <1>2, <1>4, <1>5 DEF CommitCapital, AccountTotal, VotingRights, memberVars, settingsVars
<1>7. qualified' = IF total >= threshold THEN qualified \cup {m} ELSE qualified
  <2>1. paymentStatus' = StatusAfter(request[r])
    BY DEF CommitCapital
  <2>2. qualified' = IF Total(Amount, CountedOf(m, paymentStatus')) >= threshold
                     THEN qualified \cup {m} ELSE qualified
    BY <1>2 DEF CommitCapital
  <2> QED
    BY <1>2, <1>3, <2>1, <2>2 DEF SumAfter
<1>8. \A q \in Requests : request'[q] # Nothing => RequestOK(q)'
  BY CommitKeepsRequests
<1>9. MembershipTypeOK' /\ CapitalOK'
  <2>1. paymentStatus' \in [Investments -> {"NONE", "PENDING", "CONFIRMED", "REFUNDED"}]
    BY <1>1, <1>2 DEF CapitalOK
  <2>2. refundedAt' \subseteq Investments /\ payouts' \in [Investments -> Nat]
    BY <1>1, <1>2, <1>6 DEF CapitalOK
  <2>3. \A j \in Investments :
          /\ paymentStatus'[j] # "NONE" => memberStatus'[InvestorOf[j]] # "NONE"
          /\ paymentStatus'[j] = "REFUNDED" => j \in refundedAt'
    BY <1>1, <1>2, <1>6 DEF CapitalOK
  <2>4. \A j \in Investments : payouts'[j] <= IF j \in refundedAt' THEN 1 ELSE 0
    BY <1>1, <1>2, <1>5, <1>6 DEF CapitalOK
  <2>5. DOMAIN request' = Requests
    BY <1>6 DEF Overtake
  <2>6. totalInvested' \in [Members -> Nat] /\ contributed' \in [Members -> Nat]
    BY <1>1, <1>6 DEF MembershipTypeOK
  <2>7. /\ hasVotingRights' \subseteq Members
        /\ \A n \in Members : memberStatus[n] = "NONE" =>
             totalInvested'[n] = 0 /\ n \notin isEligibleToVote \cup hasVotingRights'
    BY <1>1, <1>2, <1>6 DEF MembershipTypeOK
  <2> QED
    BY <1>1, <1>6, <2>1, <2>2, <2>3, <2>4, <2>5, <2>6, <2>7 DEF MembershipTypeOK, CapitalOK
<1>10. VotesOK'
  BY <1>1, <1>4, <1>6, <1>7 DEF VotesOK
<1>11. recompute' = Idle <=> recompute = Idle
  <2>1. CASE recompute.stage = "READ"
    <3>1. recompute \in [stage : {"READ"}, totals : [Members -> Nat], overtaken : SUBSET Members]
      BY <1>1, <2>1 DEF RecomputeOK, Idle
    <3>2. recompute'.stage = "READ"
      BY <1>6, <2>1, <3>1
    <3> QED
      BY <2>1, <3>2 DEF Idle
  <2>2. CASE recompute.stage # "READ"
    BY <1>6, <2>2
  <2> QED
    BY <2>1, <2>2
<1>12. RecomputeOK'
  <2>1. CASE recompute.stage = "READ"
    <3>1. /\ recompute \in [stage : {"READ"}, totals : [Members -> Nat], overtaken : SUBSET Members]
          /\ \A n \in Members :
               /\ n \notin recompute.overtaken => recompute.totals[n] = Counted(n)
               /\ recompute.totals[n] >= threshold => n \in qualified
               /\ memberStatus[n] = "NONE" => recompute.totals[n] = 0
      BY <1>1, <2>1 DEF RecomputeOK, Idle
    <3>2. /\ recompute' \in [stage : {"READ"}, totals : [Members -> Nat], overtaken : SUBSET Members]
          /\ recompute'.totals = recompute.totals /\ recompute'.overtaken = recompute.overtaken \cup {m}
          /\ recompute'.stage = "READ"
      BY <1>6, <2>1, <3>1
    <3> QED
      BY <1>4, <1>6, <1>7, <3>1, <3>2 DEF RecomputeOK
  <2>2. CASE recompute.stage # "READ"
    BY <1>1, <1>6, <2>2 DEF RecomputeOK, Idle
  <2> QED
    BY <2>1, <2>2
<1>13. RightsFollowCapital'
  <2>1. ASSUME recompute = Idle, NEW n \in Members, n \notin staleRights'
        PROVE  totalInvested'[n] = Counted(n)' /\ (n \in hasVotingRights' <=> Counted(n)' >= threshold')
    <3>1. CASE n = m
      BY <1>1, <1>4, <1>6, <3>1 DEF MembershipTypeOK
    <3>2. CASE n # m
      <4>1. n \notin staleRights
        BY <1>6, <2>1, <3>2
      <4>2. totalInvested[n] = Counted(n) /\ (n \in hasVotingRights <=> Counted(n) >= threshold)
        BY <1>1, <2>1, <4>1 DEF RightsFollowCapital
      <4>3. totalInvested'[n] = totalInvested[n] /\ (n \in hasVotingRights' <=> n \in hasVotingRights)
        BY <1>1, <1>6, <3>2 DEF MembershipTypeOK
      <4> QED
        BY <1>4, <1>6, <3>2, <4>2, <4>3
    <3> QED
      BY <3>1, <3>2
  <2>2. Idle' = Idle
    BY DEF Idle
  <2> QED
    BY <1>11, <2>1, <2>2 DEF RightsFollowCapital
<1>14. EquityMatchesCapital'
  <2>1. ASSUME NEW n \in Members, n \notin staleAccount' PROVE contributed'[n] = Counted(n)'
    <3>1. CASE n = m
      BY <1>1, <1>4, <1>5, <1>6, <2>1, <3>1 DEF MembershipTypeOK
    <3>2. CASE n # m
      BY <1>1, <1>4, <1>6, <2>1, <3>2 DEF EquityMatchesCapital, MembershipTypeOK
    <3> QED
      BY <3>1, <3>2
  <2> QED
    BY <2>1 DEF EquityMatchesCapital
<1> QED
  BY <1>8, <1>9, <1>10, <1>12, <1>13, <1>14 DEF CapitalInv

-----------------------------------------------------------------------------

\* Before the first application there is nothing to rely on.
LEMMA CapitalInit ==
  ASSUME MembershipInit
  PROVE  CapitalInv
<1>1. \A m : CountedOf(m, paymentStatus) = {}
  BY DEF MembershipInit, CountedOf
<1>2. \A m : Counted(m) = 0
  BY <1>1, NoneCounted DEF OpenCapital
<1>3. threshold \in Nat \ {0}
  BY MembershipAssumption DEF MembershipInit
<1>4. MembershipTypeOK
  BY MembershipAssumption DEF MembershipInit, MembershipTypeOK
<1>5. CapitalOK
  BY DEF MembershipInit, CapitalOK
<1>6. \A r \in Requests : request[r] = Nothing
  BY DEF MembershipInit
<1>7. RecomputeOK /\ VotesOK
  BY <1>2, <1>3 DEF MembershipInit, RecomputeOK, VotesOK
<1>8. RightsFollowCapital /\ EquityMatchesCapital
  BY <1>2, <1>3 DEF MembershipInit, RightsFollowCapital, EquityMatchesCapital
<1> QED
  BY <1>4, <1>5, <1>6, <1>7, <1>8 DEF CapitalInv

\* A step of something else changes nothing here.
LEMMA CapitalStutters ==
  ASSUME CapitalInv, UNCHANGED membershipVars
  PROVE  CapitalInv'
<1>1. UNCHANGED <<memberStatus, isEligibleToVote, rightsVars, capitalVars, settingsVars, recompute,
                  voted, request, ghostVars>>
  BY DEF membershipVars, memberVars, settingsVars
<1>2. UNCHANGED <<paymentStatus, refundedAt, qualified>>
  BY <1>1 DEF capitalVars, ghostVars
<1>3. /\ MembershipTypeOK /\ voted \subseteq qualified
      /\ \A q \in Requests : request[q] # Nothing => RequestOK(q)
  BY DEF CapitalInv, VotesOK
<1>4. \A q \in Requests : request'[q] # Nothing => RequestOK(q)'
  BY <1>1, <1>2, <1>3, RequestAlone
<1> QED
  BY <1>1, <1>3, <1>4, CapitalStays DEF MembershipTypeOK

\* Whatever requests of membership.service.ts overlap, for any number of
\* members, investments, requests and changes of the threshold: who voted had
\* the capital; total, rights and the equity account follow the confirmed
\* investments but for the overtaken writes that are named; and an investment
\* is paid back once unless two refunds of it overlapped.
THEOREM CapitalAlwaysBacksRights == MembershipSpec => []CapitalBacksRights
<1>1. MembershipInit => CapitalInv
  BY CapitalInit
<1>2. CapitalInv /\ [MembershipNext]_membershipVars => CapitalInv'
  <2> SUFFICES ASSUME CapitalInv, [MembershipNext]_membershipVars PROVE CapitalInv'
    OBVIOUS
  <2>1. ASSUME NEW r \in Requests, NEW op \in {"RECORD", "CONFIRM", "REFUND"}, NEW i \in Investments,
               Begin(r, op, InvestorOf[i], i)
        PROVE  CapitalInv'
    <3>1. InvestorOf[i] \in Members
      BY MembershipAssumption
    <3> QED
      BY <2>1, <3>1, BeginKeeps DEF CapitalOps
  <2>2. ASSUME NEW r \in Requests, NEW op \in MemberOps, NEW m \in Members, Begin(r, op, m, NoRow)
        PROVE  CapitalInv'
    BY <2>2, BeginKeeps
  <2> QED
    BY <2>1, <2>2, MemberStepKeeps, recordPendingKeeps, ChangeRowKeeps, CommitKeeps, AnswerKeeps,
       finalizeKeeps, SettingsKeep, CapitalStutters DEF MembershipNext
<1>3. CapitalInv => CapitalBacksRights
  <2>1. CapitalInv => VotersOwnCapital
    BY DEF CapitalInv, VotesOK, VotersOwnCapital
  <2>2. CapitalInv => RefundedOnce
    BY DEF CapitalInv, CapitalOK, RefundedOnce
  <2> QED
    BY <2>1, <2>2 DEF CapitalInv, CapitalBacksRights
<1> QED
  BY <1>1, <1>2, <1>3, PTL DEF MembershipSpec

-----------------------------------------------------------------------------
(* The money of one sale *)

\* Rounding to the nearest cent is off by at most half a cent.
LEMMA RoundedError ==
  ASSUME NEW n \in Nat, NEW d \in Nat \ {0}
  PROVE  /\ Rounded(n, d) \in Nat
         /\ 2 * n - d <= 2 * (d * Rounded(n, d)) /\ 2 * (d * Rounded(n, d)) <= 2 * n + d
<1> DEFINE a == 2 * n + d
           b == 2 * d
           q == a \div b
<1>1. a \in Nat /\ b \in Nat \ {0} /\ q \in Int
  OBVIOUS
<1>2. b * q <= a /\ a < b * (q + 1)
  <2> HIDE DEF a, b
  <2> QED
    BY <1>1 DEF q
<1>3. Rounded(n, d) = q
  BY DEF Rounded
<1>4. q \in Nat
  <2> HIDE DEF a, b, q
  <2>1. 0 < b * (q + 1)
    BY <1>1, <1>2
  <2> QED
    BY <1>1, <2>1
<1>5. b * q = 2 * (d * q) /\ b * (q + 1) = 2 * (d * q) + 2 * d
  <2> HIDE DEF q
  <2> QED
    BY <1>1
<1> QED
  BY <1>1, <1>2, <1>3, <1>4, <1>5

\* A percentage of up to 100 is no more than the amount.
LEMMA PercentWithin ==
  ASSUME NEW percent \in 0 .. 100, NEW amount \in Nat
  PROVE  PercentOf(percent, amount) \in 0 .. amount
<1>1. PICK n \in Nat : n = percent * amount /\ n <= 100 * amount
  <2>1. percent * amount \in Nat /\ (100 - percent) * amount \in Nat
    OBVIOUS
  <2>2. (100 - percent) * amount = 100 * amount - percent * amount
    OBVIOUS
  <2> QED
    BY <2>1, <2>2
<1>2. /\ Rounded(n, 100) \in Nat
      /\ 2 * (100 * Rounded(n, 100)) <= 2 * n + 100
  BY RoundedError
<1>3. Rounded(n, 100) <= amount
  BY <1>1, <1>2
<1> QED
  BY <1>1, <1>2, <1>3 DEF PercentOf

\* A column with one number in it adds up to that number for each row.
LEMMA TotalConstant ==
  ASSUME NEW S, IsFiniteSet(S), NEW c \in Int
  PROVE  Total([x \in S |-> c], S) = c * Cardinality(S) /\ Cardinality(S) \in Nat
<1> DEFINE f == [x \in S |-> c]
           Good == {T \in SUBSET S : Total(f, T) = c * Cardinality(T) /\ Cardinality(T) \in Nat}
<1>1. {} \in Good
  BY TotalZero, FS_EmptySet
<1>2. ASSUME NEW T \in SUBSET S, T # {}, \A x \in T : T \ {x} \in Good PROVE T \in Good
  <2>1. PICK x \in T : TRUE
    BY <1>2
  <2>2. IsFiniteSet(T) /\ IntegerOn(f, T) /\ f[x] = c
    BY FS_Subset DEF IntegerOn
  <2>3. Total(f, T) = Total(f, T \ {x}) + c
    <3> HIDE DEF f
    <3> QED
      BY <2>2, TotalWithout
  <2>4. Cardinality(T) = Cardinality(T \ {x}) + 1
    <3>1. Cardinality(T) \in Nat
      BY <2>2, FS_CardinalityType
    <3>2. Cardinality(T \ {x}) = IF x \in T THEN Cardinality(T) - 1 ELSE Cardinality(T)
      BY <2>2, FS_RemoveElement
    <3> QED
      BY <3>1, <3>2
  <2>5. Total(f, T \ {x}) = c * Cardinality(T \ {x}) /\ Cardinality(T \ {x}) \in Nat
    BY <1>2
  <2>6. PICK k \in Nat : k = Cardinality(T \ {x})
    BY <2>5
  <2>7. c * (k + 1) = c * k + c
    OBVIOUS
  <2> HIDE DEF f
  <2> QED
    BY <2>3, <2>4, <2>5, <2>6, <2>7
<1>3. S \in Good
  <2> HIDE DEF Good
  <2> QED
    BY <1>1, <1>2, FiniteInduction
<1> QED
  BY <1>3

\* The amounts of a sale that createSale lets through.
LEMMA SaleRowType ==
  ASSUME NEW cart \in Carts, NEW settings \in Settings, SaleAllowed(cart, settings)
  PROVE  LET sale == SaleRow(cart, settings)
         IN  /\ sale.lines = cart /\ sale.bearer = settings.bearer
             /\ sale.total \in Nat
             /\ sale.operatorBase \in Nat /\ sale.operatorAmount \in 0 .. sale.operatorBase
             /\ \A i \in DOMAIN cart : lineNet(cart[i]) \in Nat /\ sale.tax[i] \in Nat
<1> DEFINE ids == DOMAIN cart
<1>1. /\ IsFiniteSet(ids)
      /\ \A i \in ids : /\ cart[i].quantity \in 1 .. 5 /\ cart[i].exempt \in BOOLEAN
                        /\ cart[i].price \in Nat /\ cart[i].benefit \in Nat /\ cart[i].manual \in Nat
      /\ settings.operatorPercent \in 0 .. 100 /\ settings.sharedPercent \in 0 .. 100
      /\ settings.bearer \in {"COOP", "OPERATOR", "SHARED"} /\ settings.taxRate \in Nat
  BY SettlementAssumption
<1>2. \A i \in ids : lineGross(cart[i]) \in Nat
  BY <1>1 DEF lineGross
<1>3. \A i \in ids : lineNet(cart[i]) \in Nat
  <2>1. \A i \in ids : cart[i].manual <= lineGross(cart[i]) - cart[i].benefit
    BY DEF SaleAllowed
  <2> QED
    BY <1>1, <1>2, <2>1 DEF lineNet, lineDiscount
<1>4. \A i \in ids : lineTax(cart[i], settings.taxRate) \in Nat
  <2>1. ASSUME NEW i \in ids PROVE PercentOf(settings.taxRate, lineNet(cart[i])) \in Nat
    <3>1. settings.taxRate * lineNet(cart[i]) \in Nat
      BY <1>1, <1>3
    <3> QED
      BY <3>1, RoundedError DEF PercentOf
  <2> QED
    BY <1>1, <2>1 DEF lineTax
<1>5. PICK before \in Nat, subtotal \in Nat, tax \in Nat, discount \in Nat :
        /\ before = Sum(LAMBDA i : lineGross(cart[i]), ids)
        /\ subtotal = Sum(LAMBDA i : lineNet(cart[i]), ids)
        /\ tax = Sum(LAMBDA i : lineTax(cart[i], settings.taxRate), ids)
        /\ discount = Sum(LAMBDA i : cart[i].benefit, ids)
  <2>1. /\ Total([i \in ids |-> lineGross(cart[i])], ids) \in Nat
        /\ Total([i \in ids |-> lineNet(cart[i])], ids) \in Nat
        /\ Total([i \in ids |-> lineTax(cart[i], settings.taxRate)], ids) \in Nat
        /\ Total([i \in ids |-> cart[i].benefit], ids) \in Nat
    <3>1. /\ NaturalOn([i \in ids |-> lineGross(cart[i])], ids)
          /\ NaturalOn([i \in ids |-> lineNet(cart[i])], ids)
          /\ NaturalOn([i \in ids |-> lineTax(cart[i], settings.taxRate)], ids)
          /\ NaturalOn([i \in ids |-> cart[i].benefit], ids)
      BY <1>1, <1>2, <1>3, <1>4 DEF NaturalOn
    <3> QED
      BY <1>1, <3>1, TotalNatural
  <2> QED
    BY <2>1 DEF Sum
<1>6. PICK base \in Nat :
        base = operatorBase(settings.bearer, settings.sharedPercent, before, subtotal, discount)
  <2>1. (100 * subtotal + discount * (100 - settings.sharedPercent)) \in Nat
    BY <1>1
  <2>2. Rounded(100 * subtotal + discount * (100 - settings.sharedPercent), 100) \in Nat
    BY <2>1, RoundedError
  <2> QED
    BY <1>1, <2>2 DEF operatorBase
<1>7. PercentOf(settings.operatorPercent, base) \in 0 .. base
  BY <1>1, PercentWithin
<1>8. SaleRow(cart, settings) =
        [lines |-> cart, tax |-> [i \in ids |-> lineTax(cart[i], settings.taxRate)],
         subtotal |-> subtotal, total |-> subtotal + tax,
         bearer |-> settings.bearer, operatorBase |-> base,
         operatorAmount |-> PercentOf(settings.operatorPercent, base),
         coopAmount |-> subtotal - PercentOf(settings.operatorPercent, base)]
  BY <1>5, <1>6 DEF SaleRow
<1> QED
  BY <1>3, <1>4, <1>7, <1>8

-----------------------------------------------------------------------------
(* Sales and their refunds *)

\* The row of a sale is what createSale wrote, under settings since changed.
RowOK(s) ==
  \E cart \in Carts, settings \in Settings :
    SaleAllowed(cart, settings) /\ row[s] = SaleRow(cart, settings)

\* ClawbackProportional, of one sale.
Clawed(s) ==
  saleStatus[s] # "REFUNDED" /\ row[s].bearer # "SHARED" =>
    LET exact == row[s].operatorAmount * BaseBack(s)
        booked == refunded[s].operatorAmount * row[s].operatorBase * 60
        slack == refunds[s] * Cardinality(DOMAIN row[s].lines) * row[s].operatorBase * 60
    IN  exact - slack <= booked /\ booked <= exact + slack

\* A claim is a refund planned on the figures of now: nothing else moves a
\* sale's figures while it is REFUNDING.
ClaimOK(s) ==
  IF saleStatus[s] = "REFUNDING"
  THEN /\ claim[s] # Unset
       /\ claim[s].back \in Refunds(s)
       /\ RefundPossible(row[s], refunded[s].amount, taken[s], claim[s].back)
       /\ claim[s].plan = planRefundLines(row[s], refunded[s].amount, refunded[s].operatorAmount,
                                          taken[s], claim[s].back)
  ELSE claim[s] = Unset

SaleOK(s) ==
  /\ RowOK(s)
  /\ taken[s] \in [DOMAIN row[s].lines -> Nat]
  /\ \A i \in DOMAIN row[s].lines : taken[s][i] <= row[s].lines[i].quantity
  /\ refunded[s].amount <= row[s].total
  /\ saleStatus[s] = "REFUNDED" =>
       refunded[s].amount = row[s].total /\ refunded[s].operatorAmount = row[s].operatorAmount

SalesInv ==
  /\ store \in Settings
  /\ saleStatus \in [SettledSales -> {"NONE", "PAID", "REFUNDING", "REFUNDED"}]
  /\ refunded \in [SettledSales -> [amount : Int, operatorAmount : Int]]
  /\ DOMAIN row = SettledSales /\ DOMAIN taken = SettledSales /\ DOMAIN claim = SettledSales
  /\ refunds \in [SettledSales -> Nat]
  /\ \A s \in SettledSales :
       /\ ClaimOK(s)
       /\ saleStatus[s] # "NONE" => SaleOK(s) /\ Clawed(s)
       /\ saleStatus[s] = "NONE" => refunded[s] = NoMoney /\ refunds[s] = 0
  /\ paidOut \in 0 .. MaxPaidOut

\* The figures of a sale that was made.
LEMMA TheSale ==
  ASSUME NEW s \in SettledSales, RowOK(s)
  PROVE  /\ row[s].lines \in Carts /\ IsFiniteSet(DOMAIN row[s].lines)
         /\ row[s].bearer \in {"COOP", "OPERATOR", "SHARED"}
         /\ row[s].total \in Nat /\ row[s].operatorBase \in Nat
         /\ row[s].operatorAmount \in 0 .. row[s].operatorBase
         /\ \A i \in DOMAIN row[s].lines :
              /\ row[s].lines[i].quantity \in 1 .. 5 /\ row[s].lines[i].price \in Nat
              /\ lineNet(row[s].lines[i]) \in Nat /\ row[s].tax[i] \in Nat
<1>1. PICK cart \in Carts, settings \in Settings :
        SaleAllowed(cart, settings) /\ row[s] = SaleRow(cart, settings)
  BY DEF RowOK
<1>2. /\ row[s].lines = cart /\ row[s].bearer = settings.bearer
      /\ row[s].total \in Nat
      /\ row[s].operatorBase \in Nat /\ row[s].operatorAmount \in 0 .. row[s].operatorBase
      /\ \A i \in DOMAIN cart : lineNet(cart[i]) \in Nat /\ row[s].tax[i] \in Nat
  BY <1>1, SaleRowType
<1> QED
  BY <1>1, <1>2, SettlementAssumption

\* What the refund of some units comes to: whole cents, no more than is left,
\* and everything that is left with the last units.
LEMMA PlanType ==
  ASSUME NEW s \in SettledSales, RowOK(s), refunded[s].amount \in Int,
         refunded[s].operatorAmount \in Int, NEW back \in Refunds(s)
  PROVE  LET plan == planRefundLines(row[s], refunded[s].amount, refunded[s].operatorAmount,
                                     taken[s], back)
         IN  /\ plan.amount \in Int /\ plan.operatorAmount \in Int
             /\ refunded[s].amount + plan.amount <= row[s].total
             /\ refundsAllRemaining(row[s], taken[s], back) =>
                  /\ refunded[s].amount + plan.amount = row[s].total
                  /\ refunded[s].operatorAmount + plan.operatorAmount = row[s].operatorAmount
             /\ ~refundsAllRemaining(row[s], taken[s], back) =>
                  plan.operatorAmount = ProratedClawback(row[s], back)
             /\ RefundedNet(row[s], back) \in Nat /\ RefundedGross(row[s], back) \in Nat
             /\ ProratedClawback(row[s], back) \in Nat
<1> DEFINE ids == DOMAIN row[s].lines
<1>1. /\ IsFiniteSet(ids) /\ row[s].total \in Nat /\ row[s].operatorBase \in Nat
      /\ row[s].operatorAmount \in Nat /\ row[s].operatorAmount \in 0 .. row[s].operatorBase
      /\ \A i \in ids :
           /\ row[s].lines[i].quantity \in 1 .. 5 /\ row[s].lines[i].price \in Nat
           /\ lineNet(row[s].lines[i]) \in Nat /\ row[s].tax[i] \in Nat
  BY TheSale
<1>2. back \in [ids -> 0 .. 5] /\ DOMAIN back = ids
  BY DEF Refunds
<1>3. \A i \in ids : /\ ShareOf(lineNet(row[s].lines[i]), row[s].lines[i], back[i]) \in Nat
                     /\ ShareOf(row[s].tax[i], row[s].lines[i], back[i]) \in Nat
                     /\ row[s].lines[i].price * back[i] \in Nat
  <2> SUFFICES ASSUME NEW i \in ids
               PROVE  /\ ShareOf(lineNet(row[s].lines[i]), row[s].lines[i], back[i]) \in Nat
                      /\ ShareOf(row[s].tax[i], row[s].lines[i], back[i]) \in Nat
                      /\ row[s].lines[i].price * back[i] \in Nat
    OBVIOUS
  <2>1. back[i] \in Nat /\ row[s].lines[i].quantity \in Nat \ {0}
    BY <1>1, <1>2
  <2>2. /\ lineNet(row[s].lines[i]) * back[i] \in Nat /\ row[s].tax[i] * back[i] \in Nat
        /\ row[s].lines[i].price * back[i] \in Nat
    BY <1>1, <2>1
  <2> QED
    BY <2>1, <2>2, RoundedError DEF ShareOf
<1>4. /\ RefundedNet(row[s], back) \in Nat /\ RefundedTax(row[s], back) \in Nat
      /\ RefundedGross(row[s], back) \in Nat
  <2> DEFINE nets == [i \in ids |-> ShareOf(lineNet(row[s].lines[i]), row[s].lines[i], back[i])]
             taxes == [i \in ids |-> ShareOf(row[s].tax[i], row[s].lines[i], back[i])]
             gross == [i \in ids |-> row[s].lines[i].price * back[i]]
  <2>1. NaturalOn(nets, ids) /\ NaturalOn(taxes, ids) /\ NaturalOn(gross, ids)
    BY <1>3 DEF NaturalOn
  <2>2. /\ RefundedNet(row[s], back) = Total(nets, ids)
        /\ RefundedTax(row[s], back) = Total(taxes, ids)
        /\ RefundedGross(row[s], back) = Total(gross, ids)
    BY <1>2 DEF RefundedNet, RefundedTax, RefundedGross, Sum
  <2> HIDE DEF nets, taxes, gross
  <2> QED
    BY <1>1, <2>1, <2>2, TotalNatural
<1>5. ProratedClawback(row[s], back) \in Nat
  <2>1. ClawbackBase(row[s], back) \in Nat
    BY <1>4 DEF ClawbackBase
  <2>2. row[s].operatorAmount * ClawbackBase(row[s], back) \in Nat
    BY <1>1, <2>1
  <2>3. CASE row[s].operatorBase = 0
    BY <2>3 DEF ProratedClawback
  <2>4. CASE row[s].operatorBase # 0
    <3>1. row[s].operatorBase \in Nat \ {0}
      BY <1>1, <2>4
    <3> QED
      BY <2>2, <2>4, <3>1, RoundedError DEF ProratedClawback
  <2> QED
    BY <2>3, <2>4
<1>6. PICK left \in Int : left = row[s].total - refunded[s].amount /\
                          refunded[s].amount + left = row[s].total
  BY <1>1
<1>7. LineAmounts(row[s], refunded[s].amount, back) \in Int
      /\ LineAmounts(row[s], refunded[s].amount, back) <= left
  BY <1>4, <1>6 DEF LineAmounts, Smaller
<1>8. CASE refundsAllRemaining(row[s], taken[s], back)
  BY <1>1, <1>4, <1>5, <1>6, <1>8 DEF planRefundLines
<1>9. CASE ~refundsAllRemaining(row[s], taken[s], back)
  BY <1>1, <1>4, <1>5, <1>6, <1>7, <1>9 DEF planRefundLines
<1> QED
  BY <1>8, <1>9

-----------------------------------------------------------------------------
(* What the operator gives back *)

\* Sixty divides by any number of units a line may have.
LEMMA Sixtieth ==
  ASSUME NEW q \in 1 .. 5
  PROVE  60 \div q \in Nat /\ q * (60 \div q) = 60
<1>1. q \in {1, 2, 3, 4, 5}
  OBVIOUS
<1>2. 60 \div 1 = 60 /\ 60 \div 2 = 30 /\ 60 \div 3 = 20 /\ 60 \div 4 = 15 /\ 60 \div 5 = 12
  OBVIOUS
<1> QED
  BY <1>1, <1>2

\* The share of a line that is rounded to a cent is within half a cent of what
\* the units carried.
LEMMA ShareError ==
  ASSUME NEW net \in Nat, NEW b \in Nat, NEW q \in 1 .. 5
  PROVE  /\ Rounded(net * b, q) \in Nat
         /\ b * (60 \div q) * net - 30 <= 60 * Rounded(net * b, q)
         /\ 60 * Rounded(net * b, q) <= b * (60 \div q) * net + 30
<1>1. PICK n \in Nat : n = net * b
  OBVIOUS
<1>2. q \in Nat \ {0}
  OBVIOUS
<1>3. PICK r \in Nat : r = Rounded(n, q) /\ 2 * n - q <= 2 * (q * r) /\ 2 * (q * r) <= 2 * n + q
  BY <1>2, RoundedError
<1>4. q \in {1, 2, 3, 4, 5}
  OBVIOUS
<1>5. 60 \div 1 = 60 /\ 60 \div 2 = 30 /\ 60 \div 3 = 20 /\ 60 \div 4 = 15 /\ 60 \div 5 = 12
  OBVIOUS
<1>6. /\ b * 60 * net = 60 * n /\ b * 30 * net = 30 * n /\ b * 20 * net = 20 * n
      /\ b * 15 * net = 15 * n /\ b * 12 * net = 12 * n
  BY <1>1
<1>7. CASE q = 1
  BY <1>1, <1>3, <1>5, <1>6, <1>7
<1>8. CASE q = 2
  BY <1>1, <1>3, <1>5, <1>6, <1>8
<1>9. CASE q = 3
  BY <1>1, <1>3, <1>5, <1>6, <1>9
<1>10. CASE q = 4
  BY <1>1, <1>3, <1>5, <1>6, <1>10
<1>11. CASE q = 5
  BY <1>1, <1>3, <1>5, <1>6, <1>11
<1> QED
  BY <1>4, <1>7, <1>8, <1>9, <1>10, <1>11

\* Sums whose rows differ by at most c differ by at most c for each row.
LEMMA TotalNear ==
  ASSUME NEW S, IsFiniteSet(S), NEW f, IntegerOn(f, S), NEW g, IntegerOn(g, S), NEW c \in Int,
         \A x \in S : f[x] - c <= g[x] /\ g[x] <= f[x] + c
  PROVE  /\ Total(f, S) \in Int /\ Total(g, S) \in Int /\ Cardinality(S) \in Nat
         /\ Total(f, S) - c * Cardinality(S) <= Total(g, S)
         /\ Total(g, S) <= Total(f, S) + c * Cardinality(S)
<1> DEFINE k == [x \in S |-> c]
           fk == [x \in S |-> f[x] + c]
           gk == [x \in S |-> g[x] + c]
<1>1. IntegerOn(k, S) /\ IntegerOn(fk, S) /\ IntegerOn(gk, S)
  BY DEF IntegerOn
<1>2. Total(k, S) = c * Cardinality(S) /\ Cardinality(S) \in Nat
  BY TotalConstant
<1>3. /\ \A x \in S : fk[x] = f[x] + k[x] /\ gk[x] = g[x] + k[x]
      /\ \A x \in S : g[x] <= fk[x] /\ f[x] <= gk[x]
  BY DEF IntegerOn
<1> HIDE DEF k, fk, gk
<1>4. Total(fk, S) = Total(f, S) + Total(k, S) /\ Total(gk, S) = Total(g, S) + Total(k, S)
  BY <1>1, <1>3, TotalAdd
<1>5. Total(g, S) <= Total(fk, S) /\ Total(f, S) <= Total(gk, S)
  BY <1>1, <1>3, TotalMonotone
<1>6. Total(f, S) \in Int /\ Total(g, S) \in Int /\ Total(k, S) \in Int
  BY <1>1, TotalType
<1> QED
  BY <1>2, <1>4, <1>5, <1>6

\* Two roundings, of the lines and of the share, together stay within a cent
\* per line.
LEMMA TwoRoundings ==
  ASSUME NEW base \in Nat \ {0}, NEW amount \in 0 .. base, NEW units \in Nat, NEW exact \in Int,
         NEW n \in Nat \ {0}, NEW booked \in Nat,
         exact - 30 * n <= 60 * units, 60 * units <= exact + 30 * n,
         booked = Rounded(amount * units, base)
  PROVE  /\ amount * exact - n * base * 60 <= booked * base * 60
         /\ booked * base * 60 <= amount * exact + n * base * 60
<1>1. PICK a \in Nat : a = amount * units
  OBVIOUS
<1>2. PICK p \in Nat : p = base * booked /\ 2 * a - base <= 2 * p /\ 2 * p <= 2 * a + base
  BY <1>1, RoundedError
<1>3. PICK e \in Int : e = amount * exact
  OBVIOUS
<1>4. PICK an \in Nat : an = amount * n
  OBVIOUS
<1>5. e - 30 * an <= 60 * a /\ 60 * a <= e + 30 * an
  <2>1. amount * (60 * units - exact + 30 * n) >= 0 /\ amount * (exact + 30 * n - 60 * units) >= 0
    <3>1. PICK u \in Nat : u = 60 * units - exact + 30 * n
      OBVIOUS
    <3>2. PICK v \in Nat : v = exact + 30 * n - 60 * units
      OBVIOUS
    <3>3. amount * u >= 0 /\ amount * v >= 0
      BY <3>1, <3>2
    <3> QED
      BY <3>1, <3>2, <3>3
  <2>2. /\ amount * (60 * units - exact + 30 * n) = 60 * (amount * units) - amount * exact + 30 * (amount * n)
        /\ amount * (exact + 30 * n - 60 * units) = amount * exact + 30 * (amount * n) - 60 * (amount * units)
    OBVIOUS
  <2> QED
    BY <1>1, <1>3, <1>4, <2>1, <2>2
<1>6. PICK bn \in Nat : bn = base * n /\ an <= bn /\ base <= bn
  <2>1. (base - amount) * n >= 0 /\ base * (n - 1) >= 0
    <3>1. PICK d \in Nat : d = base - amount
      OBVIOUS
    <3>2. PICK m \in Nat : m = n - 1
      OBVIOUS
    <3>3. d * n >= 0 /\ base * m >= 0
      OBVIOUS
    <3> QED
      BY <3>1, <3>2, <3>3
  <2>2. (base - amount) * n = base * n - amount * n /\ base * (n - 1) = base * n - base
    OBVIOUS
  <2>3. base * n \in Nat
    OBVIOUS
  <2> QED
    BY <1>4, <2>1, <2>2, <2>3
<1>7. booked * base * 60 = 60 * p /\ n * base * 60 = 60 * bn
  BY <1>2, <1>6
<1>8. e - 60 * bn <= 60 * p /\ 60 * p <= e + 60 * bn
  BY <1>2, <1>5, <1>6
<1> QED
  BY <1>3, <1>7, <1>8

\* What one unit of a line carries of the operator's base, times 60.
UnitBase(s, i) ==
  (60 \div row[s].lines[i].quantity) *
    (IF row[s].bearer = "COOP" THEN lineGross(row[s].lines[i]) ELSE lineNet(row[s].lines[i]))

\* The base of the units in a column, times 60.
BaseOf(s, units) ==
  Total([i \in DOMAIN row[s].lines |-> units[i] * UnitBase(s, i)], DOMAIN row[s].lines)

\* A unit carries a whole number of sixtieths of a cent.
LEMMA UnitBaseType ==
  ASSUME NEW s \in SettledSales, RowOK(s), NEW i \in DOMAIN row[s].lines
  PROVE  UnitBase(s, i) \in Nat /\ lineGross(row[s].lines[i]) \in Nat
<1>1. PICK q \in 1 .. 5, price \in Nat, net \in Nat :
        /\ q = row[s].lines[i].quantity /\ price = row[s].lines[i].price
        /\ net = lineNet(row[s].lines[i])
  BY TheSale
<1>2. PICK u \in Nat : u = 60 \div q
  BY Sixtieth
<1>3. price * q \in Nat
  OBVIOUS
<1>4. lineGross(row[s].lines[i]) \in Nat
  BY <1>1, <1>3 DEF lineGross
<1>5. PICK w \in Nat : w = IF row[s].bearer = "COOP" THEN lineGross(row[s].lines[i])
                                                      ELSE lineNet(row[s].lines[i])
  BY <1>1, <1>4
<1>6. u * w \in Nat
  OBVIOUS
<1> QED
  BY <1>1, <1>2, <1>4, <1>5, <1>6 DEF UnitBase

\* The units refunded so far and those of one more refund carry what they
\* carry together.
LEMMA BaseAdds ==
  ASSUME NEW s \in SettledSales, RowOK(s), NEW old \in [DOMAIN row[s].lines -> Nat],
         NEW back \in [DOMAIN row[s].lines -> Nat]
  PROVE  /\ BaseOf(s, old) \in Int /\ BaseOf(s, back) \in Int
         /\ BaseOf(s, [i \in DOMAIN row[s].lines |-> old[i] + back[i]]) =
              BaseOf(s, old) + BaseOf(s, back)
<1> DEFINE ids == DOMAIN row[s].lines
           f == [i \in ids |-> old[i] * UnitBase(s, i)]
           g == [i \in ids |-> back[i] * UnitBase(s, i)]
           both == [i \in ids |-> old[i] + back[i]]
           h == [i \in ids |-> both[i] * UnitBase(s, i)]
<1>1. IsFiniteSet(ids)
  BY TheSale
<1>2. ASSUME NEW i \in ids
      PROVE  /\ f[i] \in Int /\ g[i] \in Int /\ h[i] = f[i] + g[i]
  <2>1. PICK u \in Nat, m \in Nat, n \in Nat : u = UnitBase(s, i) /\ m = old[i] /\ n = back[i]
    BY UnitBaseType
  <2>2. m * u \in Int /\ n * u \in Int /\ (m + n) * u = m * u + n * u
    OBVIOUS
  <2> QED
    BY <2>1, <2>2
<1>3. IntegerOn(f, ids) /\ IntegerOn(g, ids)
  BY <1>2 DEF IntegerOn
<1>4. BaseOf(s, old) = Total(f, ids) /\ BaseOf(s, back) = Total(g, ids) /\ BaseOf(s, both) = Total(h, ids)
  BY DEF BaseOf
<1> HIDE DEF f, g, h, ids
<1> QED
  BY <1>1, <1>2, <1>3, <1>4, TotalAdd, TotalType DEF both, ids

\* One refund takes back the share its units carried, up to a cent per line.
LEMMA RefundClawback ==
  ASSUME NEW s \in SettledSales, RowOK(s), refunded[s].amount \in Int,
         refunded[s].operatorAmount \in Int, NEW back \in Refunds(s),
         \E i \in DOMAIN back : back[i] > 0, row[s].bearer # "SHARED"
  PROVE  LET n == Cardinality(DOMAIN row[s].lines)
             booked == ProratedClawback(row[s], back) * row[s].operatorBase * 60
             exact == row[s].operatorAmount * BaseOf(s, back)
         IN  /\ n \in Nat
             /\ exact - n * row[s].operatorBase * 60 <= booked
             /\ booked <= exact + n * row[s].operatorBase * 60
<1> DEFINE ids == DOMAIN row[s].lines
           f == [i \in ids |-> back[i] * UnitBase(s, i)]
           nets == [i \in ids |-> ShareOf(lineNet(row[s].lines[i]), row[s].lines[i], back[i])]
           gross == [i \in ids |-> row[s].lines[i].price * back[i]]
           cb == IF row[s].bearer = "COOP" THEN gross ELSE nets
           g == [i \in ids |-> 60 * cb[i]]
<1>1. back \in [ids -> 0 .. 5] /\ DOMAIN back = ids /\ IsFiniteSet(ids) /\ ids # {}
  BY TheSale DEF Refunds
<1>2. PICK n \in Nat \ {0} : n = Cardinality(ids)
  BY <1>1, FS_CardinalityType, FS_EmptySet
<1>3. ASSUME NEW i \in ids
      PROVE  /\ cb[i] \in Nat /\ f[i] \in Int /\ g[i] \in Int
             /\ f[i] - 30 <= g[i] /\ g[i] <= f[i] + 30
  <2>1. PICK q \in 1 .. 5, price \in Nat, net \in Nat, b \in Nat :
          /\ q = row[s].lines[i].quantity /\ price = row[s].lines[i].price
          /\ net = lineNet(row[s].lines[i]) /\ b = back[i]
    BY <1>1, TheSale
  <2>2. PICK u \in Nat : u = 60 \div q /\ q * u = 60
    BY Sixtieth
  <2>3. CASE row[s].bearer = "COOP"
    <3>1. cb[i] = price * b /\ f[i] = b * (u * (price * q))
      BY <2>1, <2>2, <2>3 DEF UnitBase, lineGross
    <3>2. u * (price * q) = price * (q * u)
      OBVIOUS
    <3>3. b * (price * 60) = 60 * (price * b) /\ price * b \in Nat
      OBVIOUS
    <3>4. PICK k \in Nat : k = price * b
      BY <3>3
    <3>5. cb[i] = k /\ f[i] = 60 * k /\ g[i] = 60 * k
      BY <2>2, <3>1, <3>2, <3>3, <3>4
    <3> HIDE DEF f, g, cb
    <3> QED
      BY <3>5
  <2>4. CASE row[s].bearer # "COOP"
    <3>1. cb[i] = Rounded(net * b, q) /\ f[i] = b * (u * net)
      BY <2>1, <2>2, <2>4 DEF UnitBase, ShareOf
    <3>2. b * u * net = b * (u * net) /\ b * (u * net) \in Int
      OBVIOUS
    <3>3. /\ Rounded(net * b, q) \in Nat
          /\ b * (60 \div q) * net - 30 <= 60 * Rounded(net * b, q)
          /\ 60 * Rounded(net * b, q) <= b * (60 \div q) * net + 30
      BY ShareError
    <3> QED
      BY <2>2, <3>1, <3>2, <3>3
  <2> QED
    BY <2>3, <2>4
<1> HIDE DEF f, g, cb
<1>4. PICK units \in Nat : units = ClawbackBase(row[s], back) /\ units = Total(cb, ids)
  <2>1. ClawbackBase(row[s], back) = Total(cb, ids)
    BY <1>1 DEF cb, ClawbackBase, RefundedGross, RefundedNet, Sum
  <2>2. NaturalOn(cb, ids)
    BY <1>3 DEF NaturalOn
  <2> QED
    BY <1>1, <2>1, <2>2, TotalNatural
<1>5. BaseOf(s, back) = Total(f, ids)
  BY DEF BaseOf, f
<1>6. Total(g, ids) = 60 * units
  <2>1. IntegerOn(cb, ids)
    BY <1>3 DEF IntegerOn
  <2> QED
    BY <1>1, <1>4, <2>1, TotalScaled DEF g
<1>7. IntegerOn(f, ids) /\ IntegerOn(g, ids)
  BY <1>3 DEF IntegerOn
<1>8. PICK exact \in Int :
        /\ exact = BaseOf(s, back)
        /\ exact - 30 * n <= 60 * units /\ 60 * units <= exact + 30 * n
  <2> HIDE DEF ids
  <2> QED
    BY <1>1, <1>2, <1>3, <1>5, <1>6, <1>7, TotalNear
<1>9. PICK base \in Nat, amount \in Nat :
        base = row[s].operatorBase /\ amount = row[s].operatorAmount /\ amount <= base
  BY TheSale
<1>10. PICK booked \in Nat : booked = ProratedClawback(row[s], back)
  BY PlanType
<1>11. CASE base = 0
  <2>1. amount = 0 /\ booked = 0
    BY <1>9, <1>10, <1>11 DEF ProratedClawback
  <2>2. amount * exact = 0 /\ booked * base * 60 = 0 /\ n * base * 60 = 0
    BY <1>11, <2>1
  <2> QED
    BY <1>2, <1>8, <1>9, <1>10, <2>2
<1>12. CASE base # 0
  <2>1. base \in Nat \ {0}
    BY <1>12
  <2>2. booked = Rounded(amount * units, base)
    BY <1>4, <1>9, <1>10, <1>12 DEF ProratedClawback
  <2>3. amount \in 0 .. base /\ n \in Nat \ {0}
    BY <1>2, <1>9
  <2>4. /\ amount * exact - n * base * 60 <= booked * base * 60
        /\ booked * base * 60 <= amount * exact + n * base * 60
    BY <1>8, <2>1, <2>2, <2>3, TwoRoundings, Zenon
  <2> QED
    BY <1>2, <1>8, <1>9, <1>10, <2>4
<1> QED
  BY <1>11, <1>12

\* BaseBack is the base of the units refunded so far.
LEMMA BaseBackIs ==
  ASSUME NEW s \in SettledSales, RowOK(s), NEW units \in [DOMAIN row[s].lines -> Nat]
  PROVE  Total([i \in DOMAIN row[s].lines |->
                  units[i] * (60 \div row[s].lines[i].quantity) *
                    (IF row[s].bearer = "COOP" THEN lineGross(row[s].lines[i])
                                               ELSE lineNet(row[s].lines[i]))],
               DOMAIN row[s].lines) = BaseOf(s, units)
<1> DEFINE ids == DOMAIN row[s].lines
           w(i) == IF row[s].bearer = "COOP" THEN lineGross(row[s].lines[i])
                                             ELSE lineNet(row[s].lines[i])
           f == [i \in ids |-> units[i] * (60 \div row[s].lines[i].quantity) * w(i)]
           g == [i \in ids |-> units[i] * UnitBase(s, i)]
<1>1. ASSUME NEW i \in ids PROVE f[i] = g[i]
  <2>1. PICK t \in Nat, u \in Nat, v \in Nat :
          t = units[i] /\ u = 60 \div row[s].lines[i].quantity /\ v = w(i)
    BY TheSale, UnitBaseType, Sixtieth
  <2>2. t * u * v = t * (u * v)
    OBVIOUS
  <2> QED
    BY <2>1, <2>2 DEF UnitBase
<1>2. f = g
  BY <1>1
<1> QED
  BY <1>2 DEF BaseOf

-----------------------------------------------------------------------------
(* The steps of a sale *)

\* A sale that a step does not touch.
LEMMA SaleAlone ==
  ASSUME NEW s, saleStatus'[s] = saleStatus[s], row'[s] = row[s], refunded'[s] = refunded[s],
         taken'[s] = taken[s], claim'[s] = claim[s], refunds'[s] = refunds[s]
  PROVE  /\ ClaimOK(s) => ClaimOK(s)'
         /\ SaleOK(s) => SaleOK(s)'
         /\ Clawed(s) => Clawed(s)'
<1>1. BaseBack(s)' = BaseBack(s) /\ Refunds(s)' = Refunds(s)
  BY DEF BaseBack, Refunds, Sum
<1>2. ClaimOK(s) => ClaimOK(s)'
  BY <1>1 DEF ClaimOK
<1>3. SaleOK(s) => SaleOK(s)'
  BY DEF SaleOK, RowOK
<1>4. Clawed(s) => Clawed(s)'
  BY <1>1 DEF Clawed
<1> QED
  BY <1>2, <1>3, <1>4

\* createSale writes a row with nothing refunded.
LEMMA createSaleKeeps ==
  ASSUME SalesInv, NEW s \in SettledSales, NEW cart \in Carts, createSale(s, cart)
  PROVE  /\ SalesInv' /\ RowOK(s)'
<1>1. /\ saleStatus[s] = "NONE" /\ SaleAllowed(cart, store) /\ store \in Settings
      /\ saleStatus' = [saleStatus EXCEPT ![s] = "PAID"]
      /\ row' = [row EXCEPT ![s] = SaleRow(cart, store)]
      /\ taken' = [taken EXCEPT ![s] = [i \in DOMAIN cart |-> 0]]
      /\ UNCHANGED <<store, refunded, claim, refunds, paidOut>>
  BY DEF createSale, SalesInv
<1>2. /\ saleStatus'[s] = "PAID" /\ row'[s] = SaleRow(cart, store)
      /\ taken'[s] = [i \in DOMAIN cart |-> 0]
      /\ refunded[s] = NoMoney /\ refunds[s] = 0 /\ claim[s] = Unset
  BY <1>1 DEF SalesInv, ClaimOK
<1>3. RowOK(s)'
  BY <1>1, <1>2 DEF RowOK
<1>4. /\ row'[s].lines = cart /\ row'[s].total \in Nat
      /\ IsFiniteSet(DOMAIN cart)
      /\ row'[s].operatorBase \in Nat /\ row'[s].operatorAmount \in Nat
      /\ \A i \in DOMAIN cart : cart[i].quantity \in 1 .. 5
  BY <1>1, <1>2, SaleRowType, SettlementAssumption
<1>5. SaleOK(s)'
  BY <1>1, <1>2, <1>3, <1>4 DEF SaleOK, NoMoney
<1>6. ClaimOK(s)'
  BY <1>1, <1>2 DEF ClaimOK
<1>7. Clawed(s)'
  <2>1. BaseBack(s)' = 0
    <3> DEFINE w(i) == IF row[s].bearer = "COOP" THEN lineGross(row[s].lines[i])
                                                 ELSE lineNet(row[s].lines[i])
               f == [i \in DOMAIN row[s].lines |->
                       taken[s][i] * (60 \div row[s].lines[i].quantity) * w(i)]
    <3>1. \A i \in DOMAIN cart : (f[i])' = 0
      <4>1. ASSUME NEW i \in DOMAIN cart
            PROVE  /\ 60 \div cart[i].quantity \in Nat
                   /\ lineGross(cart[i]) \in Nat /\ lineNet(cart[i]) \in Nat
        <5>1. 60 \div cart[i].quantity \in Nat
          BY <1>4, Sixtieth
        <5>2. cart[i].price \in Nat /\ cart[i].quantity \in Nat
          BY SettlementAssumption
        <5>3. lineGross(cart[i]) \in Nat
          BY <5>2 DEF lineGross
        <5>4. lineNet(cart[i]) \in Nat
          BY <1>1, SaleRowType
        <5> QED
          BY <5>1, <5>3, <5>4
      <4> QED
        BY <1>2, <1>4, <4>1
    <3>2. Total(f', DOMAIN cart) = 0
      <4> HIDE DEF f
      <4> QED
        BY <3>1, TotalZero
    <3> QED
      BY <1>4, <3>2 DEF BaseBack, Sum
  <2>2. PICK base \in Nat, amount \in Nat, n \in Nat :
          /\ base = row'[s].operatorBase /\ amount = row'[s].operatorAmount
          /\ n = Cardinality(DOMAIN cart)
    BY <1>4, FS_CardinalityType
  <2>3. amount * 0 = 0 /\ 0 * base * 60 = 0 /\ 0 * n * base * 60 = 0
    OBVIOUS
  <2> QED
    BY <1>1, <1>2, <1>4, <2>1, <2>2, <2>3 DEF Clawed, NoMoney
<1>8. ASSUME NEW t \in SettledSales, t # s
      PROVE  /\ ClaimOK(t)' /\ (saleStatus'[t] # "NONE" => SaleOK(t)' /\ Clawed(t)')
             /\ (saleStatus'[t] = "NONE" => refunded'[t] = NoMoney /\ refunds'[t] = 0)
  <2>1. /\ saleStatus'[t] = saleStatus[t] /\ row'[t] = row[t] /\ taken'[t] = taken[t]
        /\ refunded'[t] = refunded[t] /\ claim'[t] = claim[t] /\ refunds'[t] = refunds[t]
    BY <1>1, <1>8 DEF SalesInv
  <2> QED
    BY <2>1, SaleAlone DEF SalesInv
<1>9. /\ saleStatus' \in [SettledSales -> {"NONE", "PAID", "REFUNDING", "REFUNDED"}]
      /\ DOMAIN row' = SettledSales /\ DOMAIN taken' = SettledSales
  BY <1>1 DEF SalesInv
<1> QED
  BY <1>1, <1>2, <1>3, <1>5, <1>6, <1>7, <1>8, <1>9 DEF SalesInv

\* A claim notes what it will refund, on the figures of the sale.
LEMMA claimKeeps ==
  ASSUME SalesInv, NEW s \in SettledSales, NEW back \in Refunds(s), claimRefundInDb(s, back)
  PROVE  SalesInv'
<1> DEFINE plan == planRefundLines(row[s], refunded[s].amount, refunded[s].operatorAmount,
                                   taken[s], back)
<1>1. /\ saleStatus[s] = "PAID" /\ RefundPossible(row[s], refunded[s].amount, taken[s], back)
      /\ saleStatus' = [saleStatus EXCEPT ![s] = "REFUNDING"]
      /\ claim' = [claim EXCEPT ![s] = [back |-> back, plan |-> plan]]
      /\ UNCHANGED <<store, row, refunded, taken, refunds, paidOut>>
  BY DEF claimRefundInDb
<1>2. /\ saleStatus'[s] = "REFUNDING" /\ claim'[s] = [back |-> back, plan |-> plan]
      /\ SaleOK(s) /\ Clawed(s)
  BY <1>1 DEF SalesInv
<1>3. Refunds(s)' = Refunds(s) /\ BaseBack(s)' = BaseBack(s)
  BY <1>1 DEF Refunds, BaseBack, Sum
<1>4. ClaimOK(s)'
  <2>1. claim'[s] # Unset
    <3>1. DOMAIN claim'[s] = {"back", "plan"} /\ DOMAIN Unset = {"state"}
      BY <1>2 DEF Unset
    <3>2. {"back", "plan"} # {"state"}
      OBVIOUS
    <3> QED
      BY <3>1, <3>2
  <2>2. claim'[s].back = back /\ claim'[s].plan = plan
    BY <1>2
  <2> HIDE DEF plan
  <2> QED
    BY <1>1, <1>2, <1>3, <2>1, <2>2 DEF ClaimOK, plan
<1>5. SaleOK(s)' /\ Clawed(s)'
  BY <1>1, <1>2, <1>3 DEF SaleOK, RowOK, Clawed
<1>6. ASSUME NEW t \in SettledSales, t # s
      PROVE  /\ ClaimOK(t)' /\ (saleStatus'[t] # "NONE" => SaleOK(t)' /\ Clawed(t)')
             /\ (saleStatus'[t] = "NONE" => refunded'[t] = NoMoney /\ refunds'[t] = 0)
  <2>1. /\ saleStatus'[t] = saleStatus[t] /\ row'[t] = row[t] /\ taken'[t] = taken[t]
        /\ refunded'[t] = refunded[t] /\ claim'[t] = claim[t] /\ refunds'[t] = refunds[t]
    BY <1>1, <1>6 DEF SalesInv
  <2> QED
    BY <2>1, SaleAlone DEF SalesInv
<1>7. /\ saleStatus' \in [SettledSales -> {"NONE", "PAID", "REFUNDING", "REFUNDED"}]
      /\ DOMAIN claim' = SettledSales
  BY <1>1 DEF SalesInv
<1> QED
  BY <1>1, <1>2, <1>4, <1>5, <1>6, <1>7 DEF SalesInv

\* An aborted refund leaves the figures as they were.
LEMMA abortKeeps ==
  ASSUME SalesInv, NEW s \in SettledSales, abortFailedRefund(s)
  PROVE  SalesInv'
<1>1. /\ saleStatus[s] = "REFUNDING" /\ saleStatus' = [saleStatus EXCEPT ![s] = "PAID"]
      /\ claim' = [claim EXCEPT ![s] = Unset]
      /\ UNCHANGED <<store, row, refunded, taken, refunds, paidOut>>
  BY DEF abortFailedRefund
<1>2. saleStatus'[s] = "PAID" /\ claim'[s] = Unset /\ SaleOK(s) /\ Clawed(s)
  BY <1>1 DEF SalesInv
<1>3. BaseBack(s)' = BaseBack(s)
  BY <1>1 DEF BaseBack, Sum
<1>4. ClaimOK(s)' /\ SaleOK(s)' /\ Clawed(s)'
  BY <1>1, <1>2, <1>3 DEF ClaimOK, SaleOK, RowOK, Clawed
<1>5. ASSUME NEW t \in SettledSales, t # s
      PROVE  /\ ClaimOK(t)' /\ (saleStatus'[t] # "NONE" => SaleOK(t)' /\ Clawed(t)')
             /\ (saleStatus'[t] = "NONE" => refunded'[t] = NoMoney /\ refunds'[t] = 0)
  <2>1. /\ saleStatus'[t] = saleStatus[t] /\ row'[t] = row[t] /\ taken'[t] = taken[t]
        /\ refunded'[t] = refunded[t] /\ claim'[t] = claim[t] /\ refunds'[t] = refunds[t]
    BY <1>1, <1>5 DEF SalesInv
  <2> QED
    BY <2>1, SaleAlone DEF SalesInv
<1>6. /\ saleStatus' \in [SettledSales -> {"NONE", "PAID", "REFUNDING", "REFUNDED"}]
      /\ DOMAIN claim' = SettledSales
  BY <1>1 DEF SalesInv
<1> QED
  BY <1>1, <1>2, <1>4, <1>5, <1>6 DEF SalesInv

\* What finalizeSucceededRefund writes of a sale.
LEMMA FinalizedSale ==
  ASSUME SalesInv, NEW s \in SettledSales, finalizeSucceededRefund(s)
  PROVE  \E back \in Refunds(s), amount \in Int, operatorAmount \in Int :
           /\ RowOK(s) /\ Clawed(s) /\ saleStatus[s] = "REFUNDING"
           /\ taken[s] \in [DOMAIN row[s].lines -> Nat]
           /\ RefundPossible(row[s], refunded[s].amount, taken[s], back)
           /\ refunded[s].amount + amount <= row[s].total
           /\ saleStatus'[s] = IF refundsAllRemaining(row[s], taken[s], back) THEN "REFUNDED" ELSE "PAID"
           /\ refundsAllRemaining(row[s], taken[s], back) =>
                /\ refunded[s].amount + amount = row[s].total
                /\ refunded[s].operatorAmount + operatorAmount = row[s].operatorAmount
           /\ ~refundsAllRemaining(row[s], taken[s], back) =>
                operatorAmount = ProratedClawback(row[s], back)
           /\ refunded' \in [SettledSales -> [amount : Int, operatorAmount : Int]]
           /\ refunded'[s].amount = refunded[s].amount + amount
           /\ refunded'[s].operatorAmount = refunded[s].operatorAmount + operatorAmount
           /\ taken'[s] = [i \in DOMAIN row[s].lines |-> taken[s][i] + back[i]]
           /\ claim'[s] = Unset /\ refunds'[s] = refunds[s] + 1
           /\ UNCHANGED <<store, row, paidOut>>
<1> DEFINE plan == planRefundLines(row[s], refunded[s].amount, refunded[s].operatorAmount,
                                   taken[s], claim[s].back)
<1>1. /\ saleStatus[s] = "REFUNDING" /\ ClaimOK(s) /\ SaleOK(s) /\ Clawed(s)
      /\ refunded[s] \in [amount : Int, operatorAmount : Int]
  BY DEF finalizeSucceededRefund, SalesInv
<1>2. PICK back \in Refunds(s) :
        /\ back = claim[s].back /\ claim[s].plan = plan
        /\ RefundPossible(row[s], refunded[s].amount, taken[s], back)
  BY <1>1 DEF ClaimOK
<1>3. RowOK(s) /\ taken[s] \in [DOMAIN row[s].lines -> Nat]
  BY <1>1 DEF SaleOK
<1>4. PICK amount \in Int, operatorAmount \in Int :
        /\ amount = plan.amount /\ operatorAmount = plan.operatorAmount
        /\ refunded[s].amount + amount <= row[s].total
        /\ refundsAllRemaining(row[s], taken[s], back) =>
             /\ refunded[s].amount + amount = row[s].total
             /\ refunded[s].operatorAmount + operatorAmount = row[s].operatorAmount
        /\ ~refundsAllRemaining(row[s], taken[s], back) =>
             operatorAmount = ProratedClawback(row[s], back)
  BY <1>1, <1>2, <1>3, PlanType
<1> HIDE DEF plan
<1>5. /\ refunded' \in [SettledSales -> [amount : Int, operatorAmount : Int]]
      /\ refunded'[s].amount = refunded[s].amount + amount
      /\ refunded'[s].operatorAmount = refunded[s].operatorAmount + operatorAmount
  <2>1. refunded' = [refunded EXCEPT ![s] =
          [amount |-> refunded[s].amount + amount,
           operatorAmount |-> refunded[s].operatorAmount + operatorAmount]]
    BY <1>2, <1>4 DEF finalizeSucceededRefund
  <2>2. refunded \in [SettledSales -> [amount : Int, operatorAmount : Int]]
    BY DEF SalesInv
  <2> QED
    BY <2>1, <2>2
<1>6. /\ taken'[s] = [i \in DOMAIN row[s].lines |-> taken[s][i] + back[i]]
      /\ saleStatus'[s] = IF refundsAllRemaining(row[s], taken[s], back) THEN "REFUNDED" ELSE "PAID"
      /\ claim'[s] = Unset /\ refunds'[s] = refunds[s] + 1
      /\ UNCHANGED <<store, row, paidOut>>
  BY <1>2, <1>3 DEF finalizeSucceededRefund, SalesInv
<1> QED
  BY <1>1, <1>2, <1>3, <1>4, <1>5, <1>6

\* A finalized refund adds a share within a cent per line of what it should,
\* and the last one makes up for all the cents.
LEMMA finalizeKeepsSale ==
  ASSUME SalesInv, NEW s \in SettledSales, finalizeSucceededRefund(s)
  PROVE  ClaimOK(s)' /\ SaleOK(s)' /\ Clawed(s)'
<1>1. PICK back \in Refunds(s), amount \in Int, operatorAmount \in Int :
           /\ RowOK(s) /\ Clawed(s) /\ saleStatus[s] = "REFUNDING"
           /\ taken[s] \in [DOMAIN row[s].lines -> Nat]
           /\ RefundPossible(row[s], refunded[s].amount, taken[s], back)
           /\ refunded[s].amount + amount <= row[s].total
           /\ saleStatus'[s] = IF refundsAllRemaining(row[s], taken[s], back) THEN "REFUNDED" ELSE "PAID"
           /\ refundsAllRemaining(row[s], taken[s], back) =>
                /\ refunded[s].amount + amount = row[s].total
                /\ refunded[s].operatorAmount + operatorAmount = row[s].operatorAmount
           /\ ~refundsAllRemaining(row[s], taken[s], back) =>
                operatorAmount = ProratedClawback(row[s], back)
           /\ refunded' \in [SettledSales -> [amount : Int, operatorAmount : Int]]
           /\ refunded'[s].amount = refunded[s].amount + amount
           /\ refunded'[s].operatorAmount = refunded[s].operatorAmount + operatorAmount
           /\ taken'[s] = [i \in DOMAIN row[s].lines |-> taken[s][i] + back[i]]
           /\ claim'[s] = Unset /\ refunds'[s] = refunds[s] + 1
           /\ UNCHANGED <<store, row, paidOut>>
  BY FinalizedSale
<1>2. /\ refunded'[s].amount = refunded[s].amount + amount
      /\ refunded'[s].operatorAmount = refunded[s].operatorAmount + operatorAmount
      /\ refunded[s].amount \in Int /\ refunded[s].operatorAmount \in Int /\ refunds[s] \in Nat
  BY <1>1 DEF SalesInv
<1>3. back \in [DOMAIN row[s].lines -> Nat] /\ DOMAIN back = DOMAIN row[s].lines
  BY DEF Refunds
<1>4. taken'[s] \in [DOMAIN row[s].lines -> Nat] /\ RowOK(s)'
  BY <1>1, <1>3 DEF RowOK
<1>5. ClaimOK(s)'
  BY <1>1 DEF ClaimOK
<1>6. SaleOK(s)'
  <2>1. \A i \in DOMAIN row[s].lines : taken'[s][i] <= row[s].lines[i].quantity
    BY <1>1, <1>3 DEF RefundPossible
  <2> QED
    BY <1>1, <1>2, <1>4, <2>1 DEF SaleOK
<1>7. Clawed(s)'
  <2> SUFFICES ASSUME saleStatus'[s] # "REFUNDED", row[s].bearer # "SHARED" PROVE Clawed(s)'
    BY <1>1 DEF Clawed
  <2>1. PICK base \in Nat, share \in Nat :
          base = row[s].operatorBase /\ share = row[s].operatorAmount
    BY <1>1, TheSale
  <2>2. PICK old \in Int, more \in Int :
          /\ old = BaseBack(s) /\ more = BaseOf(s, back) /\ BaseBack(s)' = old + more
    <3>1. BaseBack(s) = BaseOf(s, taken[s])
      BY <1>1, BaseBackIs DEF BaseBack, Sum
    <3>2. PICK sum \in [DOMAIN row[s].lines -> Nat] :
            sum = taken'[s] /\ sum = [i \in DOMAIN row[s].lines |-> taken[s][i] + back[i]]
      BY <1>1, <1>4
    <3>3. BaseBack(s)' = BaseOf(s, sum)
      <4>1. BaseBack(s)' = Total([i \in DOMAIN row[s].lines |->
                    sum[i] * (60 \div row[s].lines[i].quantity) *
                      (IF row[s].bearer = "COOP" THEN lineGross(row[s].lines[i])
                                                 ELSE lineNet(row[s].lines[i]))],
                 DOMAIN row[s].lines)
        BY <1>1, <3>2 DEF BaseBack, Sum
      <4> QED
        BY <1>1, <4>1, BaseBackIs
    <3>4. /\ BaseOf(s, taken[s]) \in Int /\ BaseOf(s, back) \in Int
          /\ BaseOf(s, [i \in DOMAIN row[s].lines |-> taken[s][i] + back[i]]) =
               BaseOf(s, taken[s]) + BaseOf(s, back)
      BY <1>1, <1>3, BaseAdds
    <3> QED
      BY <3>1, <3>2, <3>3, <3>4
  <2>3. PICK n \in Nat :
          /\ n = Cardinality(DOMAIN row[s].lines)
          /\ share * more - n * base * 60 <= operatorAmount * base * 60
          /\ operatorAmount * base * 60 <= share * more + n * base * 60
    <3>1. \E i \in DOMAIN back : back[i] > 0
      BY <1>1 DEF RefundPossible
    <3> QED
      BY <1>1, <1>2, <2>1, <2>2, <3>1, RefundClawback
  <2>4. PICK k \in Nat, b \in Int : k = refunds[s] /\ b = refunded[s].operatorAmount
    BY <1>2
  <2>5. /\ share * old - k * n * base * 60 <= b * base * 60
        /\ b * base * 60 <= share * old + k * n * base * 60
    BY <1>1, <2>1, <2>2, <2>3, <2>4 DEF Clawed
  <2>6. /\ share * (old + more) = share * old + share * more
        /\ (b + operatorAmount) * base * 60 = b * base * 60 + operatorAmount * base * 60
        /\ (k + 1) * n * base * 60 = k * n * base * 60 + n * base * 60
    <3>1. share * (old + more) = share * old + share * more
      OBVIOUS
    <3>2. PICK x \in Int, y \in Int : x = b * base /\ y = operatorAmount * base
      OBVIOUS
    <3>3. (b + operatorAmount) * base = x + y
      BY <3>2
    <3>4. PICK z \in Int : z = k * n
      OBVIOUS
    <3>5. (k + 1) * n = z + n
      BY <3>4
    <3>6. PICK v \in Int, w \in Int : v = z * base /\ w = n * base
      OBVIOUS
    <3>7. (z + n) * base = v + w
      BY <3>6
    <3> QED
      BY <3>1, <3>2, <3>3, <3>4, <3>5, <3>6, <3>7
  <2>7. PICK so \in Int, sm \in Int, bb \in Int, ob \in Int, kn \in Int, nb \in Int :
          /\ so = share * old /\ sm = share * more /\ bb = b * base * 60
          /\ ob = operatorAmount * base * 60 /\ kn = k * n * base * 60 /\ nb = n * base * 60
    <3>1. share * old \in Int /\ share * more \in Int
      OBVIOUS
    <3>2. b * base * 60 \in Int /\ operatorAmount * base * 60 \in Int
      OBVIOUS
    <3>3. k * n * base * 60 \in Int /\ n * base * 60 \in Int
      OBVIOUS
    <3> QED
      BY <3>1, <3>2, <3>3, Zenon
  <2>8. /\ (so + sm) - (kn + nb) <= bb + ob
        /\ bb + ob <= (so + sm) + (kn + nb)
    BY <2>3, <2>5, <2>7
  <2>9. /\ share * (old + more) - (k + 1) * n * base * 60 <= (b + operatorAmount) * base * 60
        /\ (b + operatorAmount) * base * 60 <= share * (old + more) + (k + 1) * n * base * 60
    BY <2>6, <2>7, <2>8
  <2> QED
    BY <1>1, <1>2, <2>1, <2>2, <2>3, <2>4, <2>9 DEF Clawed
<1> QED
  BY <1>5, <1>6, <1>7

\* finalizeSucceededRefund keeps the figures of every sale.
LEMMA finalizeRefundKeeps ==
  ASSUME SalesInv, NEW s \in SettledSales, finalizeSucceededRefund(s)
  PROVE  SalesInv'
<1>1. ClaimOK(s)' /\ SaleOK(s)' /\ Clawed(s)' /\ saleStatus'[s] # "NONE"
  BY finalizeKeepsSale, FinalizedSale
<1>2. /\ refunded' \in [SettledSales -> [amount : Int, operatorAmount : Int]]
      /\ UNCHANGED <<store, row, paidOut>>
  BY FinalizedSale
<1>3. /\ saleStatus' \in [SettledSales -> {"NONE", "PAID", "REFUNDING", "REFUNDED"}]
      /\ DOMAIN taken' = SettledSales /\ DOMAIN claim' = SettledSales
      /\ refunds' \in [SettledSales -> Nat]
  BY DEF finalizeSucceededRefund, SalesInv
<1>4. ASSUME NEW t \in SettledSales, t # s
      PROVE  /\ ClaimOK(t)' /\ (saleStatus'[t] # "NONE" => SaleOK(t)' /\ Clawed(t)')
             /\ (saleStatus'[t] = "NONE" => refunded'[t] = NoMoney /\ refunds'[t] = 0)
  <2>1. /\ saleStatus'[t] = saleStatus[t] /\ row'[t] = row[t] /\ taken'[t] = taken[t]
        /\ refunded'[t] = refunded[t] /\ claim'[t] = claim[t] /\ refunds'[t] = refunds[t]
    BY <1>4 DEF finalizeSucceededRefund, SalesInv
  <2> QED
    BY <2>1, SaleAlone DEF SalesInv
<1> QED
  BY <1>1, <1>2, <1>3, <1>4 DEF SalesInv

\* Settings and payouts leave the sales alone.
LEMMA SalesStay ==
  ASSUME SalesInv, UNCHANGED saleVars, store' \in Settings, paidOut' \in 0 .. MaxPaidOut
  PROVE  SalesInv'
<1>1. UNCHANGED <<saleStatus, row, refunded, taken, claim, refunds>>
  BY DEF saleVars
<1>2. \A s \in SettledSales : /\ ClaimOK(s) => ClaimOK(s)'
                              /\ SaleOK(s) => SaleOK(s)'
                              /\ Clawed(s) => Clawed(s)'
  BY <1>1, SaleAlone
<1> QED
  BY <1>1, <1>2 DEF SalesInv

-----------------------------------------------------------------------------
(* Payouts *)

Payouts == [role : {"STORE_ADMIN", "COOP_ADMIN"}, amount : PayoutAmounts,
            accrued : SUBSET Int, paid : SUBSET Int, overtaken : BOOLEAN]

\* Who was not overtaken knows no more accrued than there is, and all that was
\* paid out.
PayerOK(r) ==
  /\ payer[r] \in Payouts
  /\ ~payer[r].overtaken =>
       /\ \A accrued \in payer[r].accrued : accrued <= operatorAccrued
       /\ \A paid \in payer[r].paid : paid = paidOut

PayersInv ==
  /\ DOMAIN payer = Payers
  /\ \A r \in Payers : payer[r] # Unset => PayerOK(r)

SettlementInv == SalesInv /\ PayersInv

\* A payout under way is told from none.
LEMMA PayoutIsSet ==
  ASSUME NEW p \in Payouts
  PROVE  p # Unset
<1>1. DOMAIN p = {"role", "amount", "accrued", "paid", "overtaken"} /\ DOMAIN Unset = {"state"}
  BY DEF Payouts, Unset
<1>2. {"role", "amount", "accrued", "paid", "overtaken"} # {"state"}
  OBVIOUS
<1> QED
  BY <1>1, <1>2

\* What is owed follows from the sales made, their rows and their refunds.
LEMMA AccruedType ==
  ASSUME SalesInv
  PROVE  /\ operatorAccrued \in Int /\ IsFiniteSet(Paid)
         /\ \A s \in Paid : row[s].operatorAmount \in Nat /\ refunded[s].operatorAmount \in Int
<1> DEFINE f == [s \in Paid |-> row[s].operatorAmount - refunded[s].operatorAmount]
<1>1. IsFiniteSet(Paid)
  BY SettlementAssumption, FS_Subset DEF Paid
<1>2. \A s \in Paid : row[s].operatorAmount \in Nat /\ refunded[s].operatorAmount \in Int
  <2>1. ASSUME NEW s \in Paid PROVE row[s].operatorAmount \in Nat
    <3>1. s \in SettledSales /\ RowOK(s)
      BY DEF Paid, SalesInv, SaleOK
    <3> QED
      BY <3>1, TheSale
  <2> QED
    BY <2>1 DEF SalesInv, Paid
<1>3. IntegerOn(f, Paid)
  BY <1>2 DEF IntegerOn
<1>4. operatorAccrued = Total(f, Paid)
  BY DEF operatorAccrued, Sum
<1> HIDE DEF f
<1> QED
  BY <1>1, <1>2, <1>3, <1>4, TotalType

\* Claims, payouts and settings leave what is accrued alone.
LEMMA AccruedStays ==
  ASSUME SalesInv, UNCHANGED <<row, refunded, Paid>>
  PROVE  operatorAccrued' = operatorAccrued
BY DEF operatorAccrued, Sum

\* A sale adds a share that is not negative.
LEMMA AccruedGrows ==
  ASSUME SalesInv, NEW s \in SettledSales, NEW cart \in Carts, createSale(s, cart)
  PROVE  operatorAccrued' \in Int /\ operatorAccrued <= operatorAccrued'
<1> DEFINE f == [t \in Paid |-> row[t].operatorAmount - refunded[t].operatorAmount]
           g == [t \in Paid \cup {s} |-> row'[t].operatorAmount - refunded[t].operatorAmount]
<1>1. /\ saleStatus[s] = "NONE" /\ SaleAllowed(cart, store) /\ store \in Settings
      /\ saleStatus' = [saleStatus EXCEPT ![s] = "PAID"]
      /\ row' = [row EXCEPT ![s] = SaleRow(cart, store)]
      /\ UNCHANGED refunded
  BY DEF createSale, SalesInv
<1>2. Paid' = Paid \cup {s} /\ s \notin Paid
  BY <1>1 DEF Paid, SalesInv
<1>3. /\ operatorAccrued \in Int /\ IsFiniteSet(Paid)
      /\ \A t \in Paid : row[t].operatorAmount \in Nat /\ refunded[t].operatorAmount \in Int
  BY AccruedType
<1>4. \A t \in Paid : row'[t] = row[t]
  BY <1>1, <1>2 DEF SalesInv, Paid
<1>5. PICK share \in Nat : share = row'[s].operatorAmount /\ g[s] = share
  <2>1. row'[s] = SaleRow(cart, store) /\ refunded[s].operatorAmount = 0
    BY <1>1 DEF SalesInv, NoMoney
  <2>2. SaleRow(cart, store).operatorAmount \in Nat
    BY <1>1, SaleRowType
  <2> QED
    BY <2>1, <2>2
<1>6. IntegerOn(g, Paid \cup {s}) /\ IntegerOn(f, Paid) /\ \A t \in Paid : f[t] = g[t]
  <2>1. \A t \in Paid : f[t] = g[t] /\ f[t] \in Int
    BY <1>2, <1>3, <1>4
  <2> QED
    BY <1>5, <2>1 DEF IntegerOn
<1>7. operatorAccrued = Total(f, Paid) /\ operatorAccrued' = Total(g, Paid \cup {s})
  BY <1>1, <1>2 DEF operatorAccrued, Sum
<1> HIDE DEF f, g
<1>8. Total(f, Paid) = Total(g, Paid)
  BY <1>6, TotalExtensional
<1>9. Total(g, Paid \cup {s}) = Total(g, Paid) + share
  <2>1. IsFiniteSet(Paid \cup {s}) /\ (Paid \cup {s}) \ {s} = Paid
    BY <1>2, <1>3, FS_AddElement
  <2> QED
    BY <1>5, <1>6, <2>1, TotalWithout
<1> QED
  BY <1>3, <1>7, <1>8, <1>9

\* Payers that go on, while what is owed has not fallen.
LEMMA PayersStay ==
  ASSUME SettlementInv, UNCHANGED <<payer, paidOut>>, operatorAccrued' \in Int,
         operatorAccrued <= operatorAccrued'
  PROVE  PayersInv'
<1>1. operatorAccrued \in Int
  BY AccruedType DEF SettlementInv
<1>2. ASSUME NEW r \in Payers, PayerOK(r) PROVE PayerOK(r)'
  <2>1. payer[r].accrued \subseteq Int
    BY <1>2 DEF PayerOK, Payouts
  <2> QED
    BY <1>1, <1>2, <2>1 DEF PayerOK
<1> QED
  BY <1>2 DEF SettlementInv, PayersInv

\* A payer that is overtaken is one still.
LEMMA OvertakenType ==
  ASSUME PayersInv, NEW rs, NEW r \in Payers, payer[r] # Unset
  PROVE  /\ Overtaken(rs)[r] \in Payouts
         /\ r \in rs => Overtaken(rs)[r].overtaken
         /\ r \notin rs => Overtaken(rs)[r] = payer[r]
<1>1. payer[r] \in Payouts
  BY DEF PayersInv, PayerOK
<1>2. Overtaken(rs)[r] = IF r \in rs THEN [payer[r] EXCEPT !.overtaken = TRUE] ELSE payer[r]
  BY DEF Overtaken
<1>3. [payer[r] EXCEPT !.overtaken = TRUE] \in Payouts /\ [payer[r] EXCEPT !.overtaken = TRUE].overtaken
  BY <1>1 DEF Payouts
<1> QED
  BY <1>1, <1>2, <1>3

\* What a payer reads is what there is.
LEMMA PayerStepKeeps ==
  ASSUME SettlementInv, NEW r \in Payers,
         \/ \E role \in {"STORE_ADMIN", "COOP_ADMIN"}, amount \in PayoutAmounts :
              BeginPayout(r, role, amount)
         \/ ReadSales(r)
         \/ ReadPayouts(r)
  PROVE  SettlementInv'
<1>1. SalesInv /\ PayersInv /\ UNCHANGED <<store, saleVars, paidOut>>
  BY DEF SettlementInv, BeginPayout, ReadSales, ReadPayouts
<1>2. UNCHANGED <<row, refunded, Paid>>
  BY <1>1 DEF saleVars, Paid
<1>3. SalesInv' /\ operatorAccrued' = operatorAccrued /\ operatorAccrued \in Int /\ paidOut \in Int
  BY <1>1, <1>2, SalesStay, AccruedStays, AccruedType DEF SalesInv
<1>4. /\ DOMAIN payer' = Payers /\ \A q \in Payers \ {r} : payer'[q] = payer[q]
      /\ PayerOK(r)'
  <2>1. ASSUME NEW role \in {"STORE_ADMIN", "COOP_ADMIN"}, NEW amount \in PayoutAmounts,
               BeginPayout(r, role, amount)
        PROVE  /\ DOMAIN payer' = Payers /\ \A q \in Payers \ {r} : payer'[q] = payer[q]
               /\ PayerOK(r)'
    <3>1. /\ DOMAIN payer' = Payers /\ \A q \in Payers \ {r} : payer'[q] = payer[q]
          /\ payer'[r] = [role |-> role, amount |-> amount, accrued |-> {}, paid |-> {},
                          overtaken |-> FALSE]
      BY <1>1, <2>1 DEF BeginPayout, PayersInv
    <3> QED
      BY <3>1 DEF PayerOK, Payouts
  <2>2. CASE ReadSales(r)
    <3>1. payer[r] # Unset /\ PayerOK(r)
      BY <1>1, <2>2 DEF ReadSales, PayersInv
    <3>2. /\ DOMAIN payer' = Payers /\ \A q \in Payers \ {r} : payer'[q] = payer[q]
          /\ payer'[r] = [payer[r] EXCEPT !.accrued = {operatorAccrued}]
      BY <1>1, <2>2 DEF ReadSales, PayersInv
    <3>3. /\ payer'[r] \in Payouts /\ payer'[r].accrued = {operatorAccrued}
          /\ payer'[r].paid = payer[r].paid /\ payer'[r].overtaken = payer[r].overtaken
      BY <1>3, <3>1, <3>2 DEF PayerOK, Payouts
    <3> QED
      BY <1>1, <1>3, <3>1, <3>2, <3>3 DEF PayerOK
  <2>3. CASE ReadPayouts(r)
    <3>1. payer[r] # Unset /\ PayerOK(r)
      BY <1>1, <2>3 DEF ReadPayouts, PayersInv
    <3>2. /\ DOMAIN payer' = Payers /\ \A q \in Payers \ {r} : payer'[q] = payer[q]
          /\ payer'[r] = [payer[r] EXCEPT !.paid = {paidOut}]
      BY <1>1, <2>3 DEF ReadPayouts, PayersInv
    <3>3. /\ payer'[r] \in Payouts /\ payer'[r].accrued = payer[r].accrued
          /\ payer'[r].paid = {paidOut} /\ payer'[r].overtaken = payer[r].overtaken
      BY <1>3, <3>1, <3>2 DEF PayerOK, Payouts
    <3> QED
      BY <1>1, <1>3, <3>1, <3>2, <3>3 DEF PayerOK
  <2> QED
    BY <2>1, <2>2, <2>3
<1>5. \A q \in Payers : payer'[q] # Unset => PayerOK(q)'
  BY <1>1, <1>3, <1>4 DEF PayersInv, PayerOK
<1> QED
  BY <1>3, <1>4, <1>5 DEF SettlementInv, PayersInv

\* A refused payout changes nothing; one that is made overtakes the others.
LEMMA createPayoutKeeps ==
  ASSUME SettlementInv, NEW r \in Payers, createPayout(r)
  PROVE  SettlementInv'
<1>1. SalesInv /\ PayersInv /\ UNCHANGED <<store, saleVars>> /\ payer[r] # Unset /\ PayerOK(r)
  BY DEF SettlementInv, PayersInv, createPayout
<1>2. PICK amount \in Nat : amount = payer[r].amount
  BY <1>1, SettlementAssumption DEF PayerOK, Payouts
<1>3. paidOut' \in {paidOut, paidOut + amount} /\ paidOut' <= MaxPaidOut
  BY <1>2 DEF createPayout
<1>4. UNCHANGED <<row, refunded, Paid>>
  BY <1>1 DEF saleVars, Paid
<1>5. SalesInv' /\ operatorAccrued' = operatorAccrued
  <2>1. paidOut' \in 0 .. MaxPaidOut
    BY <1>1, <1>3, SettlementAssumption DEF SalesInv
  <2> QED
    BY <1>1, <1>4, <2>1, SalesStay, AccruedStays DEF SalesInv
<1>6. /\ DOMAIN payer' = Payers /\ payer'[r] = Unset
      /\ \A q \in Payers \ {r} :
           payer'[q] = IF paidOut' # paidOut THEN Overtaken(Payers \ {r})[q] ELSE payer[q]
  <2>1. DOMAIN Overtaken(Payers \ {r}) = Payers /\ DOMAIN payer = Payers
    BY <1>1 DEF Overtaken, PayersInv
  <2> QED
    BY <2>1 DEF createPayout
<1>7. ASSUME NEW q \in Payers, payer'[q] # Unset PROVE PayerOK(q)'
  <2>1. q # r /\ payer[q] # Unset
    BY <1>6, <1>7 DEF Overtaken
  <2>2. CASE paidOut' # paidOut
    <3>1. payer'[q] \in Payouts /\ payer'[q].overtaken
      BY <1>1, <1>6, <2>1, <2>2, OvertakenType
    <3> QED
      BY <3>1 DEF PayerOK
  <2>3. CASE paidOut' = paidOut
    BY <1>1, <1>5, <1>6, <2>1, <2>3 DEF PayersInv, PayerOK
  <2> QED
    BY <2>2, <2>3
<1> QED
  BY <1>5, <1>6, <1>7 DEF SettlementInv, PayersInv

\* Every step keeps sales and payers.
LEMMA SettlementStep ==
  ASSUME SettlementInv, [SettlementNext]_settlementVars
  PROVE  SettlementInv'
<1>1. SalesInv /\ PayersInv /\ operatorAccrued \in Int
  BY AccruedType DEF SettlementInv
<1>2. ASSUME NEW settings \in Settings, updateStore(settings) PROVE SettlementInv'
  <2>1. /\ SalesInv' /\ UNCHANGED <<row, refunded, Paid, payer, paidOut>>
    <3>1. UNCHANGED <<saleVars, payer, paidOut>> /\ store' \in Settings
      BY <1>2 DEF updateStore
    <3>2. SalesInv'
      BY <1>1, <3>1, SalesStay DEF SalesInv
    <3> QED
      BY <3>1, <3>2 DEF saleVars, Paid
  <2> QED
    BY <1>1, <2>1, AccruedStays, PayersStay DEF SettlementInv
<1>3. ASSUME NEW s \in SettledSales, NEW cart \in Carts, createSale(s, cart) PROVE SettlementInv'
  <2>1. /\ SalesInv' /\ operatorAccrued' \in Int /\ operatorAccrued <= operatorAccrued'
        /\ UNCHANGED <<payer, paidOut>>
    BY <1>1, <1>3, createSaleKeeps, AccruedGrows DEF createSale
  <2> QED
    BY <2>1, PayersStay DEF SettlementInv
<1>4. ASSUME NEW s \in SettledSales, NEW back \in Refunds(s), claimRefundInDb(s, back)
      PROVE  SettlementInv'
  <2>1. SalesInv' /\ UNCHANGED <<row, refunded, payer, paidOut>>
    BY <1>1, <1>4, claimKeeps DEF claimRefundInDb
  <2>2. UNCHANGED Paid
    BY <1>1, <1>4 DEF claimRefundInDb, Paid, SalesInv
  <2> QED
    BY <1>1, <2>1, <2>2, AccruedStays, PayersStay DEF SettlementInv
<1>5. ASSUME NEW s \in SettledSales, abortFailedRefund(s) PROVE SettlementInv'
  <2>1. SalesInv' /\ UNCHANGED <<row, refunded, payer, paidOut>>
    BY <1>1, <1>5, abortKeeps DEF abortFailedRefund
  <2>2. UNCHANGED Paid
    BY <1>1, <1>5 DEF abortFailedRefund, Paid, SalesInv
  <2> QED
    BY <1>1, <2>1, <2>2, AccruedStays, PayersStay DEF SettlementInv
<1>6. ASSUME NEW s \in SettledSales, finalizeSucceededRefund(s) PROVE SettlementInv'
  <2>1. SalesInv' /\ payer' = Overtaken(Payers)
    BY <1>1, <1>6, finalizeRefundKeeps DEF finalizeSucceededRefund
  <2>2. ASSUME NEW r \in Payers, payer'[r] # Unset PROVE PayerOK(r)'
    <3>1. payer[r] # Unset
      BY <2>1, <2>2 DEF Overtaken
    <3> QED
      BY <1>1, <2>1, <3>1, OvertakenType DEF PayerOK
  <2>3. DOMAIN payer' = Payers
    BY <2>1 DEF Overtaken
  <2> QED
    BY <2>1, <2>2, <2>3 DEF SettlementInv, PayersInv
<1>7. CASE UNCHANGED settlementVars
  <2>1. UNCHANGED <<store, saleVars, row, refunded, Paid, payer, paidOut>>
    BY <1>7 DEF settlementVars, saleVars, Paid
  <2>2. SalesInv'
    BY <1>1, <2>1, SalesStay DEF SalesInv
  <2> QED
    BY <1>1, <2>1, <2>2, AccruedStays, PayersStay DEF SettlementInv
<1> QED
  BY <1>2, <1>3, <1>4, <1>5, <1>6, <1>7, PayerStepKeeps, createPayoutKeeps DEF SettlementNext

\* A store opens with no sales and no payouts.
LEMMA SettlementStarts ==
  ASSUME SettlementInit
  PROVE  SettlementInv
<1>1. SalesInv
  BY SettlementAssumption DEF SettlementInit, SalesInv, ClaimOK, NoMoney
<1>2. PayersInv
  BY DEF SettlementInit, PayersInv
<1> QED
  BY <1>1, <1>2 DEF SettlementInv

\* Refunds in any number of parts, of any cart, under settings that change in
\* between: the customer is given no more than was paid, the operator gives back
\* the share the refunded units carried up to a cent per refund and line, and
\* the last unit back returns all of both.
THEOREM RefundsAlwaysAddUp == SettlementSpec => []RefundsAddUp
<1>1. SettlementInv => RefundsAddUp
  <2> SUFFICES ASSUME SettlementInv PROVE RefundsAddUp
    OBVIOUS
  <2>1. SalesInv
    BY DEF SettlementInv
  <2>2. SettlementTypeOK
    BY <2>1 DEF SalesInv, SettlementTypeOK, ClaimOK, SaleOK, Paid
  <2>3. FullRefundNetsToZero /\ CustomerNeverOverRefunded
    BY <2>1 DEF SalesInv, SaleOK, FullRefundNetsToZero, CustomerNeverOverRefunded, Paid
  <2>4. ClawbackProportional
    BY <2>1 DEF SalesInv, Clawed, ClawbackProportional, Paid
  <2> QED
    BY <2>2, <2>3, <2>4 DEF RefundsAddUp
<1> QED
  BY <1>1, SettlementStarts, SettlementStep, PTL DEF SettlementSpec

\* However many payers, sales and refunds overlap: unless another payout or a
\* refund committed after it began to read, a STORE_ADMIN's payout leaves
\* nothing overpaid, although createPayout takes no lock.
THEOREM ConsoleNeverOverpays == SettlementSpec => StoreConsoleNeverOverpays
<1> DEFINE Step == \A r \in Payers :
             (/\ payer[r] # Unset /\ payer'[r] = Unset
              /\ payer[r].role = "STORE_ADMIN" /\ ~payer[r].overtaken
              /\ paidOut' > paidOut)
             => currentlyOwed' >= 0
<1>1. SettlementInv /\ [SettlementNext]_settlementVars => [Step]_settlementVars
  <2> SUFFICES ASSUME SettlementInv, SettlementNext, NEW r \in Payers,
                      payer[r] # Unset, payer'[r] = Unset, payer[r].role = "STORE_ADMIN",
                      ~payer[r].overtaken, paidOut' > paidOut
               PROVE  currentlyOwed' >= 0
    OBVIOUS
  <2>1. SalesInv /\ PayersInv /\ PayerOK(r) /\ paidOut \in Int /\ operatorAccrued \in Int
    BY AccruedType DEF SettlementInv, PayersInv, SalesInv
  <2>2. ~(paidOut' = paidOut)
    BY <2>1
  <2>3. PICK q \in Payers : createPayout(q)
    BY <2>2 DEF SettlementNext, updateStore, createSale, claimRefundInDb, finalizeSucceededRefund,
                abortFailedRefund, BeginPayout, ReadSales, ReadPayouts
  <2>4. q = r
    <3> SUFFICES ASSUME q # r PROVE FALSE
      OBVIOUS
    <3>1. DOMAIN Overtaken(Payers \ {q}) = Payers
      BY DEF Overtaken
    <3>2. payer'[r] = Overtaken(Payers \ {q})[r]
      BY <2>2, <2>3, <3>1 DEF createPayout
    <3>3. payer'[r] \in Payouts
      BY <2>1, <3>2, OvertakenType
    <3> QED
      BY <3>3, PayoutIsSet
  <2>5. PICK accrued \in payer[r].accrued, paid \in payer[r].paid :
          /\ paidOut' = paidOut + payer[r].amount
          /\ payer[r].amount <= accrued - paid
    <3>1. "STORE_ADMIN" # "COOP_ADMIN"
      OBVIOUS
    <3> QED
      BY <2>2, <2>3, <2>4, <3>1 DEF createPayout
  <2>6. /\ accrued \in Int /\ paid = paidOut /\ accrued <= operatorAccrued /\ payer[r].amount \in Nat
    BY <2>1, SettlementAssumption DEF PayerOK, Payouts
  <2>7. operatorAccrued' = operatorAccrued
    <3>1. UNCHANGED <<row, refunded, Paid>>
      BY <2>3 DEF createPayout, saleVars, Paid
    <3> QED
      BY <2>1, <3>1, AccruedStays
  <2> QED
    BY <2>1, <2>5, <2>6, <2>7 DEF currentlyOwed
<1>2. SettlementSpec => []SettlementInv
  BY SettlementStarts, SettlementStep, PTL DEF SettlementSpec
<1>3. SettlementSpec => [][Step]_settlementVars
  <2> HIDE DEF Step
  <2> QED
    BY <1>1, <1>2, PTL DEF SettlementSpec
<1> QED
  BY <1>3 DEF StoreConsoleNeverOverpays

-----------------------------------------------------------------------------
(* The split of a pool *)

\* How far the amounts may be from the pool: half a cent each, doubled.
WithinHalfCents(f, S, pool) ==
  2 * (Total(f, S) - pool) \in -Cardinality(S) .. Cardinality(S)

\* Shares in proportion to the weights, each rounded, come within half a cent
\* each of their part of the pool.
LEMMA SharesAddUp ==
  ASSUME NEW S, IsFiniteSet(S), NEW w, NEW f, NEW pool \in Nat, NEW W \in Nat \ {0},
         \A x \in S : w[x] \in Nat /\ f[x] = Rounded(pool * w[x], W)
  PROVE  /\ 2 * (W * Total(f, S)) <= 2 * (pool * Total(w, S)) + W * Cardinality(S)
         /\ 2 * (pool * Total(w, S)) - W * Cardinality(S) <= 2 * (W * Total(f, S))
<1> DEFINE Close(T) ==
             /\ 2 * (W * Total(f, T)) <= 2 * (pool * Total(w, T)) + W * Cardinality(T)
             /\ 2 * (pool * Total(w, T)) - W * Cardinality(T) <= 2 * (W * Total(f, T))
           Good == {T \in SUBSET S : Close(T)}
<1>1. \A x \in S : /\ w[x] \in Nat /\ f[x] \in Nat
                   /\ 2 * (pool * w[x]) - W <= 2 * (W * f[x]) /\ 2 * (W * f[x]) <= 2 * (pool * w[x]) + W
  <2> SUFFICES ASSUME NEW x \in S
               PROVE  /\ w[x] \in Nat /\ f[x] \in Nat
                      /\ 2 * (pool * w[x]) - W <= 2 * (W * f[x]) /\ 2 * (W * f[x]) <= 2 * (pool * w[x]) + W
    OBVIOUS
  <2>1. pool * w[x] \in Nat /\ w[x] \in Nat /\ f[x] = Rounded(pool * w[x], W)
    OBVIOUS
  <2> QED BY <2>1, RoundedError
<1>2. {} \in Good
  <2>1. Total(f, {}) = 0 /\ Total(w, {}) = 0 /\ Cardinality({}) = 0
    BY TotalZero, FS_EmptySet
  <2>2. Close({})
    BY <2>1
  <2> QED BY <2>2
<1>3. ASSUME NEW T \in SUBSET S, NEW x \in T, T \ {x} \in Good PROVE T \in Good
  <2>1. IsFiniteSet(T) /\ IsFiniteSet(T \ {x}) /\ IntegerOn(f, T) /\ IntegerOn(w, T)
    BY <1>1, FS_Subset DEF IntegerOn
  <2>2. PICK A \in Int : A = Total(f, T \ {x}) /\ Total(f, T) = A + f[x]
    BY <2>1, TotalWithout
  <2>3. PICK B \in Int : B = Total(w, T \ {x}) /\ Total(w, T) = B + w[x]
    BY <2>1, TotalWithout
  <2>4. PICK n \in Nat : n = Cardinality(T \ {x}) /\ Cardinality(T) = n + 1
    BY <2>1, FS_RemoveElement, FS_CardinalityType
  <2>5. PICK g \in Nat, v \in Nat : g = f[x] /\ v = w[x]
    BY <1>1
  <2>6. 2 * (pool * v) - W <= 2 * (W * g) /\ 2 * (W * g) <= 2 * (pool * v) + W
    BY <1>1, <2>5
  <2>7. 2 * (W * A) <= 2 * (pool * B) + W * n /\ 2 * (pool * B) - W * n <= 2 * (W * A)
    BY <1>3, <2>2, <2>3, <2>4
  <2>8. W * (A + g) = W * A + W * g /\ pool * (B + v) = pool * B + pool * v /\ W * (n + 1) = W * n + W
    OBVIOUS
  <2>9. PICK wa \in Int, wg \in Int, pb \in Int, pv \in Int, wn \in Int :
          wa = W * A /\ wg = W * g /\ pb = pool * B /\ pv = pool * v /\ wn = W * n
    OBVIOUS
  <2>10. 2 * (wa + wg) <= 2 * (pb + pv) + (wn + W) /\ 2 * (pb + pv) - (wn + W) <= 2 * (wa + wg)
    BY <2>6, <2>7, <2>9
  <2>11. /\ 2 * (W * (A + g)) <= 2 * (pool * (B + v)) + W * (n + 1)
         /\ 2 * (pool * (B + v)) - W * (n + 1) <= 2 * (W * (A + g))
    BY <2>8, <2>9, <2>10
  <2>12. Close(T)
    BY <2>2, <2>3, <2>4, <2>5, <2>11
  <2> QED BY <2>12
<1>4. S \in Good
  <2> HIDE DEF Good
  <2> QED BY <1>2, <1>3, FiniteInduction
<1> QED BY <1>4

\* So the whole pool is given out, but for half a cent per member.
LEMMA PoolSplit ==
  ASSUME NEW S, IsFiniteSet(S), S # {}, NEW w, NEW f, NEW pool \in Nat,
         \A x \in S : w[x] \in Nat \ {0} /\ f[x] = Rounded(pool * w[x], Total(w, S))
  PROVE  WithinHalfCents(f, S, pool) /\ \A x \in S : f[x] \in Nat
<1>1. NaturalOn(w, S) /\ \E x \in S : w[x] > 0
  BY DEF NaturalOn
<1>2. PICK W \in Nat \ {0} : W = Total(w, S)
  <2>1. Total(w, S) \in Nat /\ \A x \in S : w[x] <= Total(w, S)
    BY <1>1, TotalNatural, TotalMember
  <2> QED BY <1>1, <2>1
<1>3. \A x \in S : f[x] \in Nat
  <2> SUFFICES ASSUME NEW x \in S PROVE f[x] \in Nat
    OBVIOUS
  <2>1. pool * w[x] \in Nat /\ f[x] = Rounded(pool * w[x], W)
    BY <1>2
  <2> QED BY <2>1, RoundedError
<1>4. PICK F \in Int : F = Total(f, S)
  BY <1>3, TotalType DEF IntegerOn
<1>5. PICK n \in Nat : n = Cardinality(S)
  BY FS_CardinalityType
<1>6. 2 * (W * F) <= 2 * (pool * W) + W * n /\ 2 * (pool * W) - W * n <= 2 * (W * F)
  BY <1>2, <1>4, <1>5, SharesAddUp
<1>7. W * (2 * (F - pool) - n) <= 0 /\ 0 <= W * (2 * (F - pool) + n)
  BY <1>6
<1>8. 2 * (F - pool) - n <= 0 /\ 0 <= 2 * (F - pool) + n
  BY <1>7
<1> QED BY <1>3, <1>4, <1>5, <1>8 DEF WithinHalfCents

\* The weights are numbers, and grow with capital and patronage.
LEMMA WeightsGrow ==
  ASSUME NEW method \in {"BY_CAPITAL", "BY_PATRONAGE", "HYBRID"}, NEW percent \in 0 .. 100,
         NEW active, IsFiniteSet(active), NEW capital, NaturalOn(capital, active),
         NEW patronage, IsFiniteSet(DOMAIN patronage), NaturalOn(patronage, DOMAIN patronage),
         NEW m \in active, NEW n \in active, active \subseteq DOMAIN patronage
  PROVE  /\ Weight100(method, percent, capital, patronage, m, active) \in Nat
         /\ capital[m] >= capital[n] /\ patronage[m] >= patronage[n] =>
              Weight100(method, percent, capital, patronage, m, active)
                >= Weight100(method, percent, capital, patronage, n, active)
<1>1. PICK C \in Nat, P \in Nat : C = Total(capital, active) /\ P = Total(patronage, DOMAIN patronage)
  BY TotalNatural
<1>2. PICK p1 \in Nat, c1 \in Nat : p1 = Larger(P, 1) /\ c1 = Larger(C, 1)
  BY DEF Larger
<1>3. PICK cm \in Nat, cn \in Nat, pm \in Nat, pn \in Nat :
        cm = capital[m] /\ cn = capital[n] /\ pm = patronage[m] /\ pn = patronage[n]
  BY DEF NaturalOn
<1>4. PICK k \in Nat, q \in Nat : k = percent /\ q = 100 - percent
  OBVIOUS
<1>5. /\ k * cm * p1 \in Nat /\ k * cn * p1 \in Nat /\ q * pm * c1 \in Nat /\ q * pn * c1 \in Nat
  OBVIOUS
<1>6. cm >= cn => k * cm * p1 >= k * cn * p1
  <2> SUFFICES ASSUME cm >= cn PROVE k * cm * p1 >= k * cn * p1
    OBVIOUS
  <2>1. PICK d \in Nat : cm = cn + d
    OBVIOUS
  <2>2. k * cm * p1 = k * cn * p1 + k * d * p1 /\ k * d * p1 \in Nat
    BY <2>1
  <2> QED BY <2>2, <1>5
<1>7. pm >= pn => q * pm * c1 >= q * pn * c1
  <2> SUFFICES ASSUME pm >= pn PROVE q * pm * c1 >= q * pn * c1
    OBVIOUS
  <2>1. PICK d \in Nat : pm = pn + d
    OBVIOUS
  <2>2. q * pm * c1 = q * pn * c1 + q * d * c1 /\ q * d * c1 \in Nat
    BY <2>1
  <2> QED BY <2>2, <1>5
<1>8. PICK am \in Nat, an \in Nat, bm \in Nat, bn \in Nat :
        am = k * cm * p1 /\ an = k * cn * p1 /\ bm = q * pm * c1 /\ bn = q * pn * c1
  BY <1>5
<1>9. /\ Weight100(method, percent, capital, patronage, m, active) =
           CASE method = "BY_CAPITAL" -> cm [] method = "BY_PATRONAGE" -> pm
             [] method = "HYBRID" -> (IF C > 0 THEN am ELSE 0) + (IF P > 0 THEN bm ELSE 0)
      /\ Weight100(method, percent, capital, patronage, n, active) =
           CASE method = "BY_CAPITAL" -> cn [] method = "BY_PATRONAGE" -> pn
             [] method = "HYBRID" -> (IF C > 0 THEN an ELSE 0) + (IF P > 0 THEN bn ELSE 0)
  BY <1>1, <1>2, <1>3, <1>4, <1>8 DEF Weight100
<1>10. (cm >= cn => am >= an) /\ (pm >= pn => bm >= bn)
  BY <1>6, <1>7, <1>8
<1>11. CASE method = "BY_CAPITAL"
  BY <1>9, <1>11, <1>3
<1>12. CASE method = "BY_PATRONAGE"
  BY <1>9, <1>12, <1>3
<1>13. CASE method = "HYBRID"
  <2>1. PICK x \in Nat, y \in Nat :
          /\ x = (IF C > 0 THEN am ELSE 0) + (IF P > 0 THEN bm ELSE 0)
          /\ y = (IF C > 0 THEN an ELSE 0) + (IF P > 0 THEN bn ELSE 0)
    OBVIOUS
  <2>2. cm >= cn /\ pm >= pn => x >= y
    BY <1>10, <2>1
  <2>3. /\ Weight100(method, percent, capital, patronage, m, active) = x
        /\ Weight100(method, percent, capital, patronage, n, active) = y
    BY <1>9, <1>13, <2>1
  <2> QED BY <2>2, <2>3, <1>3
<1> QED BY <1>11, <1>12, <1>13

\* More is not rounded to less.
LEMMA RoundedGrows ==
  ASSUME NEW a \in Nat, NEW b \in Nat, b <= a, NEW d \in Nat \ {0}
  PROVE  Rounded(b, d) <= Rounded(a, d)
<1> DEFINE e == 2 * d
           x == 2 * a + d
           y == 2 * b + d
           r == x \div e
           q == y \div e
<1>1. x \in Nat /\ y \in Nat /\ y <= x /\ e \in Nat \ {0} /\ q \in Int /\ r \in Int
  OBVIOUS
<1>2. e * q <= y /\ x < e * (r + 1)
  <2> HIDE DEF x, y, e
  <2> QED BY <1>1 DEF q, r
<1>3. Rounded(b, d) = q /\ Rounded(a, d) = r
  BY DEF Rounded
<1> HIDE DEF e, x, y, q, r
<1>4. e * q < e * (r + 1)
  <2>1. e * q \in Int /\ e * (r + 1) \in Int
    BY <1>1
  <2> QED BY <1>1, <1>2, <2>1
<1>5. q < r + 1
  BY <1>1, <1>4
<1> QED BY <1>1, <1>3, <1>5

\* Shares of a pool for some of the active members: they add up to it, and grow
\* with capital and patronage.
FairShares(shares, pool, capital, patronage, active) ==
  /\ DOMAIN shares \subseteq active /\ shares \in [DOMAIN shares -> Nat]
  /\ DOMAIN shares # {} => WithinHalfCents(shares, DOMAIN shares, pool)
  /\ \A m, n \in DOMAIN shares :
       capital[m] >= capital[n] /\ patronage[m] >= patronage[n] => shares[m] >= shares[n]

\* A dividend's allocations add up to the pool, but for half a cent per member,
\* and who has more capital and more patronage gets no less, by whichever method
\* and for whatever members and amounts (allocateDividend,
\* membership.service.ts).
THEOREM DividendIsFair ==
  ASSUME NEW pool \in Nat,
         NEW method \in {"BY_CAPITAL", "BY_PATRONAGE", "HYBRID"}, NEW percent \in 0 .. 100,
         NEW active, IsFiniteSet(active), NEW capital, NaturalOn(capital, active),
         NEW patronage, IsFiniteSet(DOMAIN patronage), NaturalOn(patronage, DOMAIN patronage),
         active \subseteq DOMAIN patronage
  PROVE  FairShares(allocateDividend(pool, method, percent, capital, patronage, active),
                    pool, capital, patronage, active)
<1> DEFINE w == [m \in active |-> Weight100(method, percent, capital, patronage, m, active)]
           S == {m \in active : w[m] > 0}
           shares == allocateDividend(pool, method, percent, capital, patronage, active)
<1>1. /\ \A m \in active : w[m] = Weight100(method, percent, capital, patronage, m, active) /\ w[m] \in Nat
      /\ \A m, n \in active : capital[m] >= capital[n] /\ patronage[m] >= patronage[n] => w[m] >= w[n]
  <2>1. \A m \in active : w[m] = Weight100(method, percent, capital, patronage, m, active)
    OBVIOUS
  <2> HIDE DEF w
  <2> QED BY <2>1, WeightsGrow
<1>2. shares = [m \in S |-> Rounded(pool * w[m], Total(w, S))]
  BY DEF allocateDividend
<1>3. S \subseteq active /\ \A m \in S : w[m] \in Nat \ {0}
  BY <1>1
<1> HIDE DEF w, S, shares
<1>4. IsFiniteSet(S) /\ DOMAIN shares = S /\ \A m \in S : shares[m] = Rounded(pool * w[m], Total(w, S))
  BY <1>2, <1>3, FS_Subset
<1>5. S # {} => WithinHalfCents(shares, S, pool) /\ \A m \in S : shares[m] \in Nat
  <2> SUFFICES ASSUME S # {}
               PROVE  WithinHalfCents(shares, S, pool) /\ \A m \in S : shares[m] \in Nat
    OBVIOUS
  <2>1. \A m \in S : w[m] \in Nat \ {0} /\ shares[m] = Rounded(pool * w[m], Total(w, S))
    BY <1>3, <1>4, Zenon
  <2>2. IsFiniteSet(S)
    BY <1>4, Zenon
  <2> QED BY <2>1, <2>2, PoolSplit, Zenon
<1>6. ASSUME NEW m \in S, NEW n \in S, capital[m] >= capital[n], patronage[m] >= patronage[n]
      PROVE  shares[m] >= shares[n]
  <2>1. PICK a \in Nat, b \in Nat : a = pool * w[m] /\ b = pool * w[n]
    BY <1>3
  <2>2. b <= a
    <3>1. PICK d \in Nat : w[m] = w[n] + d
      <4>1. w[m] >= w[n] /\ w[m] \in Nat /\ w[n] \in Nat
        BY <1>1, <1>3, <1>6
      <4>2. w[m] - w[n] \in Nat /\ w[m] = w[n] + (w[m] - w[n])
        BY <4>1
      <4> QED BY <4>2
    <3>2. pool * w[m] = pool * w[n] + pool * d /\ pool * d \in Nat
      BY <3>1, <1>3
    <3> QED BY <2>1, <3>2
  <2>3. PICK W \in Nat \ {0} : W = Total(w, S)
    <3>1. Total(w, S) \in Nat /\ w[m] <= Total(w, S) /\ w[m] \in Nat \ {0}
      BY <1>3, <1>4, TotalNatural, TotalMember DEF NaturalOn
    <3> QED BY <3>1
  <2>4. shares[m] = Rounded(a, W) /\ shares[n] = Rounded(b, W)
    BY <1>4, <2>1, <2>3
  <2>5. Rounded(b, W) <= Rounded(a, W)
    BY <2>2, RoundedGrows
  <2>6. shares[m] \in Nat /\ shares[n] \in Nat
    BY <1>5
  <2> QED BY <2>4, <2>5, <2>6
<1>7. shares \in [S -> Nat]
  BY <1>2, <1>4, <1>5
<1>8. FairShares(shares, pool, capital, patronage, active)
  BY <1>3, <1>4, <1>5, <1>6, <1>7 DEF FairShares
<1> QED BY <1>8 DEF shares

-----------------------------------------------------------------------------
(* The life of a dividend *)

SomeShares == UNION {[S -> Nat] : S \in SUBSET Holders}
SomeRows == UNION {[S -> AllocationRow] : S \in SUBSET Holders}

\* What a request gives out is the pool.
RunsOK ==
  /\ allocation \in SomeRows
  /\ runOf \in [Treasurers -> {NoRun} \cup ReadRun \cup DeletedRun]
  /\ \A t \in Treasurers : runOf[t] # NoRun =>
       /\ dividend # "NONE" /\ DOMAIN runOf[t].shares # {}
       /\ WithinHalfCents(runOf[t].shares, DOMAIN runOf[t].shares, Pool)

\* Rows are those of requests that have ended, and all of theirs.
WholeRuns(runs, rows) ==
  \A m \in DOMAIN rows :
    /\ runs[rows[m].by] \in DeletedRun /\ runs[rows[m].by].at = "ended"
    /\ m \in DOMAIN runs[rows[m].by].shares
    /\ \A x \in DOMAIN runs[rows[m].by].shares :
         x \in DOMAIN rows /\ rows[x] = [amount |-> runs[rows[m].by].shares[x], by |-> rows[m].by]

\* So are the rows a request saw when it deleted.
RowsWhole ==
  /\ WholeRuns(runOf, allocation)
  /\ \A t \in Treasurers : runOf[t] \in DeletedRun => WholeRuns(runOf, runOf[t].deleted)
  /\ dividend = "ALLOCATED" => DOMAIN allocation # {}

DividendInv == DividendTypeOK /\ RunsOK /\ RowsWhole

\* What is known of a request by how far it is.
LEMMA RunKinds ==
  ASSUME RunsOK, NEW t \in Treasurers, runOf[t] # NoRun
  PROVE  /\ runOf[t].at = "read" => runOf[t] \in ReadRun
         /\ runOf[t].at \in {"deleted", "ended"} => runOf[t] \in DeletedRun
         /\ runOf[t].shares \in SomeShares /\ DOMAIN runOf[t].shares \subseteq Holders
         /\ runOf[t] \in ReadRun \cup DeletedRun
<1>1. runOf[t] \in ReadRun \/ runOf[t] \in DeletedRun
  BY DEF RunsOK
<1>2. runOf[t].shares \in SomeShares
  BY <1>1 DEF ReadRun, DeletedRun, SomeShares
<1>3. DOMAIN runOf[t].shares \subseteq Holders
  BY <1>2 DEF SomeShares
<1>4. runOf[t].at = "read" => runOf[t] \in ReadRun
  BY <1>1 DEF ReadRun, DeletedRun
<1>5. runOf[t].at \in {"deleted", "ended"} => runOf[t] \in DeletedRun
  BY <1>1 DEF ReadRun, DeletedRun
<1> QED BY <1>1, <1>2, <1>3, <1>4, <1>5

\* Rows stay whole while no request that ended changes.
LEMMA WholeFrame ==
  ASSUME NEW runs, NEW next, NEW rows \in SomeRows, WholeRuns(runs, rows),
         \A t \in Treasurers : runs[t] \in DeletedRun /\ runs[t].at = "ended" => next[t] = runs[t]
  PROVE  WholeRuns(next, rows)
<1> SUFFICES ASSUME NEW m \in DOMAIN rows
             PROVE  /\ next[rows[m].by] \in DeletedRun /\ next[rows[m].by].at = "ended"
                    /\ m \in DOMAIN next[rows[m].by].shares
                    /\ \A x \in DOMAIN next[rows[m].by].shares :
                         x \in DOMAIN rows /\ rows[x] = [amount |-> next[rows[m].by].shares[x], by |-> rows[m].by]
  BY DEF WholeRuns
<1>1. rows[m] \in AllocationRow
  BY DEF SomeRows
<1>2. rows[m].by \in Treasurers
  BY <1>1 DEF AllocationRow
<1>3. /\ runs[rows[m].by] \in DeletedRun /\ runs[rows[m].by].at = "ended"
      /\ m \in DOMAIN runs[rows[m].by].shares
      /\ \A x \in DOMAIN runs[rows[m].by].shares :
           x \in DOMAIN rows /\ rows[x] = [amount |-> runs[rows[m].by].shares[x], by |-> rows[m].by]
  BY DEF WholeRuns
<1> QED BY <1>2, <1>3

\* At first nothing is allocated.
LEMMA DividendStart == DividendInit => DividendInv
<1> SUFFICES ASSUME DividendInit PROVE DividendInv
  OBVIOUS
<1>1. allocation \in SomeRows /\ DOMAIN allocation = {}
  <2>1. Empty \in [{} -> AllocationRow] /\ DOMAIN Empty = {}
    BY DEF Empty
  <2>2. {} \in SUBSET Holders
    OBVIOUS
  <2>3. allocation = Empty
    BY Zenon DEF DividendInit
  <2> QED BY <2>1, <2>2, <2>3, Zenon DEF SomeRows
<1>2. RunsOK
  BY <1>1 DEF RunsOK, DividendInit
<1>3. RowsWhole
  BY <1>1, DividendAssumption DEF RowsWhole, WholeRuns, DividendInit
<1>4. DividendTypeOK
  BY <1>1, DividendAssumption DEF DividendTypeOK, DividendInit
<1> QED BY <1>2, <1>3, <1>4 DEF DividendInv

\* Steps that leave the requests and the rows alone.
LEMMA DividendFrame ==
  ASSUME DividendInv, UNCHANGED <<allocation, runOf>>, dividend' = "ALLOCATED" => dividend = "ALLOCATED",
         dividend' = "NONE" => dividend = "NONE",
         DividendTypeOK'
  PROVE  DividendInv'
<1>1. RunsOK'
  BY DEF DividendInv, RunsOK
<1>2. RowsWhole'
  BY DEF DividendInv, RowsWhole
<1> QED BY <1>1, <1>2 DEF DividendInv

\* What goes by capital alone is the pool.
LEMMA CapitalShares ==
  ASSUME NEW capital \in [Holders -> Nat], NEW patronage \in [Holders -> Nat],
         NEW shares, shares = allocateDividend(Pool, "BY_CAPITAL", 50, capital, patronage, Holders)
  PROVE  /\ DOMAIN shares \subseteq Holders /\ shares \in [DOMAIN shares -> Nat]
         /\ DOMAIN shares # {} => WithinHalfCents(shares, DOMAIN shares, Pool)
<1>1. Pool \in Nat /\ IsFiniteSet(Holders) /\ DOMAIN patronage = Holders
  BY DividendAssumption
<1>2. NaturalOn(capital, Holders) /\ NaturalOn(patronage, DOMAIN patronage)
  BY DEF NaturalOn
<1>3. "BY_CAPITAL" \in {"BY_CAPITAL", "BY_PATRONAGE", "HYBRID"} /\ 50 \in 0 .. 100
  OBVIOUS
<1>4. FairShares(shares, Pool, capital, patronage, Holders)
  BY <1>1, <1>2, <1>3, DividendIsFair
<1> QED BY <1>4 DEF FairShares

\* The weights are read: the shares are the pool.
LEMMA ReadKeeps == ASSUME DividendInv, NEW t \in Treasurers, ReadWeights(t) PROVE DividendInv'
<1> DEFINE patronage == [m \in Holders |-> 0]
           shares == allocateDividend(Pool, "BY_CAPITAL", 50, invested, patronage, Holders)
           r == [at |-> "read", shares |-> shares]
<1>1. /\ DOMAIN shares # {} /\ runOf' = [runOf EXCEPT ![t] = r] /\ runOf[t] = NoRun /\ dividend = "DECLARED"
      /\ UNCHANGED <<resolution, dividend, allocation, invested, transfers>>
  BY DEF ReadWeights
<1>2. /\ DOMAIN shares \subseteq Holders /\ shares \in [DOMAIN shares -> Nat]
      /\ DOMAIN shares # {} => WithinHalfCents(shares, DOMAIN shares, Pool)
  <2>1. invested \in [Holders -> Nat]
    BY DividendAssumption DEF DividendInv, DividendTypeOK
  <2>2. patronage \in [Holders -> Nat]
    OBVIOUS
  <2>4. shares = allocateDividend(Pool, "BY_CAPITAL", 50, invested, patronage, Holders)
    OBVIOUS
  <2> HIDE DEF patronage, shares
  <2> QED BY <2>1, <2>2, <2>4, CapitalShares
<1> HIDE DEF patronage, shares
<1>3. r \in ReadRun /\ r.shares = shares /\ r.at = "read" /\ r \notin DeletedRun
  <2>1. shares \in UNION {[S -> Nat] : S \in SUBSET Holders}
    BY <1>2
  <2> QED BY <2>1 DEF ReadRun, DeletedRun
<1> HIDE DEF r
<1>4. /\ runOf' \in [Treasurers -> {NoRun} \cup ReadRun \cup DeletedRun]
      /\ runOf'[t] = r /\ \A u \in Treasurers : u # t => runOf'[u] = runOf[u]
  BY <1>1, <1>3 DEF DividendInv, RunsOK
<1>5. RunsOK'
  BY <1>1, <1>2, <1>3, <1>4 DEF DividendInv, RunsOK
<1>6. \A u \in Treasurers : runOf[u] \in DeletedRun => u # t /\ runOf'[u] = runOf[u]
  BY <1>1, <1>4, DividendAssumption
<1>7. WholeRuns(runOf', allocation)
  BY <1>6, WholeFrame DEF DividendInv, RunsOK, RowsWhole
<1>8. ASSUME NEW u \in Treasurers, runOf'[u] \in DeletedRun
      PROVE  WholeRuns(runOf', runOf'[u].deleted)
  <2>1. runOf'[u] = runOf[u]
    BY <1>3, <1>4, <1>8
  <2>2. runOf[u].deleted \in SomeRows /\ WholeRuns(runOf, runOf[u].deleted)
    BY <1>8, <2>1 DEF DividendInv, RowsWhole, DeletedRun, SomeRows
  <2> QED BY <2>1, <2>2, <1>6, WholeFrame
<1>9. RowsWhole'
  BY <1>1, <1>7, <1>8 DEF DividendInv, RowsWhole
<1>10. DividendTypeOK'
  BY <1>1 DEF DividendInv, DividendTypeOK
<1> QED BY <1>5, <1>9, <1>10 DEF DividendInv

\* The rows that are there are deleted.
LEMMA DeleteKeeps == ASSUME DividendInv, NEW t \in Treasurers, DeleteRows(t) PROVE DividendInv'
<1> DEFINE r == [at |-> "deleted", shares |-> runOf[t].shares, deleted |-> allocation]
<1>1. /\ runOf' = [runOf EXCEPT ![t] = r] /\ runOf[t] # NoRun /\ runOf[t].at = "read"
      /\ UNCHANGED <<resolution, dividend, allocation, invested, transfers>>
  BY DEF DeleteRows
<1>2. /\ runOf[t] \in ReadRun /\ runOf[t].shares \in SomeShares
      /\ allocation \in SomeRows /\ WholeRuns(runOf, allocation)
  BY <1>1, RunKinds DEF DividendInv, RunsOK, RowsWhole
<1>3. r \in DeletedRun /\ r.shares = runOf[t].shares /\ r.deleted = allocation
  BY <1>2 DEF DeletedRun, SomeRows, SomeShares
<1> HIDE DEF r
<1>4. /\ runOf' \in [Treasurers -> {NoRun} \cup ReadRun \cup DeletedRun]
      /\ runOf'[t] = r /\ \A u \in Treasurers : u # t => runOf'[u] = runOf[u]
  BY <1>1, <1>3 DEF DividendInv, RunsOK
<1>5. RunsOK'
  BY <1>1, <1>3, <1>4 DEF DividendInv, RunsOK
<1>6. \A u \in Treasurers : runOf[u] \in DeletedRun /\ runOf[u].at = "ended" => runOf'[u] = runOf[u]
  BY <1>1, <1>4
<1>7. WholeRuns(runOf', allocation)
  BY <1>2, <1>6, WholeFrame
<1>8. ASSUME NEW u \in Treasurers, runOf'[u] \in DeletedRun
      PROVE  WholeRuns(runOf', runOf'[u].deleted)
  <2>1. CASE u = t
    BY <2>1, <1>3, <1>4, <1>7
  <2>2. CASE u # t
    <3>1. runOf'[u] = runOf[u]
      BY <2>2, <1>4
    <3>2. runOf[u].deleted \in SomeRows /\ WholeRuns(runOf, runOf[u].deleted)
      BY <1>8, <3>1 DEF DividendInv, RowsWhole, DeletedRun, SomeRows
    <3> QED BY <3>1, <3>2, <1>6, WholeFrame
  <2> QED BY <2>1, <2>2
<1>9. RowsWhole'
  BY <1>1, <1>7, <1>8 DEF DividendInv, RowsWhole
<1>10. DividendTypeOK'
  BY <1>1 DEF DividendInv, DividendTypeOK
<1> QED BY <1>5, <1>9, <1>10 DEF DividendInv

\* Rows are written beside whole requests only.
LEMMA WriteKeeps == ASSUME DividendInv, NEW t \in Treasurers, WriteRows(t) PROVE DividendInv'
<1> DEFINE r == [runOf[t] EXCEPT !.at = "ended"]
           shares == runOf[t].shares
           seen == runOf[t].deleted
<1>1. /\ runOf[t] # NoRun /\ runOf[t].at = "deleted" /\ UNCHANGED <<resolution, invested, transfers>>
      /\ runOf' = [runOf EXCEPT ![t].at = "ended"]
  BY DEF WriteRows
<1>2. /\ runOf[t] \in DeletedRun /\ shares \in SomeShares /\ seen \in SomeRows
      /\ allocation \in SomeRows /\ WholeRuns(runOf, allocation) /\ WholeRuns(runOf, seen)
      /\ DOMAIN shares # {} /\ runOf \in [Treasurers -> {NoRun} \cup ReadRun \cup DeletedRun]
  BY <1>1, RunKinds DEF DividendInv, RunsOK, RowsWhole, DeletedRun, SomeRows
<1>3. r \in DeletedRun /\ r.shares = shares /\ r.deleted = seen /\ r.at = "ended"
  BY <1>2 DEF DeletedRun
<1>4. /\ runOf' \in [Treasurers -> {NoRun} \cup ReadRun \cup DeletedRun]
      /\ runOf'[t] = r /\ \A u \in Treasurers : u # t => runOf'[u] = runOf[u]
  <2>1. runOf' = [runOf EXCEPT ![t] = r]
    BY <1>1, <1>2
  <2> HIDE DEF r
  <2> QED BY <2>1, <1>2, <1>3
<1>0. Written(t) = DOMAIN shares
  BY DEF Written
<1> HIDE DEF r
<1>6. \A u \in Treasurers : runOf[u] \in DeletedRun /\ runOf[u].at = "ended" => u # t /\ runOf'[u] = runOf[u]
  BY <1>1, <1>4
<1>7. WholeRuns(runOf', allocation)
  BY <1>2, <1>6, WholeFrame
<1>8. ASSUME NEW u \in Treasurers, runOf'[u] \in DeletedRun
      PROVE  WholeRuns(runOf', runOf'[u].deleted)
  <2>1. CASE u = t
    BY <2>1, <1>2, <1>3, <1>4, <1>6, WholeFrame
  <2>2. CASE u # t
    <3>1. runOf'[u] = runOf[u]
      BY <2>2, <1>4
    <3>2. runOf[u].deleted \in SomeRows /\ WholeRuns(runOf, runOf[u].deleted)
      BY <1>8, <3>1 DEF DividendInv, RowsWhole, DeletedRun, SomeRows
    <3> QED BY <3>1, <3>2, <1>6, WholeFrame
  <2> QED BY <2>1, <2>2
<1>9. CASE Written(t) \cap Newer(t) # {}
  <2>1. UNCHANGED <<allocation, dividend>>
    BY <1>9 DEF WriteRows
  <2>2. RunsOK'
    BY <2>1, <1>1, <1>2, <1>3, <1>4 DEF DividendInv, RunsOK
  <2>3. RowsWhole'
    BY <2>1, <1>7, <1>8 DEF DividendInv, RowsWhole
  <2>4. DividendTypeOK'
    BY <2>1, <1>1 DEF DividendInv, DividendTypeOK
  <2> QED BY <2>2, <2>3, <2>4 DEF DividendInv
<1>10. CASE Written(t) \cap Newer(t) = {}
  <2> DEFINE new == Newer(t)
  <2>1. /\ allocation' = [m \in Written(t) \cup new |->
                              IF m \in Written(t) THEN [amount |-> shares[m], by |-> t] ELSE allocation[m]]
        /\ dividend' = "ALLOCATED"
    BY <1>10 DEF WriteRows
  <2>2. new = {m \in DOMAIN allocation : m \notin DOMAIN seen \/ seen[m] # allocation[m]}
    BY DEF Newer
  <2>3. DOMAIN shares \subseteq Holders /\ DOMAIN allocation \subseteq Holders
        /\ (\A m \in DOMAIN shares : shares[m] \in Nat)
        /\ \A m \in DOMAIN allocation : allocation[m] \in AllocationRow
    BY <1>2 DEF SomeShares, SomeRows
  <2> HIDE DEF new
  <2>4. /\ DOMAIN allocation' = DOMAIN shares \cup new /\ new \subseteq DOMAIN allocation
        /\ \A m \in DOMAIN shares : allocation'[m] = [amount |-> shares[m], by |-> t]
        /\ \A m \in new : m \notin DOMAIN shares /\ allocation'[m] = allocation[m]
    BY <1>0, <1>10, <2>1, <2>2 DEF new
  <2>5a. ASSUME NEW m \in DOMAIN shares PROVE allocation'[m] \in AllocationRow /\ allocation'[m].by = t
    <3>1. PICK n \in Nat : n = shares[m]
      BY <2>3
    <3>2. allocation'[m] = [amount |-> n, by |-> t]
      BY <2>4, <3>1
    <3> QED BY <3>2 DEF AllocationRow
  <2>5. \A m \in DOMAIN allocation' : allocation'[m] \in AllocationRow
    BY <2>3, <2>4, <2>5a
  <2>6. DOMAIN allocation' \subseteq Holders /\ DOMAIN allocation' # {}
    BY <1>2, <2>3, <2>4
  <2>7. allocation' \in SomeRows
    <3>1. allocation' \in [DOMAIN allocation' -> AllocationRow]
      BY <2>1, <2>5
    <3> QED BY <3>1, <2>6 DEF SomeRows
  <2>8. RunsOK'
    BY <2>1, <2>7, <1>1, <1>2, <1>3, <1>4 DEF DividendInv, RunsOK
  <2>9. WholeRuns(runOf', allocation')
    <3> SUFFICES ASSUME NEW m \in DOMAIN allocation'
        PROVE  /\ runOf'[allocation'[m].by] \in DeletedRun /\ runOf'[allocation'[m].by].at = "ended"
               /\ m \in DOMAIN runOf'[allocation'[m].by].shares
               /\ \A x \in DOMAIN runOf'[allocation'[m].by].shares :
                    /\ x \in DOMAIN allocation'
                    /\ allocation'[x] = [amount |-> runOf'[allocation'[m].by].shares[x], by |-> allocation'[m].by]
      BY DEF WholeRuns
    <3>1. CASE m \in DOMAIN shares
      <4>1. allocation'[m].by = t /\ runOf'[t].shares = shares
        BY <3>1, <2>5a, <1>3, <1>4
      <4> QED BY <3>1, <4>1, <2>4, <1>3, <1>4
    <3>2. CASE m \in new
      <4>1. PICK u \in Treasurers : u = allocation[m].by /\ allocation'[m].by = u
        BY <3>2, <2>3, <2>4 DEF AllocationRow
      <4>2. /\ runOf[u] \in DeletedRun /\ runOf[u].at = "ended" /\ m \in DOMAIN runOf[u].shares
            /\ \A x \in DOMAIN runOf[u].shares :
                 x \in DOMAIN allocation /\ allocation[x] = [amount |-> runOf[u].shares[x], by |-> u]
        BY <4>1, <3>2, <2>4, <1>2 DEF WholeRuns
      <4>3. runOf'[u] = runOf[u]
        BY <4>2, <1>6
      <4>4. ASSUME NEW x \in DOMAIN runOf[u].shares PROVE x \in new
        <5>1. x \in DOMAIN allocation /\ allocation[x] = [amount |-> runOf[u].shares[x], by |-> u]
              /\ allocation[m] = [amount |-> runOf[u].shares[m], by |-> u]
          BY <4>2
        <5>2. SUFFICES ASSUME x \in DOMAIN seen, seen[x] = allocation[x] PROVE FALSE
          BY <5>1, <2>2
        <5>3. seen[x].by = u
          BY <5>1, <5>2
        <5>4. m \in DOMAIN seen /\ seen[m] = [amount |-> runOf[u].shares[m], by |-> u]
          BY <5>2, <5>3, <4>2, <1>2 DEF WholeRuns
        <5> QED BY <5>1, <5>4, <3>2, <2>2
      <4> QED BY <4>1, <4>2, <4>3, <4>4, <2>4
    <3> QED BY <3>1, <3>2, <2>4
  <2>10. RowsWhole'
    BY <2>6, <2>9, <1>8 DEF RowsWhole
  <2>11. resolution = "PASSED"
    <3>1. dividend # "NONE"
      BY <1>1 DEF DividendInv, RunsOK
    <3> QED BY <3>1 DEF DividendInv, DividendTypeOK
  <2>12. DividendTypeOK'
    BY <2>1, <2>5, <2>6, <2>11, <1>1 DEF DividendInv, DividendTypeOK
  <2> QED BY <2>8, <2>10, <2>12 DEF DividendInv
<1> QED BY <1>9, <1>10

\* Every step keeps the rows whole.
LEMMA DividendSteps == DividendInv /\ [DividendNext]_dividendVars => DividendInv'
<1> SUFFICES ASSUME DividendInv, [DividendNext]_dividendVars PROVE DividendInv'
  OBVIOUS
<1>1. CASE createBoardResolution
  <2>1. DividendTypeOK'
    BY <1>1 DEF createBoardResolution, DividendInv, DividendTypeOK
  <2> QED BY <1>1, <2>1, DividendFrame DEF createBoardResolution
<1>2. CASE passBoardResolution
  <2>1. DividendTypeOK'
    BY <1>2 DEF passBoardResolution, DividendInv, DividendTypeOK
  <2> QED BY <1>2, <2>1, DividendFrame DEF passBoardResolution
<1>3. CASE declareDividend
  <2>1. DividendTypeOK'
    BY <1>3 DEF declareDividend, DividendInv, DividendTypeOK
  <2> QED BY <1>3, <2>1, DividendFrame DEF declareDividend
<1>4. ASSUME NEW m \in Holders, NEW amount \in Holdings, CapitalMoves(m, amount) PROVE DividendInv'
  <2>1. DividendTypeOK'
    <3>1. transfers' \in 0 .. MaxTransfers
      BY <1>4, DividendAssumption DEF CapitalMoves, DividendInv, DividendTypeOK
    <3> QED BY <3>1, <1>4 DEF CapitalMoves, DividendInv, DividendTypeOK
  <2> QED BY <1>4, <2>1, DividendFrame DEF CapitalMoves
<1>5. ASSUME NEW t \in Treasurers, ReadWeights(t) \/ DeleteRows(t) \/ WriteRows(t) PROVE DividendInv'
  BY <1>5, ReadKeeps, DeleteKeeps, WriteKeeps
<1>6. CASE UNCHANGED dividendVars
  <2>1. DividendTypeOK'
    BY <1>6 DEF dividendVars, DividendInv, DividendTypeOK
  <2> QED BY <1>6, <2>1, DividendFrame DEF dividendVars
<1> QED BY <1>1, <1>2, <1>3, <1>4, <1>5, <1>6 DEF DividendNext

\* The columns of a row.
LEMMA RowColumns ==
  ASSUME NEW n, NEW t, NEW entry, entry = [amount |-> n, by |-> t]
  PROVE  entry.amount = n /\ entry.by = t
  OBVIOUS

\* Whole requests give out the pool once, or have no member in common.
LEMMA DividendInvIsEnough == DividendInv => DividendSound
<1> SUFFICES ASSUME DividendInv PROVE DividendSound
  OBVIOUS
<1> DEFINE amount == [m \in DOMAIN allocation |-> allocation[m].amount]
           authors == {allocation[m].by : m \in DOMAIN allocation}
           gap == 2 * (Total(amount, DOMAIN amount) - Pool)
           apart == \E t, u \in authors : DOMAIN runOf[t].shares \cap DOMAIN runOf[u].shares = {}
<1>1. SUFFICES ASSUME dividend = "ALLOCATED"
               PROVE  apart \/ gap \in -Cardinality(DOMAIN amount) .. Cardinality(DOMAIN amount)
  BY DEF DividendInv, DividendSound, PoolGivenOutOnce
<1>2. /\ WholeRuns(runOf, allocation) /\ allocation \in SomeRows /\ DOMAIN allocation # {}
  BY <1>1 DEF DividendInv, RunsOK, RowsWhole
<1>3. \A m \in DOMAIN allocation : allocation[m] \in AllocationRow /\ allocation[m].by \in Treasurers
  BY <1>2 DEF SomeRows, AllocationRow
<1>4. PICK m \in DOMAIN allocation : TRUE
  BY <1>2
<1>5. PICK t \in Treasurers : t = allocation[m].by /\ t \in authors
  BY <1>3
<1>6. /\ runOf[t] \in DeletedRun
      /\ \A x \in DOMAIN runOf[t].shares :
           x \in DOMAIN allocation /\ allocation[x] = [amount |-> runOf[t].shares[x], by |-> t]
  BY <1>2, <1>5 DEF WholeRuns
<1>7. CASE DOMAIN allocation = DOMAIN runOf[t].shares
  <2>1. WithinHalfCents(runOf[t].shares, DOMAIN runOf[t].shares, Pool) /\ runOf[t].shares \in SomeShares
    <3>1. runOf[t] # NoRun
      BY <1>6, DividendAssumption
    <3> QED BY <3>1, RunKinds DEF DividendInv, RunsOK
  <2>2. amount = runOf[t].shares
    <3>1. ASSUME NEW x \in DOMAIN runOf[t].shares PROVE amount[x] = runOf[t].shares[x]
      <4>1. x \in DOMAIN allocation /\ allocation[x] = [amount |-> runOf[t].shares[x], by |-> t]
        BY <1>6
      <4> QED BY <4>1, RowColumns
    <3>2. DOMAIN amount = DOMAIN runOf[t].shares
      BY <1>7
    <3> QED BY <2>1, <3>1, <3>2 DEF SomeShares
  <2> QED BY <2>1, <2>2 DEF WithinHalfCents
<1>8. CASE DOMAIN allocation # DOMAIN runOf[t].shares
  <2>1. PICK n \in DOMAIN allocation : n \notin DOMAIN runOf[t].shares
    BY <1>6, <1>8
  <2>2. PICK u \in Treasurers : u = allocation[n].by /\ u \in authors
    BY <1>3
  <2>3. /\ n \in DOMAIN runOf[u].shares
        /\ \A x \in DOMAIN runOf[u].shares :
             x \in DOMAIN allocation /\ allocation[x] = [amount |-> runOf[u].shares[x], by |-> u]
    BY <1>2, <2>2 DEF WholeRuns
  <2>4. u # t
    BY <2>1, <2>3
  <2>5. ASSUME NEW x \in DOMAIN runOf[t].shares PROVE allocation[x].by = t
    <3>1. allocation[x] = [amount |-> runOf[t].shares[x], by |-> t]
      BY <1>6
    <3> QED BY <3>1, RowColumns
  <2>6. ASSUME NEW x \in DOMAIN runOf[u].shares PROVE allocation[x].by = u
    <3>1. allocation[x] = [amount |-> runOf[u].shares[x], by |-> u]
      BY <2>3
    <3> QED BY <3>1, RowColumns
  <2>7. DOMAIN runOf[t].shares \cap DOMAIN runOf[u].shares = {}
    BY <2>4, <2>5, <2>6
  <2> HIDE DEF authors
  <2> QED BY <1>5, <2>2, <2>7
<1> QED BY <1>7, <1>8

\* A dividend's pool is given out once, however many administrators allocate it
\* at once and whatever capital moves between their reads, unless two of them
\* saw no member in common (declareDividend, allocateDividend,
\* membership.service.ts).
THEOREM DividendStaysSound == DividendSpec => []DividendSound
  BY DividendStart, DividendSteps, DividendInvIsEnough, PTL DEF DividendSpec

-----------------------------------------------------------------------------
(* Member benefits *)

\* The benefits that may go to a line, when the lines before it have `before`.
Candidates(storeId, line, active, cart, prior, before) ==
  {b \in Eligible(active, cart, prior) :
     /\ scopeMatchesLine(active[b], storeId, line)
     /\ HasRoom(active[b], prior, Cardinality({k \in DOMAIN before : before[k] = b}))
     /\ computeLineDiscount(active[b], grossOf(line)) > 0}

NextWinner(storeId, line, active, cart, prior, before) ==
  Winner(active, Candidates(storeId, line, active, cart, prior, before), grossOf(line))

WinnersAfter(w, n, storeId, cart, active, prior) ==
  IF n = 0 THEN <<>> ELSE Append(w[n - 1], NextWinner(storeId, cart[n], active, cart, prior, w[n - 1]))

\* w are the winners of the first line, the first two, up to the first k.
Resolves(w, k, storeId, cart, active, prior) ==
  w = [n \in 0 .. k |-> WinnersAfter(w, n, storeId, cart, active, prior)]

\* The lines can be resolved one after the other.
LEMMA WinnersExist ==
  ASSUME NEW k \in Nat, NEW storeId, NEW cart, NEW active, NEW prior
  PROVE  \E w : Resolves(w, k, storeId, cart, active, prior)
<1> DEFINE Good == {n \in Nat : \E w : Resolves(w, n, storeId, cart, active, prior)}
           After(w, n) == WinnersAfter(w, n, storeId, cart, active, prior)
<1>1. 0 \in Good
  <2> DEFINE w == [n \in 0 .. 0 |-> <<>>]
  <2>1. Resolves(w, 0, storeId, cart, active, prior)
    BY DEF Resolves, WinnersAfter
  <2> QED BY <2>1
<1>2. ASSUME NEW n \in Nat, n \in Good PROVE n + 1 \in Good
  <2>1. PICK w : Resolves(w, n, storeId, cart, active, prior)
    BY <1>2
  <2> DEFINE last == Append(w[n], NextWinner(storeId, cart[n + 1], active, cart, prior, w[n]))
             g == [i \in 0 .. n + 1 |-> IF i = n + 1 THEN last ELSE w[i]]
  <2>2. ASSUME NEW i \in 0 .. n + 1 PROVE g[i] = After(g, i)
    <3>1. CASE i = n + 1
      <4>1. g[i - 1] = w[n] /\ i # 0 /\ g[i] = last
        BY <3>1
      <4> HIDE DEF g
      <4> QED BY <3>1, <4>1 DEF WinnersAfter
    <3>2. CASE i # n + 1
      <4>1. i \in 0 .. n /\ g[i] = w[i] /\ (i # 0 => g[i - 1] = w[i - 1])
        BY <3>2
      <4>2. w[i] = After(w, i)
        BY <2>1, <4>1 DEF Resolves
      <4> HIDE DEF g
      <4> QED BY <4>1, <4>2 DEF WinnersAfter
    <3> QED BY <3>1, <3>2
  <2>3. Resolves(g, n + 1, storeId, cart, active, prior)
    <3>1. g = [i \in 0 .. n + 1 |-> g[i]]
      OBVIOUS
    <3> HIDE DEF g
    <3> QED BY <2>2, <3>1 DEF Resolves
  <2> QED BY <2>3
<1>3. Nat \subseteq Good
  <2> HIDE DEF Good
  <2> QED BY <1>1, <1>2, NumbersInduction
<1> QED BY <1>3

\* What is computed is the last of them.
LEMMA WinnersComputed ==
  ASSUME NEW storeId, NEW cart, NEW active, NEW prior, Len(cart) \in Nat
  PROVE  \E w : /\ Resolves(w, Len(cart), storeId, cart, active, prior)
                /\ WinnersOf(storeId, cart, active, prior) = w[Len(cart)]
<1>1. \E w : Resolves(w, Len(cart), storeId, cart, active, prior)
  BY WinnersExist
<1> DEFINE w == CHOOSE f : f = [n \in 0 .. Len(cart) |->
        IF n = 0 THEN <<>>
        ELSE LET line == cart[n]
                 before == f[n - 1]
                 used(b) == Cardinality({k \in DOMAIN before : before[k] = b})
                 candidates == {b \in Eligible(active, cart, prior) :
                   /\ scopeMatchesLine(active[b], storeId, line)
                   /\ HasRoom(active[b], prior, used(b))
                   /\ computeLineDiscount(active[b], grossOf(line)) > 0}
             IN  Append(before, Winner(active, candidates, grossOf(line)))]
<1>2. Resolves(w, Len(cart), storeId, cart, active, prior)
  BY <1>1 DEF Resolves, WinnersAfter, NextWinner, Candidates
<1>3. WinnersOf(storeId, cart, active, prior) = w[Len(cart)]
  BY DEF WinnersOf
<1> QED BY <1>2, <1>3

\* The benefits of a member with what was used of them (MemberBenefit,
\* MemberBenefitUsage): a cap is a number or there is none.
BenefitsOK(active, prior) ==
  /\ \A b \in DOMAIN active :
       /\ active[b].value \in Nat /\ active[b].priority \in Int /\ active[b].max \in Nat \cup {-1}
       /\ active[b].id \in DOMAIN prior /\ prior[active[b].id] \in Nat
  /\ \A b, c \in DOMAIN active : active[b].id = active[c].id => b = c

CartOK(cart) == \A k \in DOMAIN cart : cart[k].price \in Nat /\ cart[k].quantity \in Nat

\* The lines of a cart that have benefit b.
Given(winners, b) == Cardinality({k \in DOMAIN winners : winners[k] = b})

\* Of finitely many rows one has the least number.
LEMMA LeastRow ==
  ASSUME NEW S, IsFiniteSet(S), S # {}, NEW f, IntegerOn(f, S)
  PROVE  \E x \in S : \A y \in S : f[x] <= f[y]
<1> DEFINE g == [x \in S |-> -f[x]]
<1>1. IntegerOn(g, S) /\ \A x \in S : g[x] = -f[x] /\ f[x] \in Int
  BY DEF IntegerOn
<1> HIDE DEF g
<1>2. PICK x \in S : \A y \in S : g[y] <= g[x]
  BY <1>1, LastRow
<1>3. \A y \in S : f[x] <= f[y]
  BY <1>1, <1>2
<1> QED BY <1>3

\* A discount is a number, and not more than the line where a percentage is not
\* more than a hundred.
LEMMA DiscountWithin ==
  ASSUME NEW benefit, benefit.value \in Nat, NEW gross \in Nat
  PROVE  /\ computeLineDiscount(benefit, gross) \in Nat
         /\ (benefit.type \in percentTypes => benefit.value <= 100)
              => computeLineDiscount(benefit, gross) \in 0 .. gross
<1>1. CASE gross <= 0
  BY <1>1 DEF computeLineDiscount
<1>2. CASE ~(gross <= 0) /\ benefit.type \in percentTypes
  <2>1. computeLineDiscount(benefit, gross) = PercentOf(benefit.value, gross)
    BY <1>2 DEF computeLineDiscount
  <2>2. PercentOf(benefit.value, gross) \in Nat
    <3>1. PICK n \in Nat : n = benefit.value * gross
      OBVIOUS
    <3>2. Rounded(n, 100) \in Nat
      BY RoundedError
    <3> QED BY <3>1, <3>2 DEF PercentOf
  <2>3. ASSUME benefit.value <= 100 PROVE PercentOf(benefit.value, gross) \in 0 .. gross
    <3>1. benefit.value \in 0 .. 100
      BY <2>3
    <3> QED BY <3>1, PercentWithin
  <2> QED BY <1>2, <2>1, <2>2, <2>3
<1>3. CASE ~(gross <= 0) /\ benefit.type \notin percentTypes
  <2>1. computeLineDiscount(benefit, gross) = Smaller(benefit.value, gross)
    BY <1>3 DEF computeLineDiscount
  <2>2. Smaller(benefit.value, gross) \in 0 .. gross
    BY DEF Smaller
  <2> QED BY <2>1, <2>2
<1> QED BY <1>1, <1>2, <1>3

\* Who wins a line was a candidate.
LEMMA WinnerOfCandidates ==
  ASSUME NEW active, NEW C \in SUBSET Nat, IsFiniteSet(C), NEW gross \in Nat,
         \A b \in C : active[b].value \in Nat /\ active[b].priority \in Int
  PROVE  IF C = {} THEN Winner(active, C, gross) = 0 ELSE Winner(active, C, gross) \in C
<1>1. CASE C = {}
  BY <1>1 DEF Winner
<1>2. CASE C # {}
  <2> DEFINE best == {b \in C : \A c \in C : active[b].priority <= active[c].priority}
             discount(b) == computeLineDiscount(active[b], gross)
             top == {b \in best : \A c \in best : discount(b) >= discount(c)}
             f == [b \in C |-> active[b].priority]
             g == [b \in best |-> discount(b)]
             h == [b \in top |-> b]
  <2>1. best \subseteq C /\ top \subseteq best
    OBVIOUS
  <2>2. best # {} /\ IsFiniteSet(best)
    <3>1. IntegerOn(f, C)
      BY DEF IntegerOn
    <3>2. PICK b \in C : \A c \in C : f[b] <= f[c]
      <4> HIDE DEF f
      <4> QED BY <1>2, <3>1, LeastRow
    <3>3. b \in best
      BY <3>2
    <3>4. IsFiniteSet(best)
      <4> HIDE DEF best
      <4> QED BY <2>1, FS_Subset
    <3> QED BY <3>3, <3>4
  <2>3. top # {} /\ IsFiniteSet(top)
    <3>1. \A b \in best : discount(b) \in Nat
      <4> SUFFICES ASSUME NEW b \in best PROVE discount(b) \in Nat
        OBVIOUS
      <4>1. active[b].value \in Nat
        OBVIOUS
      <4> QED BY <4>1, DiscountWithin
    <3>2. IntegerOn(g, best)
      <4> HIDE DEF best, discount
      <4> QED BY <3>1 DEF IntegerOn
    <3>3. PICK b \in best : \A c \in best : g[c] <= g[b]
      <4> HIDE DEF g, best
      <4> QED BY <2>2, <3>2, LastRow
    <3>4. \A c \in best : discount(b) >= discount(c)
      <4> HIDE DEF best, discount
      <4>1. \A c \in best : g[c] = discount(c)
        OBVIOUS
      <4> HIDE DEF g
      <4> QED BY <3>1, <3>3, <4>1
    <3>5. b \in top
      <4> HIDE DEF best, discount
      <4> QED BY <3>4
    <3>6. IsFiniteSet(top)
      <4> HIDE DEF best, top
      <4> QED BY <2>1, <2>2, FS_Subset
    <3> QED BY <3>5, <3>6
  <2>4. \E b \in top : \A c \in top : b <= c
    <3>1. IntegerOn(h, top) /\ \A b \in top : h[b] = b
      <4>1. top \subseteq Nat
        BY <2>1
      <4> HIDE DEF top
      <4> QED BY <4>1 DEF IntegerOn
    <3>2. PICK b \in top : \A c \in top : h[b] <= h[c]
      <4> HIDE DEF h, top
      <4> QED BY <2>3, <3>1, LeastRow
    <3> HIDE DEF h, top
    <3> QED BY <3>1, <3>2
  <2>5. Winner(active, C, gross) = CHOOSE b \in top : \A c \in top : b <= c
    BY <1>2 DEF Winner
  <2>6. Winner(active, C, gross) \in top
    <3> HIDE DEF top
    <3> QED BY <2>4, <2>5
  <2> QED BY <1>2, <2>1, <2>6
<1> QED BY <1>1, <1>2

\* One more line has one more benefit at most.
LEMMA GivenAppended ==
  ASSUME NEW q \in Seq(Nat), NEW x \in Nat, NEW b
  PROVE  /\ Given(q, b) \in Nat
         /\ Given(Append(q, x), b) = Given(q, b) + (IF x = b THEN 1 ELSE 0)
<1> DEFINE r == Append(q, x)
           S == {k \in DOMAIN q : q[k] = b}
           T == {k \in DOMAIN r : r[k] = b}
<1>1. /\ DOMAIN r = 1 .. Len(q) + 1 /\ DOMAIN q = 1 .. Len(q) /\ Len(q) \in Nat
      /\ r[Len(q) + 1] = x /\ \A i \in 1 .. Len(q) : r[i] = q[i]
  OBVIOUS
<1> HIDE DEF r
<1>2. IsFiniteSet(S) /\ Cardinality(S) \in Nat
  <2>1. IsFiniteSet(1 .. Len(q)) /\ S \subseteq 1 .. Len(q)
    BY <1>1, FS_Interval
  <2> HIDE DEF S
  <2> QED BY <2>1, FS_Subset, FS_CardinalityType
<1>3. T = IF x = b THEN S \cup {Len(q) + 1} ELSE S
  BY <1>1
<1>4. Len(q) + 1 \notin S
  BY <1>1
<1> HIDE DEF S, T
<1>5. Cardinality(S \cup {Len(q) + 1}) = Cardinality(S) + 1
  BY <1>2, <1>4, FS_AddElement
<1>6. Given(q, b) = Cardinality(S) /\ Given(r, b) = Cardinality(T)
  BY DEF Given, S, T
<1> QED BY <1>2, <1>3, <1>5, <1>6 DEF r

\* The winners of the first lines: a line has no benefit, or one that the member
\* may have and that is worth something on it, and no benefit is given more
\* often than is left of it.
WinnersOK(v, n, storeId, cart, active, prior) ==
  /\ v \in Seq(Nat) /\ Len(v) = n
  /\ \A k \in 1 .. n : v[k] = 0 \/ v[k] \in Eligible(active, cart, prior)
  /\ \A b \in DOMAIN active :
       Capped(active[b]) => \/ Given(v, b) = 0
                            \/ Given(v, b) + priorUses(active[b], prior) <= active[b].max

\* One more line.
LEMMA OneLineResolved ==
  ASSUME NEW storeId, NEW R, NEW cart \in Seq(R), NEW A, NEW active \in Seq(A), NEW prior,
         BenefitsOK(active, prior), CartOK(cart),
         NEW v, NEW n \in Nat, n + 1 \in DOMAIN cart, WinnersOK(v, n, storeId, cart, active, prior)
  PROVE  WinnersOK(Append(v, NextWinner(storeId, cart[n + 1], active, cart, prior, v)), n + 1,
                   storeId, cart, active, prior)
<1> DEFINE line == cart[n + 1]
           C == Candidates(storeId, line, active, cart, prior, v)
           x == NextWinner(storeId, line, active, cart, prior, v)
           r == Append(v, x)
<1>1. /\ v \in Seq(Nat) /\ Len(v) = n
      /\ \A k \in 1 .. n : v[k] = 0 \/ v[k] \in Eligible(active, cart, prior)
      /\ \A b \in DOMAIN active :
           Capped(active[b]) => \/ Given(v, b) = 0
                                \/ Given(v, b) + priorUses(active[b], prior) <= active[b].max
  BY DEF WinnersOK
<1>2. grossOf(line) \in Nat
  <2>1. PICK p \in Nat, q \in Nat : p = line.price /\ q = line.quantity
    BY DEF CartOK
  <2>2. p * q \in Nat
    OBVIOUS
  <2> QED BY <2>1, <2>2 DEF grossOf
<1>3. /\ C \subseteq Eligible(active, cart, prior) /\ Eligible(active, cart, prior) \subseteq DOMAIN active
      /\ \A b \in C : HasRoom(active[b], prior, Given(v, b))
  BY DEF Candidates, Eligible, Given
<1>4. DOMAIN active = 1 .. Len(active) /\ Len(active) \in Nat
  OBVIOUS
<1> HIDE DEF C
<1>5. C \in SUBSET Nat /\ IsFiniteSet(C) /\ 0 \notin C
  <2>1. C \subseteq 1 .. Len(active) /\ IsFiniteSet(1 .. Len(active))
    BY <1>3, <1>4, FS_Interval
  <2>2. C \subseteq Nat /\ 0 \notin C
    BY <1>4, <2>1
  <2>3. IsFiniteSet(C)
    BY <2>1, FS_Subset
  <2> QED BY <2>2, <2>3
<1>6. \A b \in C : active[b].value \in Nat /\ active[b].priority \in Int
  BY <1>3 DEF BenefitsOK
<1>7. IF C = {} THEN x = 0 ELSE x \in C
  <2>1. x = Winner(active, C, grossOf(line))
    BY DEF NextWinner, C
  <2> HIDE DEF x, line
  <2> QED BY <1>2, <1>5, <1>6, <2>1, WinnerOfCandidates
<1> HIDE DEF x, line
<1>8. x \in Nat /\ (x = 0 \/ x \in C)
  <2>1. CASE C = {}
    <3>1. x = 0
      BY <1>7, <2>1
    <3> QED BY <3>1
  <2>2. CASE C # {}
    <3>1. x \in C
      BY <1>7, <2>2
    <3> QED BY <1>5, <3>1
  <2> QED BY <2>1, <2>2
<1>9. r \in Seq(Nat) /\ Len(r) = n + 1 /\ r[n + 1] = x /\ \A k \in 1 .. n : r[k] = v[k]
  BY <1>1, <1>8
<1>10. ASSUME NEW k \in 1 .. n + 1 PROVE r[k] = 0 \/ r[k] \in Eligible(active, cart, prior)
  <2>1. CASE k = n + 1
    BY <1>3, <1>8, <1>9, <2>1
  <2>2. CASE k # n + 1
    <3>1. k \in 1 .. n
      BY <2>2
    <3> QED BY <1>1, <1>9, <3>1
  <2> QED BY <2>1, <2>2
<1>11. ASSUME NEW b \in DOMAIN active, Capped(active[b])
       PROVE  \/ Given(r, b) = 0
              \/ Given(r, b) + priorUses(active[b], prior) <= active[b].max
  <2>1. Given(v, b) \in Nat /\ Given(r, b) = Given(v, b) + (IF x = b THEN 1 ELSE 0)
    BY <1>1, <1>8, GivenAppended
  <2>2. active[b].max \in Int /\ priorUses(active[b], prior) \in Nat
    BY DEF BenefitsOK, priorUses
  <2>3. CASE x = b
    <3>1. b \in C
      BY <1>4, <1>8, <2>3
    <3>2. priorUses(active[b], prior) + Given(v, b) < active[b].max
      BY <1>3, <1>11, <3>1 DEF HasRoom
    <3> QED BY <2>1, <2>2, <2>3, <3>2
  <2>4. CASE x # b
    <3>1. Given(r, b) = Given(v, b)
      BY <2>1, <2>4
    <3> QED BY <1>1, <1>11, <3>1
  <2> QED BY <2>3, <2>4
<1>12. WinnersOK(r, n + 1, storeId, cart, active, prior)
  BY <1>9, <1>10, <1>11 DEF WinnersOK
<1> QED BY <1>12 DEF r, x, line

\* And so all of them.
LEMMA WinnersRight ==
  ASSUME NEW storeId, NEW R, NEW cart \in Seq(R), NEW A, NEW active \in Seq(A), NEW prior,
         BenefitsOK(active, prior), CartOK(cart)
  PROVE  WinnersOK(WinnersOf(storeId, cart, active, prior), Len(cart), storeId, cart, active, prior)
<1>1. Len(cart) \in Nat /\ DOMAIN cart = 1 .. Len(cart)
  OBVIOUS
<1>2. PICK w : /\ Resolves(w, Len(cart), storeId, cart, active, prior)
               /\ WinnersOf(storeId, cart, active, prior) = w[Len(cart)]
  BY <1>1, WinnersComputed
<1> DEFINE Good == {n \in Nat : n <= Len(cart) => WinnersOK(w[n], n, storeId, cart, active, prior)}
<1>3. \A n \in 0 .. Len(cart) : w[n] = WinnersAfter(w, n, storeId, cart, active, prior)
  BY <1>2 DEF Resolves
<1>4. 0 \in Good
  <2>1. w[0] = <<>>
    BY <1>1, <1>3 DEF WinnersAfter
  <2>2. <<>> \in Seq(Nat) /\ Len(<<>>) = 0 /\ \A b : Given(<<>>, b) = 0
    <3>1. \A b : {k \in DOMAIN <<>> : <<>>[k] = b} = {}
      OBVIOUS
    <3>2. \A b : Given(<<>>, b) = Cardinality({})
      BY <3>1 DEF Given
    <3> QED BY <3>2, FS_EmptySet
  <2>3. WinnersOK(<<>>, 0, storeId, cart, active, prior)
    BY <2>2 DEF WinnersOK
  <2> QED BY <2>1, <2>3
<1>5. ASSUME NEW n \in Nat, n \in Good PROVE n + 1 \in Good
  <2> SUFFICES ASSUME n + 1 <= Len(cart) PROVE WinnersOK(w[n + 1], n + 1, storeId, cart, active, prior)
    OBVIOUS
  <2>1. /\ n + 1 \in 0 .. Len(cart) /\ n + 1 \in DOMAIN cart /\ n + 1 # 0 /\ (n + 1) - 1 = n
        /\ WinnersOK(w[n], n, storeId, cart, active, prior)
    BY <1>1, <1>5
  <2>2. w[n + 1] = Append(w[n], NextWinner(storeId, cart[n + 1], active, cart, prior, w[n]))
    BY <1>3, <2>1 DEF WinnersAfter
  <2> QED BY <2>1, <2>2, OneLineResolved
<1>6. Nat \subseteq Good
  <2> HIDE DEF Good
  <2> QED BY <1>4, <1>5, NumbersInduction
<1> QED BY <1>1, <1>2, <1>6

\* No line is discounted below nothing, where a percentage is not more than a
\* hundred; a capped benefit is given to no more lines than its period has left,
\* and recorded no more often than its cap; what is not applied is explained.
BenefitsFair(honors, storeId, cart, active, prior) ==
  LET r == resolveBenefits(honors, storeId, cart, active, prior)
      cap(b) == Larger(active[b].max, priorUses(active[b], prior))
  IN  /\ (\A b \in DOMAIN active : active[b].type \in percentTypes => active[b].value <= 100)
           => \A k \in DOMAIN cart : r.discount[k] \in 0 .. grossOf(cart[k])
      /\ \A b \in DOMAIN active : Capped(active[b]) =>
           /\ Given(r.benefit, b) + priorUses(active[b], prior) <= cap(b)
           /\ active[b].period # "PER_TRANSACTION" =>
                recordMemberBenefitUsages(r, active, prior)[active[b].id] <= cap(b)
      /\ \A b \in DOMAIN active :
           (b \in r.skipped) <=> \A k \in DOMAIN r.benefit : r.benefit[k] # b

\* resolveBenefits is fair to member and co-op, for any cart, any benefits and
\* whatever was used of them (benefits.service.ts).
THEOREM BenefitsAreFair ==
  ASSUME NEW honors \in BOOLEAN, NEW storeId, NEW R, NEW cart \in Seq(R), NEW A, NEW active \in Seq(A),
         NEW prior, BenefitsOK(active, prior), CartOK(cart)
  PROVE  BenefitsFair(honors, storeId, cart, active, prior)
<1> DEFINE r == resolveBenefits(honors, storeId, cart, active, prior)
           none == [k \in DOMAIN cart |-> 0]
           v == IF honors THEN WinnersOf(storeId, cart, active, prior) ELSE none
           n == Len(cart)
           discount(k) == IF v[k] = 0 THEN 0 ELSE computeLineDiscount(active[v[k]], grossOf(cart[k]))
<1>1. n \in Nat /\ DOMAIN cart = 1 .. n /\ DOMAIN active = 1 .. Len(active) /\ Len(active) \in Nat
  OBVIOUS
<1>2. /\ r.benefit = v /\ r.discount = [k \in DOMAIN cart |-> discount(k)]
      /\ r.skipped = IF honors THEN Skipped(storeId, cart, active, prior, v) ELSE DOMAIN active
  BY DEF resolveBenefits
<1> HIDE DEF r
<1>3. /\ DOMAIN v = 1 .. n
      /\ \A k \in 1 .. n : v[k] = 0 \/ v[k] \in Eligible(active, cart, prior)
      /\ \A b \in DOMAIN active :
           Capped(active[b]) => \/ Given(v, b) = 0
                                \/ Given(v, b) + priorUses(active[b], prior) <= active[b].max
  <2>1. CASE honors
    <3>1. WinnersOK(v, n, storeId, cart, active, prior)
      BY <2>1, WinnersRight
    <3> HIDE DEF v, n
    <3>2. v \in Seq(Nat) /\ Len(v) = n
      BY <3>1 DEF WinnersOK
    <3>3. DOMAIN v = 1 .. n
      BY <3>2
    <3> QED BY <3>1, <3>3 DEF WinnersOK
  <2>2. CASE ~honors
    <3>1. v = none
      BY <2>2
    <3>2. \A b \in DOMAIN active : Given(none, b) = 0
      <4>1. \A b \in DOMAIN active : {k \in DOMAIN none : none[k] = b} = {}
        BY <1>1
      <4> QED BY <4>1, FS_EmptySet DEF Given
    <3> HIDE DEF v, n
    <3> QED BY <1>1, <3>1, <3>2
  <2> QED BY <2>1, <2>2
<1> HIDE DEF v, n
<1>4. Eligible(active, cart, prior) \subseteq DOMAIN active
  BY DEF Eligible
<1>5. ASSUME \A b \in DOMAIN active : active[b].type \in percentTypes => active[b].value <= 100,
             NEW k \in DOMAIN cart
      PROVE  r.discount[k] \in 0 .. grossOf(cart[k])
  <2>1. grossOf(cart[k]) \in Nat
    <3>1. PICK p \in Nat, q \in Nat : p = cart[k].price /\ q = cart[k].quantity
      BY DEF CartOK
    <3>2. p * q \in Nat
      OBVIOUS
    <3> QED BY <3>1, <3>2 DEF grossOf
  <2>2. r.discount[k] = discount(k)
    BY <1>2
  <2>3. CASE v[k] = 0
    BY <2>1, <2>2, <2>3
  <2>4. CASE v[k] # 0
    <3>1. v[k] \in DOMAIN active
      BY <1>1, <1>3, <1>4, <2>4
    <3>2. PICK b \in DOMAIN active : b = v[k]
      BY <3>1
    <3>3. active[b].value \in Nat /\ (active[b].type \in percentTypes => active[b].value <= 100)
      BY <1>5 DEF BenefitsOK
    <3>4. computeLineDiscount(active[b], grossOf(cart[k])) \in 0 .. grossOf(cart[k])
      BY <2>1, <3>3, DiscountWithin
    <3> QED BY <2>2, <2>4, <3>2, <3>4
  <2> QED BY <2>3, <2>4
<1>6. ASSUME NEW b \in DOMAIN active, Capped(active[b])
      PROVE  /\ Given(v, b) + priorUses(active[b], prior) <= Larger(active[b].max, priorUses(active[b], prior))
             /\ active[b].period # "PER_TRANSACTION" =>
                  recordMemberBenefitUsages(r, active, prior)[active[b].id]
                    <= Larger(active[b].max, priorUses(active[b], prior))
  <2> DEFINE S == {k \in DOMAIN v : v[k] = b}
  <2>1. IsFiniteSet(S) /\ Cardinality(S) \in Nat /\ Given(v, b) = Cardinality(S)
    <3>1. IsFiniteSet(1 .. n) /\ S \subseteq 1 .. n
      BY <1>1, <1>3, FS_Interval
    <3>2. Given(v, b) = Cardinality(S)
      BY DEF Given
    <3> HIDE DEF S
    <3> QED BY <3>1, <3>2, FS_Subset, FS_CardinalityType
  <2>2. PICK m \in Int, p \in Nat, g \in Nat :
          m = active[b].max /\ p = priorUses(active[b], prior) /\ g = Given(v, b)
    <3>1. active[b].max \in Int /\ priorUses(active[b], prior) \in Nat
      BY DEF BenefitsOK, priorUses
    <3> QED BY <2>1, <3>1
  <2>3. g + p <= Larger(m, p)
    <3>1. g = 0 \/ g + p <= m
      BY <1>3, <1>6, <2>2
    <3> QED BY <2>2, <3>1 DEF Larger
  <2>4. ASSUME active[b].period # "PER_TRANSACTION"
        PROVE  recordMemberBenefitUsages(r, active, prior)[active[b].id] <= Larger(m, p)
    <3> DEFINE id == active[b].id
               used == \E k \in DOMAIN r.benefit : r.benefit[k] # 0 /\ active[r.benefit[k]].id = id
    <3>1. id \in DOMAIN prior /\ prior[id] = p
      BY <2>2, <2>4 DEF BenefitsOK, priorUses
    <3>2. recordMemberBenefitUsages(r, active, prior)[id] = p + (IF used THEN 1 ELSE 0)
      BY <3>1 DEF recordMemberBenefitUsages
    <3>3. CASE ~used
      <4>1. recordMemberBenefitUsages(r, active, prior)[id] = p
        BY <3>2, <3>3
      <4>2. p <= Larger(m, p)
        BY <2>2 DEF Larger
      <4> QED BY <4>1, <4>2
    <3>4. CASE used
      <4>1. PICK k \in DOMAIN v : v[k] # 0 /\ active[v[k]].id = id
        BY <1>2, <3>4
      <4>2. v[k] = b
        <5>1. v[k] \in DOMAIN active
          BY <1>3, <1>4, <4>1
        <5> QED BY <4>1, <5>1 DEF BenefitsOK
      <4>3. S # {}
        BY <4>2
      <4>4. g # 0
        <5> HIDE DEF S
        <5> QED BY <2>1, <2>2, <4>3, FS_EmptySet
      <4>5. recordMemberBenefitUsages(r, active, prior)[id] = p + 1
        BY <3>2, <3>4
      <4>6. p + 1 <= Larger(m, p)
        <5>1. Larger(m, p) \in Int
          BY <2>2 DEF Larger
        <5> QED BY <2>2, <2>3, <4>4, <5>1
      <4> QED BY <4>5, <4>6
    <3> QED BY <3>3, <3>4
  <2> QED BY <2>2, <2>3, <2>4
<1>7. ASSUME NEW b \in DOMAIN active
      PROVE  (b \in r.skipped) <=> \A k \in DOMAIN v : v[k] # b
  <2>1. CASE honors
    <3>1. (b \in r.skipped) <=> \/ b \notin Eligible(active, cart, prior)
                                \/ \A k \in DOMAIN cart : v[k] # b
      BY <1>2, <2>1 DEF Skipped
    <3>2. b # 0
      BY <1>1
    <3>3. b \notin Eligible(active, cart, prior) => \A k \in DOMAIN v : v[k] # b
      BY <1>3, <3>2
    <3> QED BY <1>1, <1>3, <3>1, <3>3
  <2>2. CASE ~honors
    <3>1. b \in r.skipped
      BY <1>2, <2>2
    <3>2. \A k \in DOMAIN v : v[k] # b
      <4>1. b # 0 /\ v = none
        BY <1>1, <2>2 DEF v
      <4>2. \A k \in DOMAIN none : none[k] = 0
        OBVIOUS
      <4> HIDE DEF none
      <4> QED BY <4>1, <4>2
    <3> QED BY <3>1, <3>2
  <2> QED BY <2>1, <2>2
<1> QED BY <1>2, <1>5, <1>6, <1>7, Zenon DEF BenefitsFair, r

=============================================================================
