----------------------------- MODULE Membership -----------------------------
(***************************************************************************)
(* Members as owners (membership.service.ts): the life cycle of a member,  *)
(* the capital that gives a vote, and the ballot.                          *)
(*                                                                         *)
(* Every operation checks rows it has read without a lock and then writes  *)
(* by id, so each is a request that first reads and later commits.  An     *)
(* operation on capital has three steps: it reads the investment; inside   *)
(* its transaction it changes the row and adds up the capital it can see;  *)
(* it writes the equity account, where it waits for others, and then adds  *)
(* up again for the member's total and voting rights.  Amounts are whole   *)
(* units of money.  The joining fee is left out: no decision reads it.     *)
(***************************************************************************)
EXTENDS Totals

CONSTANTS
  Members,
  Investments,  \* CapitalInvestment ids, those not recorded yet included
  InvestorOf,   \* CapitalInvestment.memberId
  Amount,       \* CapitalInvestment.amount
  Thresholds,   \* values votingThresholdAmount takes
  Requests,     \* requests being served at once
  MaxChanges    \* bound on changes of the threshold

ASSUME MembershipAssumption ==
  /\ IsFiniteSet(Members) /\ IsFiniteSet(Investments)
  /\ InvestorOf \in [Investments -> Members]
  /\ Amount \in [Investments -> Nat \ {0}]
  /\ Thresholds \subseteq Nat \ {0} /\ Thresholds # {}
  /\ MaxChanges \in Nat

VARIABLES
  memberStatus,     \* Member.status, "NONE" before the application
  isEligibleToVote, \* members with Member.isEligibleToVote
  hasVotingRights,  \* members with Member.hasVotingRights
  totalInvested,    \* Member.totalInvested
  contributed,      \* MemberEquityAccount.totalContributed
  paymentStatus,    \* CapitalInvestment.paymentStatus, "NONE" before
  refundedAt,       \* investments with a refundedAt
  threshold,        \* CooperativeSettings.votingThresholdAmount
  changes,          \* how often it was changed
  recompute,        \* the settings request: its stage and the totals it has read
  voted,            \* members with a MemberVote on the ballot
  request,          \* what each request is doing
  payouts,          \* how often each was paid back by a request that was not overtaken
  qualified,        \* members who had the capital to vote at some time
  staleAccount,     \* members whose account was written by an overtaken request
  staleRights       \* members whose rights were

settingsVars == <<threshold, changes>>
memberVars == <<memberStatus, isEligibleToVote>>
rightsVars == <<hasVotingRights, totalInvested, contributed>>
capitalVars == <<paymentStatus, refundedAt, payouts>>
ghostVars == <<qualified, staleAccount, staleRights>>
membershipVars == <<memberVars, rightsVars, capitalVars, threshold, changes, recompute, voted,
                    request, ghostVars>>

Nothing == [op |-> "NONE"]

Idle == [stage |-> "IDLE", totals |-> [m \in Members |-> 0], overtaken |-> {}]

NoRow == "none"

MemberOps == {"APPROVE", "WITHDRAW", "FINALIZE", "VOTE"}

MembershipTypeOK ==
  /\ memberStatus \in [Members -> {"NONE", "PENDING", "ACTIVE", "SUSPENDED", "WITHDRAWN"}]
  /\ isEligibleToVote \subseteq Members /\ hasVotingRights \subseteq Members
  /\ totalInvested \in [Members -> Nat] /\ contributed \in [Members -> Nat]
  /\ paymentStatus \in [Investments -> {"NONE", "PENDING", "CONFIRMED", "REFUNDED"}]
  /\ \A i \in Investments : paymentStatus[i] = "REFUNDED" => i \in refundedAt
  /\ threshold \in Thresholds /\ changes \in 0 .. MaxChanges
  /\ \A m \in voted : memberStatus[m] # "NONE"
  /\ DOMAIN request = Requests
  /\ \A m \in Members : memberStatus[m] = "NONE" =>
       totalInvested[m] = 0 /\ m \notin isEligibleToVote \cup hasVotingRights

MembershipInit ==
  /\ memberStatus = [m \in Members |-> "NONE"]
  /\ isEligibleToVote = {} /\ hasVotingRights = {}
  /\ totalInvested = [m \in Members |-> 0]
  /\ contributed = [m \in Members |-> 0]
  /\ paymentStatus = [i \in Investments |-> "NONE"]
  /\ refundedAt = {}
  /\ threshold \in Thresholds /\ changes = 0
  /\ recompute = Idle
  /\ voted = {}
  /\ request = [r \in Requests |-> Nothing]
  /\ payouts = [i \in Investments |-> 0]
  /\ qualified = {} /\ staleAccount = {} /\ staleRights = {}

-----------------------------------------------------------------------------
(* Members *)

\* Approved at once when the administrator says so.
createMember(m, activate) ==
  /\ memberStatus[m] = "NONE"
  /\ memberStatus' = [memberStatus EXCEPT ![m] = IF activate THEN "ACTIVE" ELSE "PENDING"]
  /\ isEligibleToVote' = IF activate THEN isEligibleToVote \cup {m} ELSE isEligibleToVote
  /\ UNCHANGED <<rightsVars, capitalVars, settingsVars, recompute, voted,
                 request, ghostVars>>

\* An administrator sets status or eligibility at will; both at once is the same
\* as one after the other.
updateMember(m, status, eligible) ==
  /\ memberStatus[m] # "NONE"
  /\ status = memberStatus[m] \/ eligible = (m \in isEligibleToVote)
  /\ memberStatus' = [memberStatus EXCEPT ![m] = status]
  /\ isEligibleToVote' = IF eligible THEN isEligibleToVote \cup {m} ELSE isEligibleToVote \ {m}
  /\ UNCHANGED <<rightsVars, capitalVars, settingsVars, recompute, voted,
                 request, ghostVars>>

\* Mutant of MayVote: the joining fee is enough.
MayVoteOnFee(m) == memberStatus[m] = "ACTIVE" /\ m \in isEligibleToVote

\* What castVote asks of a member.
MayVote(m) ==
  memberStatus[m] = "ACTIVE" /\ m \in isEligibleToVote /\ m \in hasVotingRights

-----------------------------------------------------------------------------
(* Capital *)

\* The rows the aggregates add up, given the status column st.
CountedOf(m, st) ==
  {i \in Investments : InvestorOf[i] = m /\ st[i] = "CONFIRMED" /\ i \notin refundedAt}

Counted(m) == Total(Amount, CountedOf(m, paymentStatus))

OpenCapital(m) == CountedOf(m, paymentStatus) # {}

\* Mutant of InvestmentOpen: refundedAt is not looked at.
InvestmentOpenAnew(i) == paymentStatus[i] = "CONFIRMED"

\* refundCapitalInvestment's check.
InvestmentOpen(i) == paymentStatus[i] = "CONFIRMED" /\ i \notin refundedAt

\* The checks an operation makes on what it reads.  markInvestmentConfirmed
\* turns away CONFIRMED investments only; capital may come in for a member of
\* any status.
MayBegin(op, m, i) ==
  \/ op = "APPROVE" /\ memberStatus[m] = "PENDING"
  \/ op = "WITHDRAW" /\ memberStatus[m] \in {"PENDING", "ACTIVE"}
  \/ op = "FINALIZE" /\ ~OpenCapital(m)
  \/ op = "VOTE" /\ MayVote(m)
  \/ /\ op = "RECORD" /\ paymentStatus[i] = "NONE"
     /\ \A q \in Requests : request[q] # Nothing => request[q].row # i
  \/ op = "CONFIRM" /\ paymentStatus[i] \in {"PENDING", "REFUNDED"}
  \/ op = "REFUND" /\ InvestmentOpen(i)

Begin(r, op, m, i) ==
  /\ request[r] = Nothing
  /\ memberStatus[m] # "NONE"
  /\ MayBegin(op, m, i)
  /\ request' = [request EXCEPT ![r] =
       [op |-> op, member |-> m, row |-> i, sum |-> 0, inTx |-> FALSE, overtaken |-> FALSE]]
  /\ UNCHANGED <<memberVars, rightsVars, capitalVars, settingsVars, recompute, voted, ghostVars>>

\* recordCapitalInvestment without confirmation.
recordPending(i) ==
  /\ memberStatus[InvestorOf[i]] # "NONE"
  /\ paymentStatus[i] = "NONE"
  /\ \A r \in Requests : request[r] # Nothing => request[r].row # i
  /\ paymentStatus' = [paymentStatus EXCEPT ![i] = "PENDING"]
  /\ UNCHANGED <<memberVars, rightsVars, refundedAt, payouts, settingsVars, recompute, voted, request, ghostVars>>

StatusAfter(rq) ==
  [paymentStatus EXCEPT ![rq.row] = IF rq.op = "REFUND" THEN "REFUNDED" ELSE "CONFIRMED"]

\* The transaction changes the row, which locks it, and refreshEquityAccount
\* adds up: what is committed, and its own change.
ChangeRow(r) ==
  /\ request[r].op \in {"RECORD", "CONFIRM", "REFUND"} /\ ~request[r].inTx
  /\ \A q \in Requests \ {r} :
       request[q] # Nothing /\ request[q].inTx => request[q].row # request[r].row
  /\ request' = [request EXCEPT ![r].inTx = TRUE, ![r].sum =
       Total(Amount, CountedOf(request[r].member, StatusAfter(request[r])))]
  /\ UNCHANGED <<memberVars, rightsVars, capitalVars, settingsVars, recompute, voted, ghostVars>>

VotingRights(total) == total >= threshold

\* Requests that will write what they have read of m's capital.
RelyOnCapital(m) ==
  {q \in Requests : /\ request[q] # Nothing
                    /\ request[q].member = m
                    /\ request[q].op \in {"FINALIZE", "REFUND"} \/ request[q].inTx}

\* The request ends; those that rely on the capital it changed are overtaken.
Overtake(r, m) ==
  [q \in Requests |->
     CASE q = r -> Nothing
       [] q \in RelyOnCapital(m) \ {r} -> [request[q] EXCEPT !.overtaken = TRUE]
       [] OTHER -> request[q]]

\* Mutant of RefundedAtAfter: refundedAt is not set.
RefundedAtAfterUnset(rq) == refundedAt

RefundedAtAfter(rq) == IF rq.op = "REFUND" THEN refundedAt \cup {rq.row} ELSE refundedAt

\* Mutant of AccountTotal: the account is counted up instead of added up anew.
AccountTotalUp(r) == contributed[request[r].member] + Amount[request[r].row]

\* refreshEquityAccount writes the sum it took before it had the account's lock.
AccountTotal(r) == request[r].sum

\* Mutant of MemberTotal: the sum taken before the account is reused.
MemberTotalReused(r) == request[r].sum

\* recomputeVotingRights adds up again, behind the account row's lock.
MemberTotal(r) ==
  Total(Amount, CountedOf(request[r].member, StatusAfter(request[r])))

\* The account takes the first sum, the member the second.
CommitCapital(r) ==
  /\ request[r] # Nothing /\ request[r].inTx
  /\ LET rq == request[r]
         m == rq.member
         total == MemberTotal(r)
     IN  /\ paymentStatus' = StatusAfter(rq)
         /\ refundedAt' = RefundedAtAfter(rq)
         /\ payouts' = IF rq.op = "REFUND" /\ ~rq.overtaken THEN [payouts EXCEPT ![rq.row] = @ + 1]
                       ELSE payouts
         /\ contributed' = [contributed EXCEPT ![m] = AccountTotal(r)]
         /\ totalInvested' = [totalInvested EXCEPT ![m] = total]
         /\ hasVotingRights' = IF VotingRights(total) THEN hasVotingRights \cup {m}
                                                      ELSE hasVotingRights \ {m}
         /\ request' = Overtake(r, m)
         /\ recompute' = IF recompute.stage = "READ"
                         THEN [recompute EXCEPT !.overtaken = @ \cup {m}] ELSE recompute
         /\ qualified' = IF Total(Amount, CountedOf(m, paymentStatus')) >= threshold
                         THEN qualified \cup {m} ELSE qualified
         /\ staleAccount' = IF rq.overtaken THEN staleAccount \cup {m} ELSE staleAccount \ {m}
         /\ staleRights' = staleRights \ {m}
  /\ UNCHANGED <<memberVars, settingsVars, voted>>

-----------------------------------------------------------------------------
(* The writes of the other operations *)

Ends(r) == request' = [request EXCEPT ![r] = Nothing]

approveMember(r) ==
  /\ request[r].op = "APPROVE"
  /\ memberStatus' = [memberStatus EXCEPT ![request[r].member] = "ACTIVE"]
  /\ isEligibleToVote' = isEligibleToVote \cup {request[r].member}
  /\ Ends(r)
  /\ UNCHANGED <<rightsVars, capitalVars, settingsVars, recompute, voted,
                 ghostVars>>

requestWithdrawal(r) ==
  /\ request[r].op = "WITHDRAW"
  /\ memberStatus' = [memberStatus EXCEPT ![request[r].member] = "SUSPENDED"]
  /\ isEligibleToVote' = isEligibleToVote \ {request[r].member}
  /\ Ends(r)
  /\ UNCHANGED <<rightsVars, capitalVars, settingsVars, recompute, voted,
                 ghostVars>>

\* Also takes the voting rights, on the reading of the investments.
finalizeWithdrawal(r) ==
  /\ request[r].op = "FINALIZE"
  /\ memberStatus' = [memberStatus EXCEPT ![request[r].member] = "WITHDRAWN"]
  /\ isEligibleToVote' = isEligibleToVote \ {request[r].member}
  /\ hasVotingRights' = hasVotingRights \ {request[r].member}
  /\ staleRights' = IF request[r].overtaken THEN staleRights \cup {request[r].member}
                                            ELSE staleRights
  /\ Ends(r)
  /\ UNCHANGED <<totalInvested, contributed, capitalVars, settingsVars, recompute,
                 voted, qualified, staleAccount>>

\* The unique index on ballot and member refuses a second vote.
castVote(r) ==
  /\ request[r].op = "VOTE"
  /\ voted' = voted \cup {request[r].member}
  /\ Ends(r)
  /\ UNCHANGED <<memberVars, rightsVars, capitalVars, settingsVars, recompute,
                 ghostVars>>

-----------------------------------------------------------------------------
(* updateCooperativeSettings *)

\* The new threshold is committed first.
updateCooperativeSettings(amount) ==
  /\ recompute = Idle
  /\ amount # threshold
  /\ changes < MaxChanges
  /\ changes' = changes + 1
  /\ threshold' = amount
  /\ recompute' = [Idle EXCEPT !.stage = "WRITTEN"]
  /\ qualified' = qualified \cup {m \in Members : Counted(m) >= amount}
  /\ UNCHANGED <<memberVars, rightsVars, capitalVars, voted, request, staleAccount,
                 staleRights>>

\* A transaction of its own then adds up every member's capital ...
ReadAllTotals ==
  /\ recompute.stage = "WRITTEN"
  /\ recompute' = [recompute EXCEPT !.stage = "READ",
                                    !.totals = [m \in Members |-> Counted(m)]]
  /\ UNCHANGED <<memberVars, rightsVars, capitalVars, settingsVars, voted, request, ghostVars>>

RightsAfter(totals) == {m \in Members : VotingRights(totals[m])}

\* ... and writes total and rights; old ones where capital moved meanwhile.
WriteAllRights ==
  /\ recompute.stage = "READ"
  /\ totalInvested' = recompute.totals
  /\ hasVotingRights' = RightsAfter(recompute.totals)
  /\ recompute' = Idle
  /\ staleRights' = recompute.overtaken
  /\ UNCHANGED <<memberVars, contributed, capitalVars, settingsVars, voted, request,
                 qualified, staleAccount>>

-----------------------------------------------------------------------------

MembershipNext ==
  \/ \E m \in Members :
       \/ \E activate \in BOOLEAN : createMember(m, activate)
       \/ \E status \in {"PENDING", "ACTIVE", "SUSPENDED", "WITHDRAWN"}, eligible \in BOOLEAN :
            updateMember(m, status, eligible)
  \/ \E i \in Investments : recordPending(i)
  \/ \E r \in Requests :
       \/ \E op \in {"RECORD", "CONFIRM", "REFUND"}, i \in Investments :
            Begin(r, op, InvestorOf[i], i)
       \/ \E op \in MemberOps, m \in Members : Begin(r, op, m, NoRow)
       \/ ChangeRow(r)
       \/ CommitCapital(r)
       \/ approveMember(r)
       \/ requestWithdrawal(r)
       \/ finalizeWithdrawal(r)
       \/ castVote(r)
  \/ \E amount \in Thresholds : updateCooperativeSettings(amount)
  \/ ReadAllTotals
  \/ WriteAllRights

MembershipSpec == MembershipInit /\ [][MembershipNext]_membershipVars

-----------------------------------------------------------------------------
(* Properties *)

\* Who has voted had, at some time, confirmed capital of at least the threshold
\* then in force: no overlap of votes, confirmations, refunds and changes of
\* the threshold lets anyone else vote, and the joining fee never does.
VotersOwnCapital == voted \subseteq qualified

\* Member.totalInvested and the voting rights follow the confirmed capital and
\* the threshold, also when confirmations and refunds overlap.  They may not
\* where the settings request or finalizeWithdrawal wrote what it had read
\* before capital moved.
RightsFollowCapital ==
  recompute = Idle => \A m \in Members \ staleRights :
    /\ totalInvested[m] = Counted(m)
    /\ m \in hasVotingRights <=> Counted(m) >= threshold

\* The equity account shows the confirmed capital, unless the last two changes
\* of the member's capital overlapped.
EquityMatchesCapital ==
  \A m \in Members \ staleAccount : contributed[m] = Counted(m)

\* Capital is paid back once, also when a refunded investment is confirmed
\* anew, unless two refunds of it overlapped.
RefundedOnce == \A i \in Investments : payouts[i] <= 1

\* Votes, rights, the equity account and payments back rest on confirmed
\* capital, whichever requests overlap (but for the named exceptions).
CapitalBacksRights ==
  /\ MembershipTypeOK
  /\ VotersOwnCapital
  /\ RightsFollowCapital
  /\ EquityMatchesCapital
  /\ RefundedOnce

=============================================================================
