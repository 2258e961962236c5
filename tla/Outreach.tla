------------------------------ MODULE Outreach ------------------------------
(***************************************************************************)
(* What follows the activation of a recall (recall.service.ts): telling    *)
(* the buyers, refunding them, recording what came back and closing.       *)
(* Recall has what comes before, and what a recall does to stock.          *)
(*                                                                         *)
(* Nothing here runs in one transaction with what it read: requests of     *)
(* several administrators interleave, mail fails, and the process may die  *)
(* between a mail and the row that says it was sent.                       *)
(***************************************************************************)
EXTENDS Traceability, Integers

CONSTANTS
  Purchases,
  Recalled,     \* the lots of the recall
  Histories,    \* the sales there may have been: functions from Purchases
  HasEmail,     \* members with an e-mail address
  HasPhone,
  Admins,       \* requests that may be under way at once
  Channels,     \* RecallNotificationChannel
  MaxRuns,      \* bound on dispatches and refund runs
  MaxRecorded   \* bound on what is recorded: units recovered, disposed of, answers

ASSUME OutreachAssumption ==
  /\ Recalled \subseteq BatchLots
  /\ \A h \in Histories : h \in [Purchases -> SaleRows]
  /\ "EMAIL" \in Channels
  /\ IsFiniteSet(Admins) /\ MaxRecorded \in Nat

VARIABLES
  sale,          \* Sale rows
  recall,        \* Recall.status
  rows,          \* RecallNotification rows: <<member, channel>>
  sentAt,        \* those with sentAt set
  acknowledged,  \* those with acknowledgedAt set
  recovered,     \* RecallLot.quantityRecovered, over all lots
  disposed,      \* RecallLot.quantityDisposed
  admin,         \* the request each administrator has under way
  \* observed
  handedOut,     \* how often the message of a row was handed to its channel
  dispatches,    \* dispatches so far
  refundRuns,    \* refund runs so far
  interrupted,   \* dispatches that died half-way
  overlaps,      \* dispatches that began while another was under way
  paidBack,      \* how often each sale was paid back
  answered       \* sales that a finished request reported as refunded

outreachVars == <<sale, recall, rows, sentAt, acknowledged, recovered, disposed, admin,
                  handedOut, dispatches, refundRuns, interrupted, overlaps, paidBack, answered>>

Rows == Customers \X Channels
NoRequest == [op |-> "none"]

affected == UNION {traceForward(sale, l) : l \in Recalled}

OutreachTypeOK ==
  /\ sale \in [Purchases -> SaleRows]
  /\ recall \in {"DRAFT", "ACTIVE", "COMPLETED"}
  /\ rows \subseteq Rows /\ sentAt \subseteq rows /\ acknowledged \subseteq rows
  /\ recovered \in 0 .. MaxRecorded /\ disposed \in 0 .. MaxRecorded
  /\ recall = "DRAFT" => rows = {} /\ recovered = 0 /\ disposed = 0

OutreachInit ==
  /\ sale \in Histories
  /\ recall = "DRAFT" /\ rows = {} /\ sentAt = {} /\ acknowledged = {}
  /\ recovered = 0 /\ disposed = 0
  /\ admin = [a \in Admins |-> NoRequest]
  /\ handedOut = [r \in Rows |-> 0] /\ dispatches = 0 /\ refundRuns = 0
  /\ interrupted = 0 /\ overlaps = 0
  /\ paidBack = [s \in Purchases |-> IF sale[s].status = "REFUNDED" THEN 1 ELSE 0]
  /\ answered = {}

observed == <<handedOut, dispatches, refundRuns, interrupted, overlaps, paidBack, answered>>

\* Units recorded or about to be, and answers.
recorded ==
  recovered + disposed + Cardinality(acknowledged)
    + Cardinality({a \in Admins : admin[a].op \in {"recover", "dispose"}})

Idle(a) == admin[a] = NoRequest

Goes(a, request) == admin' = [admin EXCEPT ![a] = request]

\* activateRecall: a row per buyer and channel, from the preview.
activateRecall ==
  /\ recall = "DRAFT"
  /\ recall' = "ACTIVE"
  /\ rows' = buyersOf(sale, affected) \X Channels
  /\ UNCHANGED <<sale, sentAt, acknowledged, recovered, disposed, admin, observed>>

-----------------------------------------------------------------------------
(* dispatchRecallNotifications *)

Dispatching(a) == admin[a].op = "dispatch"

\* Mutant of dispatchRecallNotifications: sentAt is not looked at.
dispatchAll(a) ==
  /\ Idle(a)
  /\ recall = "ACTIVE"
  /\ dispatches + refundRuns < MaxRuns
  /\ dispatches' = dispatches + 1
  /\ Goes(a, [op |-> "dispatch", pending |-> rows, handed |-> {}])
  /\ overlaps' = IF \E b \in Admins : Dispatching(b) THEN overlaps + 1 ELSE overlaps
  /\ UNCHANGED <<sale, recall, rows, sentAt, acknowledged, recovered, disposed,
                 handedOut, refundRuns, interrupted, paidBack, answered>>

\* Reads the rows that were not sent yet.
dispatchRecallNotifications(a) ==
  /\ Idle(a)
  /\ recall = "ACTIVE"
  /\ dispatches + refundRuns < MaxRuns
  /\ dispatches' = dispatches + 1
  /\ Goes(a, [op |-> "dispatch", pending |-> rows \ sentAt, handed |-> {}])
  /\ overlaps' = IF \E b \in Admins : Dispatching(b) THEN overlaps + 1 ELSE overlaps
  /\ UNCHANGED <<sale, recall, rows, sentAt, acknowledged, recovered, disposed,
                 handedOut, refundRuns, interrupted, paidBack, answered>>

\* Customers without the address are passed over.
Reachable(row) == row[1] \in (IF row[2] = "EMAIL" THEN HasEmail ELSE HasPhone)

\* The message of the next row goes out.
SendMessage(a, row) ==
  /\ Dispatching(a) /\ admin[a].handed = {} /\ row \in admin[a].pending
  /\ IF Reachable(row)
     THEN /\ Goes(a, [admin[a] EXCEPT !.handed = {row}])
          /\ handedOut' = [handedOut EXCEPT ![row] = @ + 1]
     ELSE /\ Goes(a, [admin[a] EXCEPT !.pending = @ \ {row}])
          /\ UNCHANGED handedOut
  /\ UNCHANGED <<sale, recall, rows, sentAt, acknowledged, recovered, disposed,
                 dispatches, refundRuns, interrupted, overlaps, paidBack, answered>>

\* Mutant of MarkSent: a row is marked whether or not a message went out.
MarkSentFirst(a) ==
  /\ Dispatching(a) /\ admin[a].pending # {}
  /\ \E row \in admin[a].pending :
       /\ sentAt' = sentAt \cup {row}
       /\ Goes(a, [admin[a] EXCEPT !.pending = @ \ {row}, !.handed = {}])
  /\ UNCHANGED <<sale, recall, rows, acknowledged, recovered, disposed, observed>>

MarkSent(a) ==
  /\ Dispatching(a) /\ admin[a].handed # {}
  /\ sentAt' = sentAt \cup admin[a].handed
  /\ Goes(a, [admin[a] EXCEPT !.pending = @ \ admin[a].handed, !.handed = {}])
  /\ UNCHANGED <<sale, recall, rows, acknowledged, recovered, disposed, observed>>

\* The mail server refuses a message, or the process dies: the rest is not sent.
DispatchFails(a) ==
  /\ Dispatching(a) /\ admin[a].pending # {}
  /\ interrupted' = interrupted + 1
  /\ Goes(a, NoRequest)
  /\ UNCHANGED <<sale, recall, rows, sentAt, acknowledged, recovered, disposed,
                 handedOut, dispatches, refundRuns, overlaps, paidBack, answered>>

EndDispatch(a) ==
  /\ Dispatching(a) /\ admin[a].pending = {}
  /\ Goes(a, NoRequest)
  /\ UNCHANGED <<sale, recall, rows, sentAt, acknowledged, recovered, disposed, observed>>

\* A member answers; whether the row was sent is not asked.
acknowledgeNotification(row) ==
  /\ row \in rows /\ recorded < MaxRecorded
  /\ acknowledged' = acknowledged \cup {row}
  /\ UNCHANGED <<sale, recall, rows, sentAt, recovered, disposed, admin, observed>>

-----------------------------------------------------------------------------
(* refundRecalledPurchases: one sale after the other, without restock *)

Refunding(a) == admin[a].op = "refund"

refundRecalledPurchases(a) ==
  /\ Idle(a)
  /\ recall = "ACTIVE"
  /\ dispatches + refundRuns < MaxRuns
  /\ refundRuns' = refundRuns + 1
  /\ Goes(a, [op |-> "refund", todo |-> affected, claimed |-> {}, refunded |-> {}])
  /\ UNCHANGED <<sale, recall, rows, sentAt, acknowledged, recovered, disposed,
                 handedOut, dispatches, interrupted, overlaps, paidBack, answered>>

\* Mutant of MayClaim: a refund that is under way may be claimed again.
MayClaimAgain(s) == sale[s].status \in {"PAID", "REFUNDING"}

\* claimRefundInDb refuses a sale that is not PAID.
MayClaim(s) == sale[s].status = "PAID"

\* The next sale: REFUNDED already, refused (an error in the answer) or claimed.
RefundNext(a, s) ==
  /\ Refunding(a) /\ admin[a].claimed = {} /\ s \in admin[a].todo
  /\ \/ /\ sale[s].status = "REFUNDED"
        /\ Goes(a, [admin[a] EXCEPT !.todo = @ \ {s}, !.refunded = @ \cup {s}])
        /\ UNCHANGED sale
     \/ /\ sale[s].status # "REFUNDED" /\ ~MayClaim(s)
        /\ Goes(a, [admin[a] EXCEPT !.todo = @ \ {s}])
        /\ UNCHANGED sale
     \/ /\ MayClaim(s)
        /\ Goes(a, [admin[a] EXCEPT !.todo = @ \ {s}, !.claimed = {s}])
        /\ sale' = [sale EXCEPT ![s].status = "REFUNDING"]
  /\ UNCHANGED <<recall, rows, sentAt, acknowledged, recovered, disposed, observed>>

\* refundSale of the claimed sale ends: paid back, or given up.
RefundEnds(a) ==
  /\ Refunding(a)
  /\ \E s \in admin[a].claimed :
       \/ /\ sale' = [sale EXCEPT ![s].status = "REFUNDED"]
          /\ paidBack' = [paidBack EXCEPT ![s] = @ + 1]
          /\ Goes(a, [admin[a] EXCEPT !.claimed = {}, !.refunded = @ \cup {s}])
       \/ /\ sale' = [sale EXCEPT ![s].status = "PAID"]
          /\ Goes(a, [admin[a] EXCEPT !.claimed = {}])
          /\ UNCHANGED paidBack
  /\ UNCHANGED <<recall, rows, sentAt, acknowledged, recovered, disposed,
                 handedOut, dispatches, refundRuns, interrupted, overlaps, answered>>

AnswerRefunds(a) ==
  /\ Refunding(a) /\ admin[a].todo = {} /\ admin[a].claimed = {}
  /\ answered' = answered \cup admin[a].refunded
  /\ Goes(a, NoRequest)
  /\ UNCHANGED <<sale, recall, rows, sentAt, acknowledged, recovered, disposed,
                 handedOut, dispatches, refundRuns, interrupted, overlaps, paidBack>>

-----------------------------------------------------------------------------
(* recordRecovery, recordDisposal and closeRecall *)

\* The status is read by itself; the increment or the closing comes later.
CheckActive(a, op) ==
  /\ Idle(a)
  /\ recall = "ACTIVE"
  /\ op # "close" => recorded < MaxRecorded
  /\ Goes(a, [op |-> op])
  /\ UNCHANGED <<sale, recall, rows, sentAt, acknowledged, recovered, disposed, observed>>

recordRecovery(a) ==
  /\ admin[a].op = "recover"
  /\ recovered' = recovered + 1
  /\ Goes(a, NoRequest)
  /\ UNCHANGED <<sale, recall, rows, sentAt, acknowledged, disposed, observed>>

recordDisposal(a) ==
  /\ admin[a].op = "dispose"
  /\ disposed' = disposed + 1
  /\ Goes(a, NoRequest)
  /\ UNCHANGED <<sale, recall, rows, sentAt, acknowledged, recovered, observed>>

closeRecall(a) ==
  /\ admin[a].op = "close"
  /\ recall' = "COMPLETED"
  /\ Goes(a, NoRequest)
  /\ UNCHANGED <<sale, rows, sentAt, acknowledged, recovered, disposed, observed>>

-----------------------------------------------------------------------------

AdminStep(a) ==
  \/ dispatchRecallNotifications(a)
  \/ \E row \in Rows : SendMessage(a, row)
  \/ MarkSent(a)
  \/ DispatchFails(a)
  \/ EndDispatch(a)
  \/ refundRecalledPurchases(a)
  \/ \E s \in Purchases : RefundNext(a, s)
  \/ RefundEnds(a)
  \/ AnswerRefunds(a)
  \/ \E op \in {"recover", "dispose", "close"} : CheckActive(a, op)
  \/ recordRecovery(a)
  \/ recordDisposal(a)
  \/ closeRecall(a)

OutreachNext ==
  \/ activateRecall
  \/ \E row \in Rows : acknowledgeNotification(row)
  \/ \E a \in Admins : AdminStep(a)

OutreachSpec == OutreachInit /\ [][OutreachNext]_outreachVars

-----------------------------------------------------------------------------
(* Properties *)

\* The affected-customer list is complete: every member who took a unit of a
\* recalled lot home, and everyone in the genealogy of such a lot, has a row on
\* every channel, also while the purchase is being refunded.
AffectedListComplete ==
  recall # "DRAFT" =>
    /\ \A l \in Recalled : getLotGenealogy(sale, l) \X Channels \subseteq rows
    /\ \A s \in Purchases :
         (sale[s].status \in {"PAID", "REFUNDING", "REFUNDED"} /\ sale[s].member # Anonymous
            /\ traceBackward(sale[s]) \cap Recalled # {})
           => {sale[s].member} \X Channels \subseteq rows

\* A row marked as sent had its message handed out, wherever the dispatch died.
SentWasHandedOut == \A row \in sentAt : handedOut[row] > 0

\* A customer is told twice only after an interruption or by overlapping
\* dispatches.
DuplicatesExplained == \A row \in Rows : handedOut[row] <= 1 + interrupted + overlaps

\* A recalled purchase is paid back once, however many refund runs overlap, and
\* a run reports as refunded only what was paid back.
PaidBackOnce ==
  /\ \A s \in Purchases : paidBack[s] <= 1
  /\ \A s \in answered : sale[s].status = "REFUNDED" /\ paidBack[s] = 1

\* Whoever bought of a recalled batch is on the list, in whichever store:
\* "multi-store receives of the same batch code do not leave customers off the
\* list".
BatchBuyersListed ==
  recall # "DRAFT" =>
    \A l \in Recalled :
      \A m \in buyersOf(sale, collectDownstream(sale, SameBatch(l))) : {m} \X Channels \subseteq rows

\* What the recall's rows say of customers was done: listed, told, paid back.
OutreachHonest ==
  /\ OutreachTypeOK
  /\ AffectedListComplete
  /\ SentWasHandedOut
  /\ DuplicatesExplained
  /\ PaidBackOnce

=============================================================================
