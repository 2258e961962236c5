---------------------------- MODULE OfflineQueue ----------------------------
(***************************************************************************)
(* The till when the network fails (POS.tsx, offline/sync.ts,              *)
(* offline/salesQueue.ts): cash sales are queued in IndexedDB and replayed *)
(* in order, each under the idempotency key it was given at the till,      *)
(* while the rest of Checkout goes on.                                     *)
(*                                                                         *)
(* A key is the id of the sale it makes.  The browser may have the page    *)
(* open in several tabs; they share the queue, and each has one sync under *)
(* way at most.  The cashier works in one of them.  A request may reach    *)
(* the server after its sender has given it up, and its answer may be lost.*)
(***************************************************************************)
EXTENDS Checkout, FiniteSetsExt

CONSTANTS
  Keys,       \* idempotency keys, in the order in which they are minted
  Tabs,
  Baskets,    \* what customers want to pay in cash here, numbered as they come
  CartOf,     \* the lines of a basket
  Till,       \* the sender of online checkouts
  NoBasket, NoKey,
  MaxLosses   \* bound on lost answers and page reloads

ASSUME OfflineQueueAssumption ==
  /\ Keys \subseteq Nat \cap Sales /\ Baskets \subseteq Nat
  /\ CartOf \in [Baskets -> Carts]
  /\ NoKey \notin Keys /\ NoBasket \notin Baskets /\ Till \notin Tabs
  /\ MaxLosses \in Nat
  /\ Offline /\ EventTypes = {}

VARIABLES
  minted,    \* the basket and the mode (offlineSync) of each key
  queue,     \* keys of the rows in IndexedDB
  walk,      \* per tab: the keys its sync has still to send
  answer,    \* per tab: of the row it is sending
  ringing,   \* the key of the online checkout the cashier waits for
  wire,      \* requests the server has not handled yet: <<sender, key>>
  unpaid,    \* baskets still at the till
  unsure,    \* baskets of which an online checkout was never answered
  refused,   \* queued rows that the server refused
  losses     \* answers lost and pages reloaded so far

queueVars == <<minted, queue, walk, answer, ringing, wire, unpaid, unsure, refused, losses>>

NotMinted == [basket |-> NoBasket, offlineSync |-> FALSE]

QueueTypeOK ==
  /\ TypeOK
  /\ minted \in [Keys -> [basket : Baskets \cup {NoBasket}, offlineSync : BOOLEAN]]
  /\ queue \subseteq {k \in Keys : minted[k].offlineSync}
  /\ walk \in [Tabs -> SUBSET {k \in Keys : minted[k].offlineSync}]
  /\ answer \in [Tabs -> {"none", "awaited", "ok", "failed", "refused"}]
  /\ \A t \in Tabs : answer[t] # "none" => walk[t] # {}
  /\ ringing \in Keys \cup {NoKey}
  /\ wire \subseteq (Tabs \cup {Till}) \X {k \in Keys : minted[k] # NotMinted}
  /\ unpaid \subseteq Baskets /\ unsure \subseteq Baskets /\ refused \subseteq Keys
  /\ losses \in 0 .. MaxLosses

QueueInit ==
  /\ Init
  /\ minted = [k \in Keys |-> NotMinted]
  /\ queue = {} /\ wire = {} /\ unsure = {} /\ refused = {} /\ losses = 0
  /\ walk = [t \in Tabs |-> {}] /\ answer = [t \in Tabs |-> "none"]
  /\ ringing = NoKey
  /\ unpaid = Baskets

-----------------------------------------------------------------------------
(* Checkout at the till *)

\* newIdempotencyKey: every press of the button mints the next key.
newIdempotencyKey(k, b, offlineSync) ==
  /\ minted[k] = NotMinted
  /\ \A j \in Keys : j < k => minted[j] # NotMinted
  /\ \A c \in Baskets : c < b => \E j \in Keys : minted[j].basket = c
  /\ minted' = [minted EXCEPT ![k] = [basket |-> b, offlineSync |-> offlineSync]]

AtTill(b) == b \in unpaid /\ ringing = NoKey

\* Mutant of enqueueOfflineSale: the cart is not emptied.
enqueueOfflineSaleKeepsCart(b, k) ==
  /\ AtTill(b)
  /\ newIdempotencyKey(k, b, TRUE)
  /\ queue' = queue \cup {k}
  /\ UNCHANGED <<vars, walk, answer, ringing, wire, unpaid, unsure, refused, losses>>

\* Offline the row is written and the customer leaves.
enqueueOfflineSale(b, k) ==
  /\ AtTill(b)
  /\ newIdempotencyKey(k, b, TRUE)
  /\ queue' = queue \cup {k}
  /\ unpaid' = unpaid \ {b}
  /\ UNCHANGED <<vars, walk, answer, ringing, wire, unsure, refused, losses>>

checkoutOnline(b, k) ==
  /\ AtTill(b)
  /\ newIdempotencyKey(k, b, FALSE)
  /\ ringing' = k
  /\ wire' = wire \cup {<<Till, k>>}
  /\ UNCHANGED <<vars, queue, walk, answer, unpaid, unsure, refused, losses>>

-----------------------------------------------------------------------------
(* The server's createSale *)

Cart(k) == CartOf[minted[k].basket]

\* listQueuedSales sorts the rows of the snapshot by queuedAt: the sync takes
\* the earliest key it has not dealt with.
NextRow(t) == Min(walk[t])

Sending(t, k) == t \in Tabs /\ answer[t] = "awaited" /\ NextRow(t) = k

\* Who still waits for the answer gets it.
Answers(t, k, verdict_) ==
  /\ answer' = IF Sending(t, k) THEN [answer EXCEPT ![t] = verdict_] ELSE answer
  /\ ringing' = IF ringing = k THEN NoKey ELSE ringing
  /\ unpaid' = IF ringing = k /\ verdict_ = "ok" THEN unpaid \ {minted[k].basket} ELSE unpaid
  /\ wire' = wire \ {<<t, k>>}

\* Mutant of createSale: the key is not looked up.
createSaleAnew(t, k) ==
  /\ <<t, k>> \in wire
  /\ \/ createCashSale(k, Cart(k), minted[k].offlineSync)
     \/ /\ paymentStatus[k] # "NONE"
        /\ consumeDirect(allocateFefo(Cart(k), minted[k].offlineSync))
        /\ UNCHANGED <<saleVars, ledger, adjustments, stripe, webhookVars, due, verdict,
                       reconciliation, restarts>>
  /\ Answers(t, k, "ok")
  /\ UNCHANGED <<minted, queue, walk, unsure, refused, losses>>

\* The key has made a sale: seen before or in the transaction.
Recorded(k) == paymentStatus[k] # "NONE"

\* That sale is the answer, also when the unique index was the first to see it.
ReplaysSale(k) == Recorded(k) /\ UNCHANGED vars

\* A new sale, or the one that the key has made already.
createSale(t, k) ==
  /\ <<t, k>> \in wire
  /\ createCashSale(k, Cart(k), minted[k].offlineSync) \/ ReplaysSale(k)
  /\ Answers(t, k, "ok")
  /\ UNCHANGED <<minted, queue, walk, unsure, refused, losses>>

\* The lots of a product are quarantined or recalled, or (online) too few.
createSaleRefused(t, k) ==
  /\ <<t, k>> \in wire
  /\ ~Recorded(k) /\ ~CanSell(Cart(k), minted[k].offlineSync)
  /\ Answers(t, k, "refused")
  /\ refused' = IF k \in queue THEN refused \cup {k} ELSE refused
  /\ UNCHANGED <<vars, minted, queue, walk, unsure, losses>>

\* The cashier sees an error; the basket is still there.
OnlineAnswerLost ==
  /\ losses < MaxLosses /\ losses' = losses + 1
  /\ ringing # NoKey
  /\ unsure' = unsure \cup {minted[ringing].basket}
  /\ ringing' = NoKey
  /\ UNCHANGED <<vars, minted, queue, walk, answer, wire, unpaid, refused>>

-----------------------------------------------------------------------------
(* syncQueuedSales *)

Syncing(t) == walk[t] # {}

\* A snapshot of the queue, unless this tab is still working on one.
syncQueuedSales(t) ==
  /\ ~Syncing(t) /\ queue # {}
  /\ walk' = [walk EXCEPT ![t] = queue]
  /\ UNCHANGED <<vars, minted, queue, answer, ringing, wire, unpaid, unsure, refused, losses>>

\* The next row is posted, with its key and offlineSync.
replayOne(t) ==
  /\ Syncing(t) /\ answer[t] = "none"
  /\ answer' = [answer EXCEPT ![t] = "awaited"]
  /\ wire' = wire \cup {<<t, NextRow(t)>>}
  /\ UNCHANGED <<vars, minted, queue, walk, ringing, unpaid, unsure, refused, losses>>

ReplayFails(t) ==
  /\ losses < MaxLosses /\ losses' = losses + 1
  /\ answer[t] = "awaited"
  /\ answer' = [answer EXCEPT ![t] = "failed"]
  /\ UNCHANGED <<vars, minted, queue, walk, ringing, wire, unpaid, unsure, refused>>

\* Mutant of removeQueuedSale: the row is removed whatever was answered.
removeQueuedSaleAnyhow(t) ==
  /\ answer[t] \in {"ok", "failed", "refused"}
  /\ queue' = queue \ {NextRow(t)}
  /\ walk' = [walk EXCEPT ![t] = @ \ {NextRow(t)}]
  /\ answer' = [answer EXCEPT ![t] = "none"]
  /\ UNCHANGED <<vars, minted, ringing, wire, unpaid, unsure, refused, losses>>

\* Mutant of removeQueuedSale: the row stays.
removeQueuedSaleKeepsRow(t) ==
  /\ answer[t] = "ok"
  /\ walk' = [walk EXCEPT ![t] = @ \ {NextRow(t)}]
  /\ answer' = [answer EXCEPT ![t] = "none"]
  /\ UNCHANGED <<vars, minted, queue, ringing, wire, unpaid, unsure, refused, losses>>

removeQueuedSale(t) ==
  /\ answer[t] = "ok"
  /\ queue' = queue \ {NextRow(t)}
  /\ walk' = [walk EXCEPT ![t] = @ \ {NextRow(t)}]
  /\ answer' = [answer EXCEPT ![t] = "none"]
  /\ UNCHANGED <<vars, minted, ringing, wire, unpaid, unsure, refused, losses>>

\* Mutant of markQueuedSaleError: the sync goes on with the next row.
markQueuedSaleErrorGoesOn(t) ==
  /\ answer[t] \in {"failed", "refused"}
  /\ queue' = queue \cup {NextRow(t)}
  /\ walk' = [walk EXCEPT ![t] = @ \ {NextRow(t)}]
  /\ answer' = [answer EXCEPT ![t] = "none"]
  /\ UNCHANGED <<vars, minted, ringing, wire, unpaid, unsure, refused, losses>>

\* Mutant of markQueuedSaleError: the answer is not cleared.
markQueuedSaleErrorKeepsAnswer(t) ==
  /\ answer[t] \in {"failed", "refused"}
  /\ queue' = queue \cup {NextRow(t)}
  /\ walk' = [walk EXCEPT ![t] = {}]
  /\ UNCHANGED <<vars, minted, answer, ringing, wire, unpaid, unsure, refused, losses>>

\* The row is put back with the error, also one that another tab has removed
\* meanwhile, and the sync ends.
markQueuedSaleError(t) ==
  /\ answer[t] \in {"failed", "refused"}
  /\ queue' = queue \cup {NextRow(t)}
  /\ walk' = [walk EXCEPT ![t] = {}]
  /\ answer' = [answer EXCEPT ![t] = "none"]
  /\ UNCHANGED <<vars, minted, ringing, wire, unpaid, unsure, refused, losses>>

\* The page is reloaded: what it waited for is forgotten, the queue is not.
Reload(t) ==
  /\ losses < MaxLosses /\ losses' = losses + 1
  /\ answer[t] # "none"
  /\ walk' = [walk EXCEPT ![t] = {}]
  /\ answer' = [answer EXCEPT ![t] = "none"]
  /\ UNCHANGED <<vars, minted, queue, ringing, wire, unpaid, unsure, refused>>

-----------------------------------------------------------------------------

TabStep(t) ==
  \/ syncQueuedSales(t)
  \/ replayOne(t)
  \/ ReplayFails(t)
  \/ removeQueuedSale(t)
  \/ markQueuedSaleError(t)
  \/ Reload(t)

\* The expiry job in one step.
JobExpiresSale(s) ==
  /\ paymentStatus[s] = "PENDING" /\ stripe[s] # "paid"
  /\ settleUnpaidSale(s, "EXPIRED")
  /\ UNCHANGED <<ledger, adjustments, stripe, webhookVars, due, verdict, reconciliation, restarts>>

\* Other tills, Stripe, the job and lot maintenance.  How webhook and job
\* interleave with the rest is left to Checkout.
Elsewhere ==
  /\ \/ Maintain
     \/ \E s \in Sales \ Keys :
          \/ \E cart \in Carts : createCardSale(s, cart)
          \/ startPayment(s)
          \/ CustomerPays(s)
          \/ confirmSalePayment(s)
          \/ JobExpiresSale(s)
  /\ UNCHANGED queueVars

QueueNext ==
  \/ \E b \in Baskets, k \in Keys : enqueueOfflineSale(b, k) \/ checkoutOnline(b, k)
  \/ OnlineAnswerLost
  \/ \E t \in Tabs \cup {Till}, k \in Keys : createSale(t, k) \/ createSaleRefused(t, k)
  \/ \E t \in Tabs : TabStep(t)
  \/ Elsewhere

\* The page syncs when the network or the user comes back, again and again;
\* losses are bounded: the network does not fail forever.
QueueFairness ==
  \A t \in Tabs :
    WF_<<vars, queueVars>>(\/ syncQueuedSales(t)
                           \/ replayOne(t)
                           \/ \E k \in Keys : createSale(t, k) \/ createSaleRefused(t, k)
                           \/ removeQueuedSale(t)
                           \/ markQueuedSaleError(t))

QueueSpec == QueueInit /\ [][QueueNext]_<<vars, queueVars>> /\ QueueFairness

-----------------------------------------------------------------------------
(* Properties *)

\* A sale taken offline is never lost: until it is on the server its row is in
\* the queue, whatever is lost, repeated, late or reloaded.
QueuedOrRecorded ==
  \A k \in Keys : minted[k].offlineSync => k \in queue \/ paymentStatus[k] = "PAID"

\* Sales taken offline reach the server in the order in which they were taken.
SyncedInOrder ==
  \A j, k \in Keys :
    (j < k /\ minted[j].offlineSync /\ minted[k].offlineSync /\ paymentStatus[k] = "PAID")
      => paymentStatus[j] = "PAID"

\* A basket becomes one sale, unless an online checkout of it was never
\* answered and the cashier rang it up again.
OneSalePerBasket ==
  \A b \in Baskets \ unsure :
    Cardinality({k \in Keys : minted[k].basket = b /\ paymentStatus[k] = "PAID"}) <= 1

\* Every queued sale reaches the server, and its row leaves the queue, unless
\* the server refuses one.
QueueDrains == \A k \in Keys : k \in queue ~> (k \notin queue \/ refused # {})

\* A sale taken offline is accepted although its products have been sold out
\* since ("if physical stock is insufficient, we still ACCEPT the sale"); only
\* quarantined and recalled goods are refused.
SoldOutAccepted ==
  \A k \in queue :
    (/\ paymentStatus[k] = "NONE"
     /\ \A p \in Products : Cart(k)[p] > 0 =>
          ~Blocked(p) /\ \E l \in LotsOf(p) : lotStatus[l] = "DEPLETED")
      => CanSell(Cart(k), TRUE)

\* What was rung up at the till is on the server once, in the order of the
\* till, or still in the queue, whatever the network and the tabs did.
QueueFaithful ==
  /\ QueueTypeOK
  /\ QueuedOrRecorded
  /\ SyncedInOrder
  /\ OneSalePerBasket

\* The units add up also where offline sales took a lot below zero or below
\* what is held on it, and the product is then queued for reconciliation.
OversellAccounted ==
  /\ UnitsAccounted
  /\ OversellFlagged

=============================================================================
