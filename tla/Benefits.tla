------------------------------ MODULE Benefits ------------------------------
(***************************************************************************)
(* Which member benefits a cart gets (resolveBenefits of                   *)
(* benefits.service.ts), and the usage rows createSale writes for them.    *)
(* Amounts are cents.  A cart is a sequence of lines with product,         *)
(* category, price and quantity; `active` a sequence of benefits in the    *)
(* order of their creation, each with id, type, value, priority, scope and *)
(* its reference, minimum purchase and max (uses per period, -1 for no     *)
(* cap); `prior` the uses of a benefit by the member in its period.        *)
(***************************************************************************)
EXTENDS Money, Totals, Sequences

percentTypes == {"PERCENT_DISCOUNT", "BULK_PRICING"}
fixedTypes == {"FIXED_DISCOUNT", "FREE_ITEM", "BIRTHDAY_CREDIT", "STORE_CREDIT"}

isCheckoutDiscountType(type) == type \in percentTypes \cup fixedTypes

grossOf(line) == line.price * line.quantity

\* Mutant of computeLineDiscount: a credit may exceed the line.
computeLineDiscountUncapped(benefit, gross) ==
  IF benefit.type \in percentTypes THEN PercentOf(benefit.value, gross) ELSE benefit.value

computeLineDiscount(benefit, gross) ==
  IF gross <= 0 THEN 0
  ELSE IF benefit.type \in percentTypes THEN PercentOf(benefit.value, gross)
  ELSE Smaller(benefit.value, gross)

scopeMatchesLine(benefit, storeId, line) ==
  \/ benefit.scope \in {"ALL_PRODUCTS", "NETWORK_WIDE"}
  \/ benefit.scope = "CATEGORY" /\ benefit.ref = line.category
  \/ benefit.scope = "PRODUCT" /\ benefit.ref = line.product
  \/ benefit.scope = "STORE" /\ benefit.ref = storeId

cartGross(cart) == Total([k \in DOMAIN cart |-> grossOf(cart[k])], DOMAIN cart)

Capped(benefit) == benefit.max # -1

\* Uses of the period that count: within a transaction only the cart's own.
priorUses(benefit, prior) == IF benefit.period = "PER_TRANSACTION" THEN 0 ELSE prior[benefit.id]

\* Positions in `active` of the benefits that may apply to this cart at all.
Eligible(active, cart, prior) ==
  {b \in DOMAIN active :
     /\ cartGross(cart) >= active[b].minimum
     /\ isCheckoutDiscountType(active[b].type)
     /\ Capped(active[b]) => priorUses(active[b], prior) < active[b].max}

\* Mutant of HasRoom: uses by earlier lines of the cart are not counted.
HasRoomBefore(benefit, prior, used) ==
  Capped(benefit) => priorUses(benefit, prior) < benefit.max

\* `used` are the lines of this cart that have the benefit already.
HasRoom(benefit, prior, used) ==
  Capped(benefit) => priorUses(benefit, prior) + used < benefit.max

\* The winner on a line: of the best priority the largest discount, and of
\* equal ones the oldest; 0 if there is none.
Winner(active, candidates, gross) ==
  LET best == {b \in candidates : \A c \in candidates : active[b].priority <= active[c].priority}
      discount(b) == computeLineDiscount(active[b], gross)
      top == {b \in best : \A c \in best : discount(b) >= discount(c)}
  IN  IF candidates = {} THEN 0 ELSE CHOOSE b \in top : \A c \in top : b <= c

\* The winners of the first n lines, in cart order.
WinnersOf(storeId, cart, active, prior) ==
  LET winners[n \in 0 .. Len(cart)] ==
        IF n = 0 THEN <<>>
        ELSE LET line == cart[n]
                 before == winners[n - 1]
                 used(b) == Cardinality({k \in DOMAIN before : before[k] = b})
                 candidates == {b \in Eligible(active, cart, prior) :
                   /\ scopeMatchesLine(active[b], storeId, line)
                   /\ HasRoom(active[b], prior, used(b))
                   /\ computeLineDiscount(active[b], grossOf(line)) > 0}
             IN  Append(before, Winner(active, candidates, grossOf(line)))
  IN  winners[Len(cart)]

\* Mutant of Skipped: benefits that matched a line but lost it are left out.
SkippedNoMatch(storeId, cart, active, prior, winners) ==
  {b \in DOMAIN active :
     \/ b \notin Eligible(active, cart, prior)
     \/ \A k \in DOMAIN cart : ~scopeMatchesLine(active[b], storeId, cart[k])}

\* Benefits the cashier is told about: not eligible, no line in scope, or
\* another one won on every line in scope.
Skipped(storeId, cart, active, prior, winners) ==
  {b \in DOMAIN active :
     \/ b \notin Eligible(active, cart, prior)
     \/ \A k \in DOMAIN cart : winners[k] # b}

\* honors: Store.honorsNetworkBenefits.
resolveBenefits(honors, storeId, cart, active, prior) ==
  LET winners == IF honors THEN WinnersOf(storeId, cart, active, prior)
                           ELSE [k \in DOMAIN cart |-> 0]
  IN  [benefit |-> winners,
       discount |-> [k \in DOMAIN cart |->
         IF winners[k] = 0 THEN 0 ELSE computeLineDiscount(active[winners[k]], grossOf(cart[k]))],
       skipped |-> IF honors THEN Skipped(storeId, cart, active, prior, winners) ELSE DOMAIN active]

\* createSale writes one usage row per benefit and sale, however many lines
\* have it.
recordMemberBenefitUsages(resolved, active, prior) ==
  [id \in DOMAIN prior |->
     prior[id] + IF \E k \in DOMAIN resolved.benefit :
                      resolved.benefit[k] # 0 /\ active[resolved.benefit[k]].id = id
                 THEN 1 ELSE 0]

=============================================================================
