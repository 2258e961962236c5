------------------------------- MODULE MCDesk -------------------------------
(***************************************************************************)
(* The parts of the system that share no state with the rest, checked in   *)
(* one run: the catalog, its backfill, the migration to lots, the scanner, *)
(* the cycle counts, recalls and what follows them, and a dividend move,   *)
(* one in each behaviour (`topic`); the calculations (benefits, deposits,  *)
(* reorder quantities, shares of a dividend, barcodes) are evaluated on    *)
(* every input of a bounded set.                                           *)
(***************************************************************************)
EXTENDS Catalog, CatalogBackfill, LegacyLots, Scanner, CycleCount, Recall, Outreach,
        Dividends, Gs1, Benefits, DepositAllocation, Reorder, TLC

VARIABLES topic, input

CONSTANTS p1, p2, lot1, lot2, dear, plain, slow,
          recall1, recall2, here, there, batch, ann, bob, s1, s2

MCChanges == [sku : Skus] \cup [ceiling : Prices] \cup {[active |-> FALSE]}
MCValue == dear :> 40 @@ plain :> 5 @@ slow :> 3
MCSold == dear :> 10 @@ plain :> 2 @@ slow :> 0

(* Two lots of a product, a recall of each. *)

MCProductOf == lot1 :> p1 @@ lot2 :> p1
MCFefoRank == lot1 :> 1 @@ lot2 :> 2
MCScopeOf == recall1 :> {lot1} @@ recall2 :> {lot2}

(* One item in two stores.  Ann bought here; Bob here or in the other      *)
(* store, paid or being refunded.                                          *)

MCItemOf == here :> "milk" @@ there :> "milk"
MCLot(p) == [product |-> p, number |-> batch]
MCRecalled == {MCLot(here)}

MCHistories ==
  {s1 :> [member |-> ann, status |-> "PAID", lots |-> {MCLot(here)}] @@ s2 :> second :
     second \in [member : {bob, Anonymous}, status : {"PAID", "REFUNDING", "REFUNDED", "EXPIRED"},
                 lots : {{MCLot(here)}, {MCLot(there)}}]}

-----------------------------------------------------------------------------
(* Inputs *)

MCBenefit(id, type, value, priority, scope, ref, max, period) ==
  [id |-> id, type |-> type, value |-> value, priority |-> priority, scope |-> scope, ref |-> ref,
   minimum |-> 6, max |-> max, period |-> period]

MCBenefits ==
  {MCBenefit("tenth", "PERCENT_DISCOUNT", 15, 1, "ALL_PRODUCTS", "none", -1, "MONTHLY"),
   MCBenefit("credit", "STORE_CREDIT", 5, 1, "CATEGORY", "fruit", 2, "MONTHLY"),
   MCBenefit("free", "FREE_ITEM", 9, 0, "PRODUCT", "apple", 1, "PER_TRANSACTION"),
   MCBenefit("here", "BULK_PRICING", 50, 2, "STORE", "shop", 1, "LIFETIME"),
   MCBenefit("early", "EARLY_ACCESS", 0, 0, "ALL_PRODUCTS", "none", -1, "MONTHLY")}

MCLine(name, kind, price, quantity) ==
  [product |-> name, category |-> kind, price |-> price, quantity |-> quantity]

MCLines == {MCLine("apple", "fruit", 3, 1), MCLine("pear", "fruit", 7, 1), MCLine("bread", "bakery", 5, 2)}

BenefitInputs ==
  [active : {<<a, b>> : a, b \in MCBenefits}, cart : UNION {[1 .. n -> MCLines] : n \in 1 .. 3},
   prior : [{"tenth", "credit", "free", "here", "early"} -> {0, 1}]]

\* Only what has been used matters, and only of benefits that are active.
BenefitCases ==
  {i \in BenefitInputs :
     /\ i.active[1].id # i.active[2].id
     /\ \A id \in DOMAIN i.prior : i.prior[id] = 1 => id \in {"credit", "here"}}

Shifts == {1, 2, 3}

DepositCases ==
  [bankable : [Shifts -> {0, 2, 3}],
   deposits : {<<a, b>> : a, b \in [drawers : {{1}, {1, 2}, {2, 3}, {1, 2, 3}}, confirmedAmount : {1, 4}]}]

ReorderCases ==
  [shelf : [stock : -1 .. 3, reserved : {0, 1}, reorderAt : {0, 3},
            link : [caseSize : {1, 3}, minOrderQty : {1, 4}, active : BOOLEAN]],
   orders : [{1} -> [status : {"DRAFT", "SUBMITTED", "PARTIALLY_RECEIVED", "RECEIVED"},
                     ordered : {2, 5}, received : {0, 3}, shortClosed : BOOLEAN]]]

DividendCases ==
  [pool : {1, 10, 11}, method : {"BY_CAPITAL", "BY_PATRONAGE", "HYBRID"}, share : {0, 50, 75},
   capital : [Shifts -> {0, 1, 3}], patronage : [Shifts -> {0, 2}], members : {{1, 2, 3}, {1, 3}}]

\* Codes of n digits with at most two that are not zero, and their check digit.
MCBody(n, i, d, j, e) == [k \in 1 .. n |-> IF k = i THEN d ELSE IF k = j THEN e ELSE 0]

GtinCases ==
  {Append(body, checkDigit(body)) :
     body \in {MCBody(n, i, d, j, e) : n \in {7, 13}, i \in 1 .. 13, d \in {1, 4, 9}, j \in 1 .. 13, e \in {0, 3, 8}}}

\* A UPC-E with its check digit, which is that of its expansion.
UpcECases ==
  {code \in {<<s, 1, 2, 0, a, b, l, c>> : s \in {0, 1}, a \in {0, 5}, b \in {0, 7}, l \in 0 .. 9, c \in 0 .. 9} :
     expandUpcE(code) # null}

Gtin14 == <<0, 0, 0, 1, 2, 0, 0, 0, 0, 0, 5, 7, 0>>

MCElements ==
  {<<0, 1>> \o Gtin14 \o <<checkDigit(Gtin14)>>, <<1, 7, 2, 4, 0, 2, 0, 0>>, <<1, 5, 2, 5, 1, 1, 3, 0>>,
   <<1, 0, 11, 1, 7>>, <<2, 1, 4, 12>>}

AiOf(element) == 10 * element[1] + element[2]

\* What a scanner sends for elements in this order: a separator after every
\* variable field but the last.
Encoded(elements) ==
  LET piece(i) == IF AiOf(elements[i]) \in DOMAIN VariableMax /\ i < Len(elements)
                  THEN Append(elements[i], GS) ELSE elements[i]
      text[n \in 0 .. Len(elements)] == IF n = 0 THEN <<>> ELSE text[n - 1] \o piece(n)
  IN  text[Len(elements)]

LabelCases ==
  {order \in UNION {[1 .. n -> MCElements] : n \in 1 .. 4} :
     \A i, j \in DOMAIN order : i # j => order[i] # order[j]}

\* EAN-13 codes by their first digits.
EanCases == {[k \in 1 .. 13 |-> IF k = 1 THEN a ELSE IF k = 2 THEN b ELSE IF k = 13 THEN c ELSE 1] :
               a, b \in 0 .. 9, c \in {0, 6}}

-----------------------------------------------------------------------------

NoInput == "none"

still == <<catalogVars, scannerVars, cycleVars, recallVars, outreachVars,
           backfillVars, legacyVars, dividendVars>>

\* One state of every part that does not move.
AtRest ==
  /\ IF topic # "migration" THEN shelf = [p \in LegacyGoods |-> 0] ELSE TRUE
  /\ IF topic # "backfill"
     THEN listing = [l \in Locations |-> [name |-> 1, price |-> 1, linked |-> FALSE]] ELSE TRUE
  /\ IF topic # "dividend" THEN invested = [m \in Holders |-> 0] ELSE TRUE
  /\ IF topic # "outreach" THEN sale = CHOOSE h \in Histories : TRUE ELSE TRUE

Init ==
  /\ topic \in {"catalog", "scanner", "cycle", "recall", "outreach", "migration",
                "backfill", "dividend", "input"}
  /\ AtRest
  /\ CatalogInit /\ ScannerInit /\ CycleInit /\ RecallInit /\ OutreachInit
  /\ LegacyInit /\ BackfillInit /\ DividendInit
  /\ input = [about |-> NoInput]

Evaluate(about, cases) ==
  /\ topic = "input" /\ input.about = NoInput
  /\ \E case \in cases : input' = [about |-> about, case |-> case]
  /\ UNCHANGED <<topic, still>>

Next ==
  \/ topic = "catalog" /\ CatalogNext
       /\ UNCHANGED <<topic, input, scannerVars, cycleVars, recallVars,
                      outreachVars, legacyVars, backfillVars, dividendVars>>
  \/ topic = "scanner" /\ ScannerNext
       /\ UNCHANGED <<topic, input, catalogVars, cycleVars, recallVars,
                      outreachVars, legacyVars, backfillVars, dividendVars>>
  \/ topic = "cycle" /\ CycleNext
       /\ UNCHANGED <<topic, input, catalogVars, scannerVars, recallVars,
                      outreachVars, legacyVars, backfillVars, dividendVars>>
  \/ topic = "recall" /\ RecallNext
       /\ UNCHANGED <<topic, input, catalogVars, scannerVars, cycleVars,
                      outreachVars, legacyVars, backfillVars, dividendVars>>
  \/ topic = "outreach" /\ OutreachNext
       /\ UNCHANGED <<topic, input, catalogVars, scannerVars, cycleVars,
                      recallVars, legacyVars, backfillVars, dividendVars>>
  \/ topic = "migration" /\ LegacyNext
       /\ UNCHANGED <<topic, input, catalogVars, scannerVars, cycleVars,
                      recallVars, outreachVars, backfillVars, dividendVars>>
  \/ topic = "backfill" /\ BackfillNext
       /\ UNCHANGED <<topic, input, catalogVars, scannerVars, cycleVars,
                      recallVars, outreachVars, legacyVars, dividendVars>>
  \/ topic = "dividend" /\ DividendNext
       /\ UNCHANGED <<topic, input, catalogVars, scannerVars, cycleVars,
                      recallVars, outreachVars, legacyVars, backfillVars>>
  \/ Evaluate("benefits", BenefitCases)
  \/ Evaluate("deposits", DepositCases)
  \/ Evaluate("reorder", ReorderCases)
  \/ Evaluate("shares", DividendCases)
  \/ Evaluate("gtin", GtinCases)
  \/ Evaluate("upcE", UpcECases)
  \/ Evaluate("label", LabelCases)
  \/ Evaluate("ean", EanCases)

Spec == Init /\ [][Next]_<<topic, input, still>>

-----------------------------------------------------------------------------
(* Properties *)

Resolved(i) == resolveBenefits(TRUE, "shop", i.cart, i.active, i.prior)

\* No line is discounted below nothing.
DiscountWithinLine ==
  input.about = "benefits" =>
    LET r == Resolved(input.case) IN
    \A k \in DOMAIN r.discount : r.discount[k] \in 0 .. grossOf(input.case.cart[k])

\* A capped benefit is never given on more lines than its period has left, and
\* the usage rows never exceed the cap.
BenefitCapHeld ==
  input.about = "benefits" =>
    LET i == input.case
        r == Resolved(i)
        given(b) == Cardinality({k \in DOMAIN r.benefit : r.benefit[k] = b})
        cap(b) == Larger(i.active[b].max, priorUses(i.active[b], i.prior))
    IN  \A b \in DOMAIN i.active :
          Capped(i.active[b]) =>
            /\ given(b) + priorUses(i.active[b], i.prior) <= cap(b)
            /\ i.active[b].period # "PER_TRANSACTION" =>
                 recordMemberBenefitUsages(r, i.active, i.prior)[i.active[b].id] <= cap(b)

\* A promised perk is applied or explained, never silently dropped: "Never
\* silently omit a capped / ineligible benefit".
NoPerkDropped ==
  input.about = "benefits" =>
    LET r == Resolved(input.case) IN
    \A b \in DOMAIN input.case.active :
      (b \in r.skipped) # (\E k \in DOMAIN r.benefit : r.benefit[k] = b)

Coverage(i, n) == allocateConfirmedDeposits(i.bankable, <<1, 2, 3>>, SubSeq(i.deposits, 1, n))

\* No money is counted twice: no set of shifts is covered by more than the
\* deposits recorded for any of them, nor a shift by more than it took.
CoverageIsBanked ==
  input.about = "deposits" =>
    LET i == input.case
        covered == Coverage(i, 2)
    IN  /\ \A d \in Shifts : covered[d] \in 0 .. i.bankable[d]
        /\ \A S \in SUBSET Shifts :
             Total(covered, S) <= Total([n \in 1 .. 2 |-> i.deposits[n].confirmedAmount],
                                        {n \in 1 .. 2 : i.deposits[n].drawers \cap S # {}})

\* A shift is reported as undeposited only when the deposits recorded for it
\* have been used up.
DepositsUsedUp ==
  input.about = "deposits" =>
    LET i == input.case IN
    \A n \in 1 .. 2 :
      Total(Coverage(i, n), Shifts) - Total(Coverage(i, n - 1), Shifts) < i.deposits[n].confirmedAmount
        => \A d \in i.deposits[n].drawers : Coverage(i, 2)[d] = i.bankable[d]

\* Submitting what is suggested puts the position above the reorder point, so
\* that nothing is suggested again, in whole cases and with no case to spare.
ReorderOnce ==
  input.about = "reorder" =>
    LET i == input.case
        q == suggestedQty(i.shelf, i.orders)
        submitted == i.orders @@ 2 :> [status |-> "SUBMITTED", ordered |-> q, received |-> 0,
                                       shortClosed |-> FALSE]
    IN  /\ suggestedQty(i.shelf, submitted) = 0
        /\ q % i.shelf.link.caseSize = 0
        /\ q > 0 => \/ q - i.shelf.link.caseSize < i.shelf.link.minOrderQty
                    \/ position(i.shelf, submitted) - i.shelf.link.caseSize <= i.shelf.reorderAt

\* The allocations add up to the pool, but for half a cent per member, and who
\* has more capital and more patronage gets no less.
DividendSplitsPool ==
  input.about = "shares" =>
    LET i == input.case
        shares == allocateDividend(i.pool, i.method, i.share, i.capital, i.patronage, i.members)
        gap == 2 * (Total(shares, DOMAIN shares) - i.pool)
    IN  /\ DOMAIN shares # {} => gap \in -Cardinality(DOMAIN shares) .. Cardinality(DOMAIN shares)
        /\ \A m, n \in DOMAIN shares :
             i.capital[m] >= i.capital[n] /\ i.patronage[m] >= i.patronage[n] => shares[m] >= shares[n]

\* One misread digit, or two neighbours swapped (unless they differ by 5), makes
\* a GTIN invalid.
MisreadCaught ==
  input.about = "gtin" =>
    LET code == input.case IN
    /\ gtinCheckDigitValid(code)
    /\ \A k \in DOMAIN code : \A d \in (0 .. 9) \ {code[k]} :
         ~gtinCheckDigitValid([code EXCEPT ![k] = d])
    /\ \A k \in 1 .. Len(code) - 1 :
         (code[k] # code[k + 1] /\ code[k] - code[k + 1] \notin {5, -5}) =>
           ~gtinCheckDigitValid([code EXCEPT ![k] = code[k + 1], ![k + 1] = code[k]])

\* The forms in which scanners send one item: UPC-E, UPC-A, EAN-13, GTIN-14.
Forms(code) == {code, expandUpcE(code), Zeros(1) \o expandUpcE(code), padded(expandUpcE(code))}

\* Every form may be registered, and whichever a product was registered in and
\* whichever is scanned, the scan finds it.
EitherFormScans ==
  input.about = "upcE" =>
    \A registered, scanned \in Forms(input.case) :
      /\ isValidGtin(normalizeBarcode(registered))
      /\ \E k \in DOMAIN candidates(normalizeBarcode(scanned)) :
           candidates(normalizeBarcode(scanned))[k] = storedGtin(registered)

\* A label with a GTIN or a lot is read back as it was encoded, whatever the
\* order of its fields.
LabelRoundTrip ==
  input.about = "label" =>
    LET order == input.case
        read == parseGs1(Encoded(order), TRUE)
        value(ai) == IF \E k \in DOMAIN order : AiOf(order[k]) = ai
                     THEN LET k == CHOOSE k \in DOMAIN order : AiOf(order[k]) = ai
                          IN  SubSeq(order[k], 3, Len(order[k]))
                     ELSE null
    IN  IF value(1) = null /\ value(10) = null THEN read = null
        ELSE /\ read # null
             /\ read.gtin = value(1) /\ read.lot = value(10) /\ read.serial = value(21)
             /\ read.expiry = (IF value(17) = null THEN null ELSE <<24, 2, 29>>)
             /\ read.bestBefore = (IF value(15) = null THEN null ELSE <<25, 11, 30>>)

\* An EAN-13 announced as GS1 (]E0 read with Caps Lock) is not misread: "13
\* digits never parse as a complete element string".
EanNeverMisread == input.about = "ean" => parseGs1(input.case, TRUE) = null

\* Discounts, coverage by deposits, reorder quantities, shares of a dividend and
\* barcodes come out as they should on every input of the bounded sets.
CalculationsCorrect ==
  /\ DiscountWithinLine /\ BenefitCapHeld /\ NoPerkDropped
  /\ CoverageIsBanked /\ DepositsUsedUp
  /\ ReorderOnce
  /\ DividendSplitsPool
  /\ MisreadCaught /\ EitherFormScans /\ LabelRoundTrip /\ EanNeverMisread

=============================================================================
