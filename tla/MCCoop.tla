------------------------------- MODULE MCCoop -------------------------------
(***************************************************************************)
(* The co-op's two kinds of partners in one run: the operator of a store,  *)
(* who is owed a share (Settlement), and the members, who own capital      *)
(* (Membership).  They share no state; a behaviour is about one of them.   *)
(***************************************************************************)
EXTENDS Settlement, Membership, TLC

VARIABLE partner

CONSTANTS a, b, m1, i1, i2, r1, r2

-----------------------------------------------------------------------------
(* A cart whose shares do not come out even, three ways to fund discounts. *)

Line(price, quantity, benefit, exempt) ==
  [price |-> price, quantity |-> quantity, benefit |-> benefit, manual |-> 0,
   exempt |-> exempt]

MCCarts == {a :> Line(1, 2, 1, TRUE) @@ b :> Line(50, 2, 61, FALSE)}

Store(percent, bearer) ==
  [operatorPercent |-> percent, bearer |-> bearer, sharedPercent |-> 50, taxRate |-> 10]

MCSettings == {Store(30, "COOP"), Store(50, "OPERATOR"), Store(30, "SHARED")}

(* One member with two investments, either of which reaches the lower      *)
(* threshold and only both the higher; two requests and a settings change. *)

Investor == [i \in {i1, i2} |-> m1]
Invested == [i \in {i1, i2} |-> 1]

Symmetry == Permutations(Payers) \cup Permutations(Requests) \cup Permutations(Investments)

-----------------------------------------------------------------------------

Init ==
  /\ partner \in {"operator", "member"}
  /\ SettlementInit /\ MembershipInit
  /\ partner # "operator" => store = CHOOSE s \in Settings : TRUE
  /\ threshold = 1

Next ==
  \/ partner = "operator" /\ SettlementNext /\ UNCHANGED <<partner, membershipVars>>
  \/ partner = "member" /\ MembershipNext /\ UNCHANGED <<partner, settlementVars>>

Spec == Init /\ [][Next]_<<partner, settlementVars, membershipVars>>

=============================================================================
