----------------------------- MODULE MCOutreach -----------------------------
(* An instance of Outreach for TLC: one item in two stores. *)
EXTENDS Outreach, TLC

CONSTANTS here, there, batch, ann, bob, s1, s2

MCItemOf == here :> "milk" @@ there :> "milk"
MCLot(p) == [product |-> p, number |-> batch]
MCRecalled == {MCLot(here)}

\* Ann bought here; Bob here or in the other store, paid or being refunded.
MCHistories ==
  {s1 :> [member |-> ann, status |-> "PAID", lots |-> {MCLot(here)}] @@ s2 :> second :
     second \in [member : {bob, Anonymous}, status : {"PAID", "REFUNDING", "REFUNDED", "EXPIRED"},
                 lots : {{MCLot(here)}, {MCLot(there)}, {MCLot(here), MCLot(there)}}]}

=============================================================================
