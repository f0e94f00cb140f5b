---------------------------- MODULE MCDashboard ----------------------------
(***************************************************************************)
(* Two orders of two clients, created in different months of three short    *)
(* months, for model-checking Dashboard.  The first is made on the last     *)
(* evening of a month, already the next day in UTC.                        *)
(***************************************************************************)
EXTENDS Dashboard

ShortMonths == <<3, 2, 3>>
Line(service, professional, price, benefit, commission) ==
    [service |-> service, professional |-> professional, price |-> price, benefit |-> benefit,
     commission |-> commission]
TwoOrders ==
    "o1" :> [client |-> "ana", branch_id |-> "centro", created |-> 2, created_utc |-> 3, products |-> 15,
             items |-> <<Line("cut", "bia", 40, 0, 11), Line("color", "caio", 30, 30, 0)>>]
      @@ "o2" :> [client |-> "eva", branch_id |-> "centro", created |-> 3, created_utc |-> 3, products |-> 0,
                  items |-> <<Line("cut", "bia", 45, 5, 12)>>]
\* Two months, the two together, and two periods that start in mid-month.
SomePeriods == {<<0, 3>>, <<3, 5>>, <<0, 5>>, <<2, 5>>, <<1, 8>>}
=============================================================================
