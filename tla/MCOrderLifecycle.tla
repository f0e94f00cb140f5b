-------------------------- MODULE MCOrderLifecycle --------------------------
(***************************************************************************)
(* Constants for model-checking OrderLifecycle.  Each configuration keeps  *)
(* the dimension its question needs (money, stock, commissions, agenda)    *)
(* and gives the others one value or none.                                 *)
(***************************************************************************)
EXTENDS OrderLifecycle

OneItemEach == [i \in {"i1", "i2"} |-> IF i = "i1" THEN "a1" ELSE "a2"]
OnlyOfA1 == [i \in {"i1"} |-> "a1"]
OneClient == [a \in {"a1", "a2"} |-> "c1"]
ClientOfA1 == [a \in {"a1"} |-> "c1"]

AllToggles(value) == [f \in ConfigField |-> value]
DefaultConfig == AllToggles(TRUE)
RelaxedConfig == AllToggles(FALSE)

\* At most two payments a request.
AtMostTwo(rows) == {<<>>} \union {<<x>> : x \in rows} \union {<<x, y>> : x, y \in rows}
PayRows(methods, registers, amounts) ==
  [method : methods, cash_register_id : registers, amount : amounts]

MixedPayments == AtMostTwo(PayRows({"cash"}, {"r1"}, {1}))
                   \union {<<x>> : x \in PayRows({"cash", "pix"}, {"r1", "r2"}, {1, 2})}
CashPaymentsR1 == {<<>>} \union {<<x>> : x \in PayRows({"cash"}, {"r1"}, {1, 2})}
NoPayments == {<<>>}

NoCommission == {[commission_type |-> "none", commission_value |-> 0]}
SomeCommission ==
  {[commission_type |-> "none", commission_value |-> 0],
   [commission_type |-> "percentage", commission_value |-> 50],
   [commission_type |-> "fixed", commission_value |-> 3]}
CorrectionDeltas == {-1, 1}
=============================================================================
