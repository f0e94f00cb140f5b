------------------------------ MODULE MCAgenda ------------------------------
(***************************************************************************)
(* Two days of five units.  Ana works a split shift in one branch, Bia all  *)
(* day in both; the business closes before Bia does.                       *)
(***************************************************************************)
EXTENDS Agenda, TLC

CONSTANTS ana, bia, rita, centro, norte, anyBranch, r1, r2

MCBranchOf == (ana :> centro) @@ (bia :> anyBranch)
MCDurationOf == (ana :> 1) @@ (bia :> 2)
MCWorkingHours == (ana :> {<<0, 1>>, <<2, 4>>}) @@ (bia :> {<<0, 5>>})
MCBusinessHours == {<<0, 4>>}

Item(p, s, d) == [professional_id |-> p, start_at |-> s, duration |-> d]
MCLists == {<<Item(ana, 2, 1)>>, <<Item(bia, 2, 2), Item(ana, 3, 1)>>}
MCBlocks == {[scope |-> "professional", of |-> bia, start_at |-> 1, end_at |-> 3]}

Alike == Permutations({r1, r2})
=============================================================================
