----------------------------- MODULE MCSessions -----------------------------
(***************************************************************************)
(* Ana works in two salons, in one by invitation; Cleo is a customer.  Both *)
(* use the two tabs of one browser.                                         *)
(*                                                                         *)
(* The limiter stands before the routes that issue tokens and shares no    *)
(* state with them, so the two are explored one beside the other: each     *)
(* goes on while the other is at rest.                                     *)
(***************************************************************************)
EXTENDS Sessions, RateLimiter, TLC

CONSTANTS anaSalon, anaSpa, cleo, tab1, tab2, desk, thread1, thread2, loginKey, refreshKey

MCBrowserOf == (tab1 :> desk) @@ (tab2 :> desk)
MCUserOf == (anaSalon :> "ana") @@ (anaSpa :> "ana") @@ (cleo :> "cleo")
MCMaxAttempts == (loginKey :> 2) @@ (refreshKey :> 1)
MCWindow == (loginKey :> 2) @@ (refreshKey :> 1)
Alike == Permutations({tab1, tab2}) \union Permutations({thread1, thread2})

BothInit == Init /\ LimiterInit
BothNext ==
  \/ Next /\ LimiterInit /\ UNCHANGED limiterVars
  \/ LimiterNext /\ Init /\ UNCHANGED vars
BothSpec == BothInit /\ [][BothNext]_<<vars, limiterVars>>
=============================================================================
