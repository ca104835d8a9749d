------------------------------ MODULE OffRamp ------------------------------
(***************************************************************************)
(* What an off-ramp promises about each payout, whatever the Lightning     *)
(* backend and the payout provider do.  A wallet's sats are held, then     *)
(* either captured by the off-ramp or returned; the fiat reaches the       *)
(* recipient at most once; the client is told how the payout ended.        *)
(*                                                                         *)
(*   - fiat is only ever sent against sats that were held;                 *)
(*   - sats are captured only once the fiat is delivered;                  *)
(*   - "completed" is told only when the sats were captured;               *)
(*   - a payout that was told "failed" is never captured afterwards.       *)
(*                                                                         *)
(* The promise does allow fiat to be delivered for sats that went back to  *)
(* the wallet: the code gives up waiting for the provider after a timeout. *)
(***************************************************************************)
CONSTANT Payouts

VARIABLES sats,   \* "unpaid", "lapsed", "held", "captured" or "returned"
          fiat,   \* "undelivered" or "delivered"
          told    \* "unknown", "inprogress", "completed" or "failed"

vars == <<sats, fiat, told>>

Init == /\ sats = [p \in Payouts |-> "unpaid"]
        /\ fiat = [p \in Payouts |-> "undelivered"]
        /\ told = [p \in Payouts |-> "unknown"]

MoveSats(p, from, to) == /\ sats[p] = from
                         /\ sats' = [sats EXCEPT ![p] = to]
                         /\ UNCHANGED <<fiat, told>>

Pay(p)    == MoveSats(p, "unpaid", "held")
Lapse(p)  == MoveSats(p, "unpaid", "lapsed")
Return(p) == MoveSats(p, "held", "returned")

Capture(p) == /\ fiat[p] = "delivered"
              /\ told[p] # "failed"
              /\ MoveSats(p, "held", "captured")

Deliver(p) == /\ sats[p] \in {"held", "returned"}
              /\ fiat[p] = "undelivered"
              /\ fiat' = [fiat EXCEPT ![p] = "delivered"]
              /\ UNCHANGED <<sats, told>>

Tell(p, from, to) == /\ told[p] = from
                     /\ told' = [told EXCEPT ![p] = to]
                     /\ UNCHANGED <<sats, fiat>>

Accept(p)   == Tell(p, "unknown", "inprogress")
Complete(p) == sats[p] = "captured" /\ Tell(p, "inprogress", "completed")
GiveUp(p)   == sats[p] # "captured" /\ Tell(p, "inprogress", "failed")

\* The off-ramp keeps its records in memory only: a restart forgets them all.
Forget == /\ told' = [p \in Payouts |-> "unknown"]
          /\ UNCHANGED <<sats, fiat>>

Next == \/ Forget
        \/ \E p \in Payouts : \/ Pay(p) \/ Lapse(p) \/ Return(p) \/ Capture(p)
                              \/ Deliver(p)
                              \/ Accept(p) \/ Complete(p) \/ GiveUp(p)

Spec == Init /\ [][Next]_vars
=============================================================================
