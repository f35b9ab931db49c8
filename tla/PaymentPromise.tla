--------------------------- MODULE PaymentPromise ---------------------------
(***************************************************************************)
(* What payments/service.py promises about one purchase, with none of its  *)
(* machinery: it is opened once, fails or is sold once, a timeout of ours  *)
(* is provisional (the provider may still sell or fail it), a failure the  *)
(* provider gave is final, and a sale comes with exactly one voucher.  An   *)
(* operator who records a refund takes the payment out of this.            *)
(***************************************************************************)
EXTENDS Naturals

VARIABLES stage, vouchers

Stages == {"none", "open", "timed_out", "failed", "sold", "void"}

Init == stage = "none" /\ vouchers = 0

Move(from, to) == stage \in from /\ stage' = to /\ UNCHANGED vouchers

Open    == Move({"none"}, "open")
Fail    == Move({"open", "timed_out"}, "failed")
TimeOut == Move({"open"}, "timed_out")
Sell    == /\ stage \in {"open", "timed_out"}
           /\ stage' = "sold"
           /\ vouchers' = vouchers + 1

Void    == stage # "none" /\ stage' = "void" /\ vouchers' = 0

Next == Open \/ Fail \/ TimeOut \/ Sell \/ Void

Spec == Init /\ [][Next]_<<stage, vouchers>>
=============================================================================
