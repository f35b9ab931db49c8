-------------------------- MODULE MCVoucherAccess --------------------------
(* VoucherAccess with one Acct-Session-Id, which comes round again.         *)
EXTENDS VoucherAccess
=============================================================================
