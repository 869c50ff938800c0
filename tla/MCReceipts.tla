----------------------------- MODULE MCReceipts -----------------------------
(* An order of two pieces with up to three receipts and invoices.          *)
EXTENDS GoodsReceipts

=============================================================================
