--------------------------- MODULE MCRelayBilling ---------------------------
(* RelayBilling on a handful of requests; the sets are given in the cfgs.  *)
EXTENDS RelayBilling
=============================================================================
