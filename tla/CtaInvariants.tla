----------------------------- MODULE CtaInvariants -----------------------------
(***************************************************************************)
(* cta_trend with what is proved of its broker: the strategy keeps nothing *)
(* of its own that must agree with the positions, so the invariant of the  *)
(* broker's books, for entries that are purchases, is all that it needs.   *)
(***************************************************************************)
EXTENDS CtaTrend, BacktraderProofs
=============================================================================
