---------------------------- MODULE MC_Promotion ----------------------------
(* Two bundles, the daily run and the ingest endpoint as their sources, and *)
(* one proposal of the daily review.                                        *)
EXTENDS Promotion
=============================================================================
