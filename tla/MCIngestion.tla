----------------------------- MODULE MCIngestion -----------------------------
(* Small instances of Ingestion for TLC.                                    *)
EXTENDS Ingestion, TLC

CONSTANTS j1, j2, u1, u2, gh, gx, nt

AllConnected == Users \X NotionSlots
JobSymmetry == Permutations(Jobs)
==============================================================================
