--------------------------- MODULE MCSamplerPool ---------------------------
(* SamplerPool on a small pool.                                             *)
EXTENDS SamplerPool

(* Position 0 is an unmasked secret and is never reported.                  *)
MCUnmaskedSecrets == {0}

(* From two runs on, a mean that is not diluted by runs whose summand has   *)
(* not been read is far above the threshold.                                *)
MCSubstantial(mi, n, N) == N >= 2 /\ mi >= n
=============================================================================
