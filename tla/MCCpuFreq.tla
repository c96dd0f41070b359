----------------------------- MODULE MCCpuFreq -----------------------------
EXTENDS CpuFreq, TLC

CONSTANT mfc

(* 1 GHz, SLEEP_FREQ and one slower: L4, L6 and L10 of the board's table.  *)
MCFreqTable == (0 :> 1000) @@ (1 :> 800) @@ (2 :> 100)
MCArmVolt == (0 :> 1275) @@ (1 :> 1200) @@ (2 :> 950)
MCIntVolt == (0 :> 1100) @@ (1 :> 1100) @@ (2 :> 1000)

(* The instance is a configuration the promises are meant for.             *)
ASSUME MCConfigured == Configured
=============================================================================
