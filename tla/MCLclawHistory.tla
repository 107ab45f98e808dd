--------------------------- MODULE MCLclawHistory ---------------------------
(***************************************************************************)
(* An instance of LclawHistory for TLC: two processes, one workload.       *)
(***************************************************************************)
EXTENDS MCLclaw, LclawHistory

RaceJobs == {Do("update", apiKey), Do("set", saltKey), Do("delete", saltKey)}
RaceLifecycleJobs == {Only("up", Services), Full("down", FALSE)}

=============================================================================
