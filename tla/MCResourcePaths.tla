-------------------------- MODULE MCResourcePaths --------------------------
(***************************************************************************)
(* The engine over the paths of all the functions, and over the two that   *)
(* hold something they never release.                                      *)
(***************************************************************************)
EXTENDS ResourcePaths, ProbePaths, DecodePaths, ServicePaths

AllRoutines ==
  ContainerRoutines @@ ProbeRoutines @@ DecodeRoutines @@ ServiceRoutines

Handles == ContainerHandles \cup DecodeHandles \cup ServiceHandles

AllReads == FinalHeadReads @@ LoopReads @@ ServiceReads

LeakingCommand == [cache_run |-> cache_run]
=============================================================================
