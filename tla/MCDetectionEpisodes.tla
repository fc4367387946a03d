------------------------ MODULE MCDetectionEpisodes ------------------------
(***************************************************************************)
(* DetectionEpisodes for TLC.  Calls are interchangeable in the safety     *)
(* runs; the liveness run names them.                                      *)
(***************************************************************************)
EXTENDS DetectionEpisodes, TLC

CallSymmetry == Permutations(Calls)
=============================================================================
