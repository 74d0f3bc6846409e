-------------------------- MODULE MCCloudPrediction --------------------------
(***************************************************************************)
(* A small instance of CloudPrediction.                                     *)
(***************************************************************************)
EXTENDS CloudPrediction
=============================================================================
