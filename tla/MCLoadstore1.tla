----------------------------- MODULE MCLoadstore1 -----------------------------
(* Instances of Loadstore1 for TLC. *)
EXTENDS Loadstore1

CheckThenLoad  == {"load", "hashchk"}
LoadThenHash   == {"load", "hashst"}
LoadsAndStores == {"load", "store"}
=============================================================================
