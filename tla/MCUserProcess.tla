---------------------------- MODULE MCUserProcess ----------------------------
(* User programs: three threads, one child each, two frames.                *)
EXTENDS UserProcess
==============================================================================
