------------------------------ MODULE MCDevices ------------------------------
(* The devices with small times: every period is a few ticks.                *)
EXTENDS Devices
MCTyped == <<"a", "q">>
==============================================================================
