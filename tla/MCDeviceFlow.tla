---------------------------- MODULE MCDeviceFlow ----------------------------
(***************************************************************************)
(* Instances of DeviceFlow for TLC.  Without symmetry: the runs check a    *)
(* liveness property.                                                      *)
(***************************************************************************)
EXTENDS DeviceFlow, TLC

CONSTANTS w1, w2, o1, o2

OneEach == (w1 :> o1) @@ (w2 :> o2)

=============================================================================
