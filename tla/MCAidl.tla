------------------------------- MODULE MCAidl --------------------------------
(***************************************************************************)
(* Instances for TLC: two applications.                                    *)
(***************************************************************************)
EXTENDS Aidl

CONSTANTS k1, k2
=============================================================================
