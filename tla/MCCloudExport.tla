--------------------------- MODULE MCCloudExport ---------------------------
(* Instances of CloudExport for TLC; every constant is set in the cfg. *)
EXTENDS CloudExport
=============================================================================
