----------------------------- MODULE MCWorkbench -----------------------------
(* Workbench for TLC: a url that can be probed and one that can be enriched. *)
EXTENDS Workbench

VideoUrl == [scheme |-> "http", ext |-> "mp4", xt |-> FALSE, dn |-> FALSE]
MagnetUrl == [scheme |-> "magnet", ext |-> "none", xt |-> TRUE, dn |-> TRUE]

MCUrls == {VideoUrl, MagnetUrl}
=============================================================================
