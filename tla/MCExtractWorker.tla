-------------------------- MODULE MCExtractWorker --------------------------
(* The instance of ExtractWorker for TLC: the first task is asked for      *)
(* three times, so that a mistaken answer can have consequences.           *)
EXTENDS ExtractWorker
MCMaxGen == <<3, 1>>
=============================================================================
