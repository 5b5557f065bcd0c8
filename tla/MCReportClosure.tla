-------------------------- MODULE MCReportClosure --------------------------
(* The instance of ReportClosure for TLC.                                  *)
EXTENDS ReportClosure, TLC
=============================================================================
