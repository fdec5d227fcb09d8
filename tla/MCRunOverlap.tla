----------------------------- MODULE MCRunOverlap -----------------------------
(* Small instances of RunOverlap for TLC. *)
EXTENDS RunOverlap, MCDocumentPipeline

\* As in MCDocumentPipeline, without the audit log.
OverlapView == <<WithoutAudit, retried>>
=============================================================================
