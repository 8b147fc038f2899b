-------------------------- MODULE MCIngestPipeline --------------------------
(***************************************************************************)
(* Two pages of one record, the second malformed; both records may also be *)
(* offered to ingest_record.                                               *)
(***************************************************************************)
EXTENDS IngestPipeline

MCPages == <<{1}, {2}>>

=============================================================================
