--------------------------- MODULE MCFileDownload ---------------------------
(* Small instances of FileDownload for TLC. *)
EXTENDS FileDownload

=============================================================================
