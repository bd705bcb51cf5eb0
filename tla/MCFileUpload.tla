--------------------------- MODULE MCFileUpload ---------------------------
(* An instance of FileUpload for TLC. *)
EXTENDS FileUpload

=============================================================================
