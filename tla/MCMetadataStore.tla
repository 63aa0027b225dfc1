-------------------------- MODULE MCMetadataStore --------------------------
(* Model of MetadataStore for TLC.                                          *)
EXTENDS MetadataStore
=============================================================================
