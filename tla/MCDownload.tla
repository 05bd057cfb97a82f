----------------------------- MODULE MCDownload -----------------------------
(* Download on small instances: see MCDownload*.cfg. *)
EXTENDS Download
=============================================================================
