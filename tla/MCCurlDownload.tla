-------------------------- MODULE MCCurlDownload --------------------------
(* CurlDownload, of a remote file of a few bytes. *)
EXTENDS CurlDownload
=============================================================================
