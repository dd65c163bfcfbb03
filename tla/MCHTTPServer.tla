---------------------------- MODULE MCHTTPServer ----------------------------
(* Two concurrent requests of any kind, pages of up to two rows. *)
EXTENDS HTTPServer
=============================================================================
