---------------------------- MODULE MCMgmtClient ------------------------------
(* An instance of MgmtClient for TLC. *)
EXTENDS MgmtClient

\* A space, a backslash before a quote, a backslash at the end; a newline.
MCParams == {<<"sp", "b", "q", "b">>, <<"nl">>}
=============================================================================
