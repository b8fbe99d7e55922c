---------------------------- MODULE MCServerView -----------------------------
(* ServerView with the servers and peers of MCSystem.                      *)
EXTENDS ServerView, MCSystem

\* A bound: what comes after the logs have come apart is left out.
LogsTogether == cluster # "apart"
=============================================================================
