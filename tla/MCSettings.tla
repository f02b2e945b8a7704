----------------------------- MODULE MCSettings -----------------------------
(* Two configurations on the server and one player of its own.            *)
EXTENDS Settings
CONSTANTS easy, hard
MCConfs == <<easy, hard>>
MCLocal == {1}
=============================================================================
