----------------------------- MODULE MCSessionStore ----------------------------
(* Two engines, two steps and a ledger of four entries. *)
EXTENDS SessionStore
=============================================================================
