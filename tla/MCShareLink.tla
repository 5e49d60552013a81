----------------------------- MODULE MCShareLink -----------------------------
(* Two clients, two codes, and takedown lists that succeed and that stop at an  *)
(* invalid code halfway.                                                        *)
EXTENDS ShareLink

CONSTANTS k1, k2, alice, bob

MCClients == {alice, bob}
MCCodes == {k1, k2}
MCDeleteLists == {<<k1>>, <<k2, BadCode, k1>>}
MCBodies == {"good", "invalid"}
=============================================================================
