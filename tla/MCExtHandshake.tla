--------------------------- MODULE MCExtHandshake ---------------------------
(* Small instances of ExtHandshake for TLC.                                *)
EXTENDS ExtHandshake

CONSTANTS s1, s2

MCBootstrap == <<s1>>
MCCaps      == {2, 4, 8}
=============================================================================
