--------------------------- MODULE MCSecretStore ---------------------------
(* Small instances of SecretStore for TLC.                                 *)
EXTENDS SecretStore

CONSTANTS s1, s2

MCBootstrap == <<s1>>
MCLegacy    == {<<s2, s1>>}
MCCaps      == {2, 4, 8}

=============================================================================
