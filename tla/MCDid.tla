-------------------------------- MODULE MCDid --------------------------------
(***************************************************************************)
(* Every text of up to MaxLength characters of an alphabet of Base, and of *)
(* up to four with a foreign character, after sound and unsound prefixes.  *)
(***************************************************************************)
EXTENDS Did

CONSTANT MaxLength

Texts(characters, n) == UNION { [ 1..k -> characters ] : k \in 0..n }

MCDids ==
  [ prefix : { TRUE }, multibase : { TRUE },
    encoded : Texts(0..Base - 1, MaxLength) \cup Texts(0..Base, 4) ]
  \cup [ prefix : BOOLEAN, multibase : BOOLEAN, encoded : Texts(0..Base - 1, 2) ]
=============================================================================
