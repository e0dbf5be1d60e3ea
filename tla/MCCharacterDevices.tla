--------------------------- MODULE MCCharacterDevices ---------------------------
(***************************************************************************)
(* CharacterDevices with a few drivers and inputs of a few bytes.          *)
(***************************************************************************)
EXTENDS CharacterDevices

===============================================================================
