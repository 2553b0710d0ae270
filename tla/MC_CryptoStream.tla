--------------------------- MODULE MC_CryptoStream ---------------------------
(* An instance of CryptoStream: credentials of a byte, none and two. *)
EXTENDS CryptoStream

MCCredentialSizes == <<1, 0, 2>>
=============================================================================
