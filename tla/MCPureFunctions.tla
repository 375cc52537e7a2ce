-------------------------- MODULE MCPureFunctions --------------------------
(* A short day, few digits and a country code of two. *)
EXTENDS PureFunctions

MCCountryCode == <<1, 2>>
=============================================================================
