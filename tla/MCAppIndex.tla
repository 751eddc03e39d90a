----------------------------- MODULE MCAppIndex -----------------------------
(* A small instance of AppIndex for TLC: an application whose icon must be *)
(* converted, then rendered from its catalogue.                            *)
EXTENDS AppIndex

MCIcons == <<"jp2", "catalog">>

=============================================================================
