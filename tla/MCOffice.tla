------------------------------ MODULE MCOffice ------------------------------
(* A small instance of Office for TLC. *)
EXTENDS Office

MCAgendas == {{"upload", "remind", "confirm", "close"}, {"save", "remove"}}
=============================================================================
