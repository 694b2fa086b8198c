------------------------------ MODULE MCXrApp ------------------------------
(***************************************************************************)
(* XrApp with two extra displays in the CONFIG, one of them not served.    *)
(***************************************************************************)
EXTENDS XrApp

MCExtras == <<2, 3>>
=============================================================================
