------------------------------ MODULE MCServerAccept ------------------------------
(***************************************************************************)
(* ServerAccept for TLC: three clients, so one can wait while two are     *)
(* connected.                                        *)
(***************************************************************************)
EXTENDS ServerAccept

CONSTANTS k1, k2, k3

MCClients == {k1, k2, k3}

=============================================================================
