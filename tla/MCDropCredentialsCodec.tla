------------------------ MODULE MCDropCredentialsCodec ------------------------
(***************************************************************************)
(* DropCredentialsCodec for TLC: lists of up to three names over three    *)
(* names, so empty lists, repeats and reorderings all occur.              *)
(***************************************************************************)
EXTENDS DropCredentialsCodec

CONSTANTS c1, c2, c3

MCNames == {c1, c2, c3}
MCMaxNames == 3

=============================================================================
