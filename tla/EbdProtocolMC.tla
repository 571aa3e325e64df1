---------------------------- MODULE EbdProtocolMC ----------------------------
(***************************************************************************)
(* Instances of EbdProtocol: p inherits two eclasses, q one of them, r one  *)
(* that the eclass cache does not know.                                    *)
(***************************************************************************)
EXTENDS EbdProtocol, TLC

CONSTANTS p, q, r, eutils, toolchain, unknown

MCInherits == p :> {eutils, toolchain} @@ q :> {eutils} @@ r :> {unknown}
=============================================================================
