---------------------------- MODULE MCUtermServer ----------------------------
(* Instance of ServerReaders, and with it of UtermServer, for TLC. *)
EXTENDS ServerReaders, TLC

(* Client ids are compared for equality only. *)
ClientSymmetry == Permutations(Clients)
==============================================================================
