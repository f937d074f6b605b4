----------------------------- MODULE MCTempServer -----------------------------
(***************************************************************************)
(* TempServer.cfg: two starts, so that one follows another while a client  *)
(* thread of the first is still alive.  TempServerCount.cfg: one start and *)
(* two client threads, whose counts race.                                  *)
(***************************************************************************)
EXTENDS TempServer

=============================================================================
