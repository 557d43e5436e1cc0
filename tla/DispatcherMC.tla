--------------------------- MODULE DispatcherMC ---------------------------
(* A small instance of the dispatcher for TLC: Dispatcher.cfg has the      *)
(* constants.                                                              *)
EXTENDS Dispatcher
===========================================================================
