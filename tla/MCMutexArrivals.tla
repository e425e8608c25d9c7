--------------------------- MODULE MCMutexArrivals ---------------------------
(* Two threads and the one machine they share.                             *)
EXTENDS MCMutexDispatch, MutexArrivals
=============================================================================
