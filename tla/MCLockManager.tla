---------------------------- MODULE MCLockManager ----------------------------
(* Two sessions and the anonymous id on a lock manager with a lease of two
   clock units and a sweep time up to one unit old. *)
EXTENDS LockManager
=============================================================================
