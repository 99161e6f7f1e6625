-------------------------- MODULE MCContactsCache --------------------------
(* ContactsCache for TLC: customers and coroutines are model values, locks   *)
(* are numbers.  Its liveness is checked, so there is no symmetry; MCCaches  *)
(* has the larger lists.                                                     *)
EXTENDS ContactsCache
=============================================================================
