--------------------------- MODULE MCKeyedLocker ---------------------------
(***************************************************************************)
(* KeyedLocker for three goroutines and two keys.  A key can be waited for *)
(* by two goroutines while a third holds it, and one goroutine can leave   *)
(* and come back while the others still wait.  A live entry is referenced  *)
(* by a goroutine, so three addresses are enough.                          *)
(***************************************************************************)
EXTENDS KeyedLocker

=============================================================================
