-------------------------------- MODULE Result --------------------------------
(***************************************************************************)
(* Result<T>, what every fallible operation of the library returns.         *)
(***************************************************************************)
Value(v) == [kind |-> "value", value |-> v]
Failure(code) == [kind |-> "error", code |-> code]
=============================================================================
