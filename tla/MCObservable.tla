---------------------------- MODULE MCObservable ----------------------------
(***************************************************************************)
(* Two keys, two values and two streams.                                   *)
(***************************************************************************)
EXTENDS ObservableMap

MCKey   == {"a", "b"}
MCValue == {1, 2}
=============================================================================
