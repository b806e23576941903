---------------------------- MODULE MCMessageBus ----------------------------
(***************************************************************************)
(* An instance of MessageBus for TLC.                                      *)
(***************************************************************************)
EXTENDS MessageBusProofs

(* A message id, as a model value.                                         *)
CONSTANT light

MCIds == {light}

(* A manager (2) has subscribed in its constructor; the remote manager (1) *)
(* does so when a peer asks for it, at any time.                           *)
MCConfigured == << [id |-> light, runtime |-> 2] >>
=============================================================================
