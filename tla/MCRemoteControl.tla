-------------------------- MODULE MCRemoteControl --------------------------
(* Instance of RemoteControl for TLC. *)
EXTENDS RemoteControl

=============================================================================
