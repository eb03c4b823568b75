--------------------------- MODULE MCEmbeddedPipe ---------------------------
(* An instance of EmbeddedPipe for TLC. *)
EXTENDS EmbeddedPipe

(* A payload shorter and one longer than the storage, of distinguishable   *)
(* bytes.                                                                  *)
MCPayloads == {<<1>>, <<2, 0, 1>>}

=============================================================================
