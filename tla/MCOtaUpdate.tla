----------------------------- MODULE MCOtaUpdate -----------------------------
(* Images of up to four chunks, the last one short. *)
EXTENDS OtaUpdate, TLC

ShortAndLong == {100, 224}
CliChunk == {224}

=============================================================================
