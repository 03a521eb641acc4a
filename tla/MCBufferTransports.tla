------------------------ MODULE MCBufferTransports ------------------------
(* BufferTransports for TLC: the values are in the configuration.          *)
EXTENDS BufferTransports
=============================================================================
