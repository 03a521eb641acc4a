-------------------------- MODULE MCFileTransport --------------------------
(***************************************************************************)
(* FileTransport on small instances.  A chunk of fifteen bytes holds three *)
(* events of one byte exactly, one of ten bytes two.  Behind an event of   *)
(* four bytes and one of one byte, in either order, less than a size is    *)
(* left of fifteen bytes.  An event of seven bytes does not fit in ten.    *)
(* A read buffer of five bytes goes three times into a chunk, as the       *)
(* default one goes sixteen times, and ends within the size of an event    *)
(* that follows one of four bytes.                                         *)
(***************************************************************************)
EXTENDS FileTransport

FittingLengths == {1, 4}
AllLengths == {0, 1, 4, 7}
=============================================================================
