-------------------------- MODULE MCFilesystemsCd --------------------------
(***************************************************************************)
(* Instances of FilesystemsCd: two images of three volumes on four discs;  *)
(* two volumes that share a disc in each.                     *)
(***************************************************************************)
EXTENDS FilesystemsCd

MCDiscoDe == <<<<1, 2, 2>>, <<3, 3, 4>>>>
MCUnaImagen == <<<<1, 2>>>>
=============================================================================
