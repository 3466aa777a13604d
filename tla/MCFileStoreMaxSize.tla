------------------------- MODULE MCFileStoreMaxSize -------------------------
(***************************************************************************)
(* FileStore where the only size a caller passes is the largest one the    *)
(* tier table admits: with NumDirect = 3 and two-byte sectors, 28 bytes    *)
(* are 14 = NumIndirect2 sectors, whose SectorsRemaining (10) needs four   *)
(* level-2 blocks while a level-2 index block has three slots.             *)
(***************************************************************************)
EXTENDS FileStore

MaxFileSizes == {NumIndirect2 * SectorSize}
=============================================================================
