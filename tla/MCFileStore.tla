---------------------------- MODULE MCFileStore -----------------------------
(***************************************************************************)
(* FileStore with three pointer slots per header and two-byte sectors, so *)
(* that every tier occurs: 1 byte (direct), 7 bytes (single indirect, 4   *)
(* sectors), 14 bytes (double indirect, 7 sectors: one full level-2       *)
(* block) and 18 bytes (double indirect, 9 sectors: a full and a partial  *)
(* level-2 block).  20 sectors leave 15 free after formatting; an 18-byte *)
(* file costs 14 and a 14-byte file 11, so allocation also fails, with    *)
(* the header sector already found.                                        *)
(***************************************************************************)
EXTENDS FileStore

MCFileSizes == {1, 7, 14, 18}
=============================================================================
