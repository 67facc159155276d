--------------------------- MODULE MCPartitionIo ---------------------------
(***************************************************************************)
(* PartitionIo with a disk of six blocks of two bytes: the GPT in block 0, *)
(* 'misc' in blocks 1 to 3, 'boot' in block 4 and a last block that        *)
(* belongs to no partition.                                                *)
(***************************************************************************)
EXTENDS PartitionIo

MCTable == [misc |-> [first |-> 1, last |-> 3], boot |-> [first |-> 4, last |-> 4]]
MCOffsets == -6 .. 7
=============================================================================
