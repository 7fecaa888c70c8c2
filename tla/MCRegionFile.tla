---------------------------- MODULE MCRegionFile ----------------------------
(***************************************************************************)
(* Small instance: sectors of two ints, hence a table of two slots, and    *)
(* payloads whose lengths sit on both sides of each sector boundary.       *)
(***************************************************************************)
EXTENDS RegionFile

CONSTANTS short,   \* header and data fill one sector but for a byte
          edge,    \* exactly one sector, given two by the code
          long,    \* two bytes into the second sector
          huge     \* needs as many sectors as the limit: dropped

MCLength == [p \in Payloads |->
    CASE p = short -> SECTOR_BYTES - 6
      [] p = edge  -> SECTOR_BYTES - 5
      [] p = long  -> SECTOR_BYTES - 3
      [] p = huge  -> 2 * SECTOR_BYTES - 5]
=============================================================================
