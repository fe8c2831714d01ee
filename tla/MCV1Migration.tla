--------------------------- MODULE MCV1Migration ---------------------------
(***************************************************************************)
(* Instance of V1Migration for TLC: the three v1 items of the source       *)
(* (sunfish.db, events/, buckets/).                                        *)
(***************************************************************************)
EXTENDS V1Migration

MCParts == 3
=============================================================================
