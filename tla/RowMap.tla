------------------------------- MODULE RowMap -------------------------------
(***************************************************************************)
(* What the row index of clip_store promises: a map from keys to rows, to  *)
(* which the rows of the file are put in their order, and which is left    *)
(* alone when a row cannot be put.                                         *)
(***************************************************************************)
CONSTANTS Keys, Values, None

VARIABLES
  map,   (* the row of each key, or None  *)
  wanted (* the row being put, or None    *)

Row == [key : Keys, value : Values]
Empty == [k \in Keys |-> None]

MapInit == map = Empty /\ wanted = None

Submit(row) ==
  /\ wanted = None
  /\ wanted' = row /\ UNCHANGED map

Take ==
  /\ wanted # None
  /\ map' = [map EXCEPT ![wanted.key] = wanted] /\ wanted' = None

GiveUp == wanted # None /\ wanted' = None /\ UNCHANGED map

Drop == wanted = None /\ map' = Empty /\ UNCHANGED wanted

MapNext == (\E row \in Row : Submit(row)) \/ Take \/ GiveUp \/ Drop

MapSpec == MapInit /\ [][MapNext]_<<map, wanted>>
=============================================================================
