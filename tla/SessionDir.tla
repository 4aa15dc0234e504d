----------------------------- MODULE SessionDir -----------------------------
(***************************************************************************)
(* One session directory and the ingestor that fills it: the payload file  *)
(* {sid}.bin, the sidecar {sid}.meta.jsonl, the sentinel .pipeline_end,    *)
(* and the two inotify queues stream_merge may have armed on them          *)
(* (lib/libpipeline.c).  The ingestor is the demo server                   *)
(* scripts/udp_stream_data_server.sh, widened to the hand-over contract of *)
(* .docs/applets/stream-merge.md:33-58: it may start before or after the   *)
(* reader, close the sidecar before or after the sentinel, and write lines *)
(* that are not data.                                                      *)
(*                                                                         *)
(* The sidecar is measured in half lines, so that a reader can catch a     *)
(* line half written.  A queue is the set of file names it holds: inotify  *)
(* events carry nothing else that the reader uses.                         *)
(***************************************************************************)
EXTENDS SmFsm, Sequences

CONSTANTS
  Other,     (* a sidecar line that is not a valid data record *)
  MaxLines   (* bound: lines written in one session            *)

VARIABLES
  files,      (* "none", "bin": .bin exists, "meta": the sidecar too     *)
  bin,        (* bytes in .bin                                           *)
  lines,      (* the sidecar's lines, the one being written included     *)
  size,       (* half lines that have reached the sidecar                *)
  held,       (* the ingestor has the sidecar open                       *)
  sentinel,   (* "absent", "created", "closed": touch is open then close *)
  dirWatch,   (* the inotify fd of the directory watches it              *)
  metaWatch,  (* the inotify fd of the sidecar watches it                *)
  dirQ,       (* names of the unread events on the directory's fd        *)
  metaQ       (* whether the sidecar's fd has unread events              *)

ingestorVars == <<files, bin, lines, size, held, sentinel>>
watchVars == <<dirWatch, metaWatch, dirQ, metaQ>>
dirVars == <<files, bin, lines, size, held, sentinel,
             dirWatch, metaWatch, dirQ, metaQ>>

DirInit ==
  /\ files = "none" /\ bin = 0 /\ lines = <<>> /\ size = 0 /\ held = FALSE
  /\ sentinel = "absent"
  /\ dirWatch = FALSE /\ metaWatch = FALSE /\ dirQ = {} /\ metaQ = FALSE

DirTypeOK ==
  /\ files \in {"none", "bin", "meta"}
  /\ bin \in Nat
  /\ lines \in Seq(Chunks \cup {Other}) /\ Len(lines) <= MaxLines
  /\ size \in 0..(2 * Len(lines))
  /\ held \in BOOLEAN
  /\ sentinel \in {"absent", "created", "closed"}
  /\ dirWatch \in BOOLEAN /\ metaWatch \in BOOLEAN /\ metaQ \in BOOLEAN
  /\ dirQ \subseteq {"meta", "sentinel"}

-----------------------------------------------------------------------------
(* lp_watch_dir arms IN_CLOSE_WRITE | IN_MOVED_TO, lp_watch_file IN_MODIFY  *)
(* and IN_CLOSE_WRITE: the directory reports a file only when its writer    *)
(* closes it, the file watch every write.                                   *)

DirEvent(name) == dirQ' = IF dirWatch THEN dirQ \cup {name} ELSE dirQ
MetaEvent == metaQ' = (metaQ \/ metaWatch)

WatchDir == dirWatch' = TRUE /\ UNCHANGED <<metaWatch, dirQ, metaQ>>
WatchFile == metaWatch' = TRUE /\ UNCHANGED <<dirWatch, dirQ, metaQ>>

(* lp_consume_inotify_events empties a queue, and reports whether it named *)
(* the sentinel; events of the file watch carry no name.                   *)
ConsumeDir == dirQ' = {} /\ UNCHANGED <<dirWatch, metaWatch, metaQ>>
ConsumeMeta == metaQ' = FALSE /\ UNCHANGED <<dirWatch, metaWatch, dirQ>>

SentinelQueued == "sentinel" \in dirQ

-----------------------------------------------------------------------------
(* The ingestor. *)

(* start_session opens .bin, then the sidecar, and keeps both open. *)
CreateBin ==
  /\ files = "none"
  /\ files' = "bin"
  /\ UNCHANGED <<bin, lines, size, held, sentinel, watchVars>>

CreateMeta ==
  /\ files = "bin"
  /\ files' = "meta"
  /\ held' = TRUE
  /\ UNCHANGED <<bin, lines, size, sentinel, watchVars>>

Writing == held /\ sentinel = "absent" /\ size = 2 * Len(lines)

(* Mutant of WriteChunk: the payload is left in a buffer. *)
WriteChunkUnflushed(c) ==
  /\ Writing /\ Len(lines) < MaxLines
  /\ c.offset = bin
  /\ lines' = Append(lines, c)
  /\ UNCHANGED <<files, bin, size, held, sentinel, watchVars>>

(* write_chunk: the payload reaches .bin first, then the line is written.  *)
(* The number and the timestamp come from the network, the offset is the   *)
(* running size of .bin.                                                   *)
WriteChunk(c) ==
  /\ Writing /\ Len(lines) < MaxLines
  /\ c.offset = bin
  /\ bin' = bin + c.length
  /\ lines' = Append(lines, c)
  /\ UNCHANGED <<files, size, held, sentinel, watchVars>>

WriteOther ==
  /\ Writing /\ Len(lines) < MaxLines
  /\ lines' = Append(lines, Other)
  /\ UNCHANGED <<files, bin, size, held, sentinel, watchVars>>

WriteHalfLine ==
  /\ size < 2 * Len(lines)
  /\ size' = size + 1
  /\ MetaEvent
  /\ UNCHANGED <<files, bin, lines, held, sentinel, dirWatch, metaWatch, dirQ>>

(* end_session: touch .pipeline_end, and close the sidecar. *)
CreateSentinel ==
  /\ files = "meta" /\ sentinel = "absent" /\ size = 2 * Len(lines)
  /\ sentinel' = "created"
  /\ UNCHANGED <<files, bin, lines, size, held, watchVars>>

CloseSentinel ==
  /\ sentinel = "created"
  /\ sentinel' = "closed"
  /\ DirEvent("sentinel")
  /\ UNCHANGED <<files, bin, lines, size, held, dirWatch, metaWatch, metaQ>>

CloseMeta ==
  /\ held /\ size = 2 * Len(lines)
  /\ held' = FALSE
  /\ DirEvent("meta")
  /\ MetaEvent
  /\ UNCHANGED <<files, bin, lines, size, sentinel, dirWatch, metaWatch>>

Ingestor ==
  \/ CreateBin
  \/ CreateMeta
  \/ \E c \in Chunks : WriteChunk(c)
  \/ WriteOther
  \/ WriteHalfLine
  \/ CreateSentinel
  \/ CloseSentinel
  \/ CloseMeta
=============================================================================
