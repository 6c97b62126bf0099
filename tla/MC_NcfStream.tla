--------------------------- MODULE MC_NcfStream ---------------------------
(* Small inputs for NcfStream: host files of up to four bytes (with line  *)
(* ends, so lines of 0, 1, 2 and 3 bytes and a missing last line end all  *)
(* occur), CMS files of up to three records of one or two bytes.  With      *)
(* Lrecl = 2, ChunkMax = 2 and BufCap = 2 records are cut, reads end      *)
(* inside and at the end of a record, and sink buffers fill inside a      *)
(* record and at its line end.                                            *)
EXTENDS NcfStream

MC_HostFiles == BoundedSeq({"c", LF}, 4)

MC_BinHostFiles == BoundedSeq({"c"}, 3)

MC_Records == BoundedSeq({"a", "b"}, 2) \ {<<>>}

MC_CmsFiles == BoundedSeq(MC_Records, 3)

MC_Cmds == {"get", "getbin", "put", "putbin"}

MC_SourceStates == {STATE_OK, STATE_SOURCE_ENDED}

MC_SinkStates == {STATE_OK, STATE_SINK_MEDIA_FULL}
=============================================================================
