-------------------------- MODULE MCDatabaseFiles --------------------------
(***************************************************************************)
(* The open options the model checker tries: each the default of           *)
(* esdb_open_options_init but for the fields named.                        *)
(***************************************************************************)
EXTENDS DatabaseFiles

Base == [flags |-> {"readwrite", "create"}, journal |-> "unchanged",
         synchronous |-> "unchanged", storage |-> "default", provider |-> "auto",
         codec |-> "none", level |-> 0, foreign_keys |-> 1, cache_kib |-> 0]

Zip == [Base EXCEPT !.storage = "compressed", !.codec = "deflate"]

\* Granted by some build and file.
Granted == {
    [Base EXCEPT !.journal = "wal"],
    [Base EXCEPT !.journal = "delete", !.synchronous = "full"],
    [Base EXCEPT !.flags = {"readonly"}, !.journal = "wal", !.cache_kib = 1],
    Zip,
    [Zip EXCEPT !.codec = "zstd", !.level = 3, !.journal = "wal"]}

\* Refused whatever the file is.
RefusedRequests == {
    [Base EXCEPT !.flags = {"readonly", "create"}],
    [Base EXCEPT !.journal = "memory"],
    [Base EXCEPT !.codec = "zstd"],
    [Zip EXCEPT !.level = -1],
    [Zip EXCEPT !.foreign_keys = 2],
    [Zip EXCEPT !.synchronous = "full"]}

\* Below zero, where Zstd has its fast levels.
MCZstdMin == -5

MCRequests == Granted \cup RefusedRequests
=============================================================================
