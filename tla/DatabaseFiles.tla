--------------------------- MODULE DatabaseFiles ---------------------------
(***************************************************************************)
(* esdb_open, esdb_close, esdb_database_health_get and esdb_backup_to of    *)
(* esdb_runtime.cpp, with the ZIPVFS provider selection of esdb_zipvfs.cpp: *)
(* database files, the connections to them, and the steps of opening one.   *)
(*                                                                         *)
(* Each caller is a thread (of this or of another process) that holds at    *)
(* most one database.  The calls run without a lock of ESDB, so the steps   *)
(* of one caller interleave with those of the others; the registry of       *)
(* ZIPVFS codecs has its mutex and is one step.                             *)
(***************************************************************************)
EXTENDS Integers, FiniteSets

CONSTANTS
    Caller,       \* the threads
    Path,         \* database files that callers open
    Requests,     \* the open options that are tried
    None,         \* no path, no options
    DeflateMax,   \* Z_BEST_COMPRESSION
    ZstdMin, ZstdDefault, ZstdMax,   \* the levels of Zstd
    MaxRetries,   \* 200 in esdb_backup_to
    MaxContent    \* bound: writes to one file

ASSUME NoneAssumption == None \notin Path
ASSUME LimitAssumption == MaxRetries \in Nat /\ MaxContent \in Nat
ASSUME LevelAssumption ==
    /\ DeflateMax \in Nat
    /\ {ZstdMin, ZstdDefault, ZstdMax} \subseteq Int
    /\ ZstdDefault \in ZstdMin .. ZstdMax

VARIABLES
    build,     \* what the build was compiled with, and "shm" if the file
               \* system has the shared memory that WAL needs
    file,      \* per path: format, WAL flag of the header, content
    backup,    \* the content of the backup target, None if there is none
    registry,  \* zipvfs_registry: the (codec, level) entries
    vfs,       \* the ZIPVFS file systems registered with SQLite
    call,      \* per caller: where its call stands
    conn,      \* per caller: its SQLite connection
    held,      \* callers that own an esdb_database
    seen,      \* history: per caller, file states during its call
    overruled  \* history: callers whose file another caller has moved into
               \* or out of WAL since they set its journal mode

vars == <<build, file, backup, registry, vfs, call, conn, held, seen, overruled>>

---------------------------------------------------------------------------
(* Options.                                                                *)

Journals == {"unchanged", "delete", "truncate", "persist", "memory", "wal", "off"}
Synchronous == {"unchanged", "off", "normal", "full", "extra"}
Codecs == {"none", "deflate", "zstd"}
Flags == {"readonly", "readwrite", "create", "uri", "fullmutex", "nomutex",
          "nofollow", "unknown"}

Options == [flags : SUBSET Flags, journal : Journals, synchronous : Synchronous,
            storage : {"default", "plain", "compressed", "unknown"},
            provider : {"auto", "sqlite", "zipvfs"}, codec : Codecs,
            level : Int, foreign_keys : 0 .. 2, cache_kib : Nat]

ASSUME RequestAssumption == Requests \subseteq Options

ValidOpenFlags(flags) ==
    /\ "unknown" \notin flags
    /\ ("readonly" \in flags) # ("readwrite" \in flags)
    /\ ~({"readonly", "create"} \subseteq flags)
    /\ ~({"fullmutex", "nomutex"} \subseteq flags)

ValidJournalRequest(mode) == mode \in {"unchanged", "delete", "truncate", "persist", "wal"}

ValidSynchronousRequest(mode) == mode \in {"unchanged", "normal", "full", "extra"}

Compressed(o) == o.storage = "compressed"

ValidateStorageRequest(o) ==
    \/ /\ o.storage \in {"default", "plain"}
       /\ o.provider \in {"auto", "sqlite"}
       /\ o.codec = "none"
       /\ o.level = 0
    \/ /\ Compressed(o)
       /\ o.provider \in {"auto", "zipvfs"}
       /\ o.codec \in {"zstd", "deflate"}
       /\ "zipvfs" \in build
       /\ o.codec = "zstd" => "zstd" \in build
       /\ o.journal \in {"unchanged", "wal"}
       /\ o.synchronous = "unchanged"

\* normalize_level: 0 asks for the default of the codec, Z_DEFAULT_COMPRESSION
\* being -1, which cannot be asked for by its number.
ValidLevel(codec, level) ==
    level \in IF codec = "zstd" THEN ZstdMin .. ZstdMax ELSE 0 .. DeflateMax
NormalizeLevel(codec, level) ==
    IF level # 0 THEN level ELSE IF codec = "zstd" THEN ZstdDefault ELSE -1

---------------------------------------------------------------------------
(* SQLite.  WAL is a property of the file; delete, truncate and persist of *)
(* the connection.  A connection reports the mode it last read or set: it  *)
(* is attached to the WAL only once it has read the file in WAL mode.      *)

\* formats is history: those of the pages the connection has read or written.
NoConn == [path |-> None, options |-> None, mode |-> "delete",
           attached |-> FALSE, formats |-> {}]

Connected == {t \in Caller : conn[t].path # None}

\* The format a connection reads and writes.
FormatOf(o) == IF Compressed(o) THEN o.codec ELSE "plain"

\* A file whose header says WAL cannot be read without shared memory.
Readable(t) ==
    LET f == file[conn[t].path] IN
    /\ f.format \in {"empty", FormatOf(conn[t].options)}
    /\ f.wal => "shm" \in build

\* What a connection is after it has read its file.
AfterRead(c, f) ==
    [c EXCEPT !.attached = f.wal,
              !.mode = IF f.wal THEN "wal" ELSE IF @ = "wal" THEN "delete" ELSE @,
              !.formats = @ \cup ({f.format} \ {"empty"})]

\* Leaving WAL needs the file for oneself.
Alone(t) == \A u \in Connected \ {t} :
                conn[u].path = conn[t].path => ~conn[u].attached

---------------------------------------------------------------------------
(* Calls.                                                                  *)

At(pc) == [pc |-> pc, retries |-> 0]
Idle == At("idle")
Goes(t, c) == call' = [call EXCEPT ![t] = c]

\* History: the states of its file a health or backup call has run through.
Watched(files) ==
    [t \in Caller |-> IF call[t].pc \in {"health", "backup"}
                      THEN seen[t] \cup {files[conn[t].path]} ELSE seen[t]]

\* An error inside esdb_open: the connection, if there is one, is closed and
\* the esdb_database deleted.
OpenFails(t) ==
    /\ Goes(t, Idle)
    /\ conn' = [conn EXCEPT ![t] = NoConn]
    /\ overruled' = overruled \ {t}
    /\ UNCHANGED held

\* esdb_open up to validate_storage_request.
Open(t, path, o) ==
    /\ call[t].pc = "idle" /\ t \notin held
    /\ IF /\ ValidOpenFlags(o.flags)
          /\ ValidJournalRequest(o.journal)
          /\ ValidSynchronousRequest(o.synchronous)
          /\ ValidateStorageRequest(o)
       THEN /\ Goes(t, At("select"))
            /\ conn' = [conn EXCEPT ![t] = [NoConn EXCEPT !.path = path, !.options = o]]
       ELSE Goes(t, Idle) /\ UNCHANGED conn
    /\ UNCHANGED <<build, file, backup, registry, vfs, held, seen, overruled>>

\* ensure_zipvfs, under its mutex: an entry is reused, a new one is inserted
\* and registered with SQLite, and taken out again if that fails.
EnsureZipvfs(t, key) ==
    \/ /\ key \in registry
       /\ Goes(t, At("open"))
       /\ UNCHANGED <<registry, vfs, conn, held, overruled>>
    \/ /\ key \notin registry
       /\ registry' = registry \cup {key}
       /\ vfs' = vfs \cup {key}
       /\ Goes(t, At("open"))
       /\ UNCHANGED <<conn, held, overruled>>
    \/ /\ key \notin registry
       /\ OpenFails(t)
       /\ UNCHANGED <<registry, vfs>>

Key(o) == <<o.codec, NormalizeLevel(o.codec, o.level)>>

\* storage_vfs_select.
SelectVfs(t) ==
    /\ call[t].pc = "select"
    /\ LET o == conn[t].options IN
        \/ /\ Compressed(o) /\ ValidLevel(o.codec, o.level)
           /\ EnsureZipvfs(t, Key(o))
        \/ /\ Compressed(o) /\ ~ValidLevel(o.codec, o.level)
           /\ OpenFails(t)
           /\ UNCHANGED <<registry, vfs>>
        \/ /\ ~Compressed(o)
           /\ Goes(t, At("open"))
           /\ UNCHANGED <<registry, vfs, conn, held, overruled>>
    /\ UNCHANGED <<build, file, backup, seen>>

\* The last checks of the options and sqlite3_open_v2: the VFS must be
\* registered and the file be there or be created; it is not read yet.
OpenFile(t) ==
    /\ call[t].pc = "open"
    /\ LET o == conn[t].options IN
        \/ /\ o.foreign_keys <= 1
           /\ Compressed(o) => Key(o) \in vfs
           /\ file[conn[t].path].format = "absent" => "create" \in o.flags
           /\ file' = [file EXCEPT ![conn[t].path].format = IF @ = "absent" THEN "empty" ELSE @]
           /\ Goes(t, At("verify"))
           /\ UNCHANGED <<conn, held, overruled>>
        \/ /\ OpenFails(t)
           /\ UNCHANGED file
    /\ UNCHANGED <<build, backup, registry, vfs, seen>>

\* Mutant of Autodetect: a header that is not the codec's is passed through.
AutodetectPasses(format, codec) == TRUE

\* zipvfs_autodetect: a file that has a header must have that of the codec.
Autodetect(format, codec) == format \in {"empty", codec}

\* storage_verify_open: a compressed request must have reached ZIPVFS, which
\* reads the header; of a plain request nothing is read.
VerifyOpen(t) ==
    /\ call[t].pc = "verify"
    /\ LET o == conn[t].options
           format == file[conn[t].path].format
       IN  \/ /\ Compressed(o) => Autodetect(format, o.codec)
              /\ conn' = [conn EXCEPT ![t].formats =
                              IF Compressed(o) THEN {format} \ {"empty"} ELSE {}]
              /\ Goes(t, At("journal"))
              /\ UNCHANGED <<held, overruled>>
           \/ /\ Compressed(o)
              /\ OpenFails(t)
    /\ UNCHANGED <<build, file, backup, registry, vfs, seen>>

\* Whom a new WAL flag of t's file overrules; t itself has just set it.
Overruled(t, wal) ==
    (IF file[conn[t].path].wal = wal THEN overruled
     ELSE overruled \cup {u \in Connected : conn[u].path = conn[t].path}) \ {t}

\* PRAGMA journal_mode = m (zipvfs_journal_mode for a compressed database): it
\* reads the file, then writes its header to enter WAL, and leaves WAL only
\* alone.  A path without shared memory keeps its mode and reports no error.
\* A lock elsewhere is an error.
SetJournal(t) ==
    /\ call[t].pc = "journal"
    /\ LET c == conn[t]
           m == c.options.journal
           f == file[c.path]
           read == AfterRead(c, f)
       IN  \/ /\ m = "unchanged"
              /\ Goes(t, At("settings"))
              /\ UNCHANGED <<file, conn, held, seen, overruled>>
           \/ /\ m = "wal" /\ Readable(t) /\ "shm" \in build
              /\ "readonly" \in c.options.flags => f.wal
              /\ file' = [file EXCEPT ![c.path].wal = TRUE,
                                      ![c.path].format = FormatOf(c.options)]
              /\ conn' = [conn EXCEPT ![t] =
                     [read EXCEPT !.mode = "wal", !.formats = @ \cup {FormatOf(c.options)}]]
              /\ seen' = Watched(file')
              /\ overruled' = Overruled(t, TRUE)
              /\ Goes(t, At("readback"))
              /\ UNCHANGED held
           \/ /\ m = "wal" /\ Readable(t) /\ "shm" \notin build
              /\ conn' = [conn EXCEPT ![t] = read]
              /\ Goes(t, At("readback"))
              /\ UNCHANGED <<file, held, seen, overruled>>
           \/ /\ m \in {"delete", "truncate", "persist"} /\ Readable(t)
              /\ f.wal => Alone(t) /\ "readonly" \notin c.options.flags
              /\ file' = [file EXCEPT ![c.path].wal = FALSE]
              /\ conn' = [conn EXCEPT ![t] = [read EXCEPT !.mode = m, !.attached = FALSE]]
              /\ seen' = Watched(file')
              /\ overruled' = Overruled(t, FALSE)
              /\ Goes(t, At("readback"))
              /\ UNCHANGED held
           \/ /\ m # "unchanged"
              /\ OpenFails(t)
              /\ UNCHANGED <<file, seen>>
    /\ UNCHANGED <<build, backup, registry, vfs>>

\* Mutant of ReadJournal: the mode that was applied is not compared.
ReadJournalTrusts(t) ==
    /\ call[t].pc = "readback"
    /\ Goes(t, At("settings"))
    /\ UNCHANGED <<build, file, backup, registry, vfs, conn, held, seen, overruled>>

\* PRAGMA journal_mode, and the comparison with the request: what is read is
\* the mode of the connection, which does not look at the file again.
ReadJournal(t) ==
    /\ call[t].pc = "readback"
    /\ IF conn[t].mode = conn[t].options.journal
       THEN Goes(t, At("settings")) /\ UNCHANGED <<conn, held, overruled>>
       ELSE OpenFails(t)
    /\ UNCHANGED <<build, file, backup, registry, vfs, seen>>

\* The other pragmas of configure_database, all private to the connection.
\* Those of synchronous and cache_size read the file first, if the pragma of
\* the journal mode has not done so.
Settings(t) ==
    /\ call[t].pc = "settings"
    /\ LET c == conn[t]
           reads == /\ c.options.journal = "unchanged"
                    /\ c.options.synchronous # "unchanged" \/ c.options.cache_kib > 0
       IN  \/ /\ reads => Readable(t)
              /\ conn' = [conn EXCEPT ![t] = IF reads THEN AfterRead(c, file[c.path]) ELSE c]
              /\ held' = held \cup {t}
              /\ Goes(t, Idle)
              /\ UNCHANGED overruled
           \/ OpenFails(t)
    /\ UNCHANGED <<build, file, backup, registry, vfs, seen>>

\* esdb_close: sqlite3_close_v2 and delete.
Close(t) ==
    /\ call[t].pc = "idle" /\ t \in held
    /\ conn' = [conn EXCEPT ![t] = NoConn]
    /\ held' = held \ {t}
    /\ overruled' = overruled \ {t}
    /\ Goes(t, Idle)
    /\ UNCHANGED <<build, file, backup, registry, vfs, seen>>

\* The caller runs a statement of its own, a read (esdb_integrity_check is
\* one) or a committed write.
Use(t) ==
    /\ call[t].pc = "idle" /\ t \in held /\ Readable(t)
    /\ LET c == conn[t] IN
        /\ \/ UNCHANGED file
           \/ /\ "readonly" \notin c.options.flags
              /\ file[c.path].content < MaxContent
              /\ file' = [file EXCEPT ![c.path].content = @ + 1,
                                      ![c.path].format = FormatOf(c.options)]
        /\ conn' = [conn EXCEPT ![t] = AfterRead(c, file'[c.path])]
    /\ seen' = Watched(file')
    /\ Goes(t, Idle)
    /\ UNCHANGED <<build, backup, registry, vfs, held, overruled>>

---------------------------------------------------------------------------
(* esdb_database_health_get: the page counts are read from the file first, *)
(* the journal mode is asked for last.                                     *)

\* Mutant of HealthRead: the mode is reported without a look at the file.
HealthReadsNothing(t) ==
    /\ call[t].pc = "idle" /\ t \in held /\ Readable(t)
    /\ Goes(t, At("health"))
    /\ seen' = [seen EXCEPT ![t] = {file[conn[t].path]}]
    /\ UNCHANGED <<build, file, backup, registry, vfs, conn, held, overruled>>

HealthRead(t) ==
    /\ call[t].pc = "idle" /\ t \in held
    /\ \/ /\ Readable(t)
          /\ conn' = [conn EXCEPT ![t] = AfterRead(@, file[@.path])]
          /\ Goes(t, At("health"))
          /\ seen' = [seen EXCEPT ![t] = {file[conn[t].path]}]
       \/ /\ Goes(t, Idle)
          /\ UNCHANGED <<conn, seen>>
    /\ UNCHANGED <<build, file, backup, registry, vfs, held, overruled>>

HealthReport(t) ==
    /\ call[t].pc = "health"
    /\ Goes(t, Idle)
    /\ seen' = [seen EXCEPT ![t] = {}]
    /\ UNCHANGED <<build, file, backup, registry, vfs, conn, held, overruled>>

---------------------------------------------------------------------------
(* esdb_backup_to, from the databases of the callers to one target that    *)
(* nobody else opens.  A step copies every page in a transaction on the    *)
(* target, so it happens as a whole or not at all.                         *)

BackupStart(t) ==
    /\ call[t].pc = "idle" /\ t \in held
    /\ \/ /\ Goes(t, At("backup"))
          /\ seen' = [seen EXCEPT ![t] = {file[conn[t].path]}]
       \/ /\ Goes(t, Idle)
          /\ UNCHANGED seen
    /\ UNCHANGED <<build, file, backup, registry, vfs, conn, held, overruled>>

\* sqlite3_backup_step reaches the last page and sqlite3_backup_finish is fine.
BackupDone(t) ==
    /\ call[t].pc = "backup" /\ Readable(t)
    /\ backup' = file[conn[t].path].content
    /\ Goes(t, At("copied"))
    /\ conn' = [conn EXCEPT ![t] = AfterRead(@, file[@.path])]
    /\ seen' = [seen EXCEPT ![t] = {}]
    /\ UNCHANGED <<build, file, registry, vfs, held, overruled>>

\* The target is closed, and the call returns (an error, if that fails).
BackupReturns(t) ==
    /\ call[t].pc = "copied"
    /\ Goes(t, Idle)
    /\ UNCHANGED <<build, file, backup, registry, vfs, conn, held, seen, overruled>>

\* Mutant of BackupBusy: the limit is one retry late.
BackupBusyLate(t) ==
    /\ call[t].pc = "backup"
    /\ IF call[t].retries > MaxRetries
       THEN Goes(t, Idle) /\ seen' = [seen EXCEPT ![t] = {}]
       ELSE Goes(t, [call[t] EXCEPT !.retries = @ + 1]) /\ UNCHANGED seen
    /\ UNCHANGED <<build, file, backup, registry, vfs, conn, held, overruled>>

\* Mutant of BackupBusy: the count starts over before it meets the limit.
BackupBusyForever(t) ==
    /\ call[t].pc = "backup"
    /\ Goes(t, [call[t] EXCEPT !.retries = (@ + 1) % (MaxRetries + 1)])
    /\ UNCHANGED <<build, file, backup, registry, vfs, conn, held, seen, overruled>>

\* Mutant of BackupBusy: giving up is taken for the end.
BackupBusyIsDone(t) ==
    /\ call[t].pc = "backup"
    /\ IF call[t].retries + 1 > MaxRetries
       THEN Goes(t, At("copied")) /\ seen' = [seen EXCEPT ![t] = {}]
       ELSE Goes(t, [call[t] EXCEPT !.retries = @ + 1]) /\ UNCHANGED seen
    /\ UNCHANGED <<build, file, backup, registry, vfs, conn, held, overruled>>

\* SQLITE_BUSY or SQLITE_LOCKED, on the source or on the target: sleep and try
\* again, up to 200 times, then sqlite3_backup_finish and the error.
BackupBusy(t) ==
    /\ call[t].pc = "backup"
    /\ IF call[t].retries + 1 > MaxRetries
       THEN Goes(t, Idle) /\ seen' = [seen EXCEPT ![t] = {}]
       ELSE Goes(t, [call[t] EXCEPT !.retries = @ + 1]) /\ UNCHANGED seen
    /\ UNCHANGED <<build, file, backup, registry, vfs, conn, held, overruled>>

\* Any other code of the step, or of sqlite3_backup_finish, is an error.
BackupFails(t) ==
    /\ call[t].pc = "backup"
    /\ Goes(t, Idle)
    /\ seen' = [seen EXCEPT ![t] = {}]
    /\ UNCHANGED <<build, file, backup, registry, vfs, conn, held, overruled>>

---------------------------------------------------------------------------
Init ==
    /\ build \in {{}, {"zipvfs"}, {"zipvfs", "zstd", "shm"}}
    /\ file = [p \in Path |-> [format |-> "absent", wal |-> FALSE, content |-> 0]]
    /\ backup = None
    /\ registry = {}
    /\ vfs = {}
    /\ call = [t \in Caller |-> Idle]
    /\ conn = [t \in Caller |-> NoConn]
    /\ held = {}
    /\ seen = [t \in Caller |-> {}]
    /\ overruled = {}

\* The steps of a call that has begun.
Step(t) ==
    \/ SelectVfs(t) \/ OpenFile(t) \/ VerifyOpen(t) \/ SetJournal(t)
    \/ ReadJournal(t) \/ Settings(t)
    \/ HealthReport(t)
    \/ BackupDone(t) \/ BackupBusy(t) \/ BackupFails(t) \/ BackupReturns(t)

Next ==
    \E t \in Caller :
        \/ Step(t)
        \/ \E path \in Path, o \in Requests : Open(t, path, o)
        \/ Close(t) \/ Use(t) \/ HealthRead(t) \/ BackupStart(t)

\* A thread inside a call goes on: no step of a call waits for another caller
\* (a busy lock times out and is an outcome of its own).
FairSpec == Init /\ [][Next]_vars /\ \A t \in Caller : WF_vars(Step(t))

---------------------------------------------------------------------------
(* Properties.                                                             *)

FileState == [format : {"absent", "empty", "plain", "deflate", "zstd"},
              wal : BOOLEAN, content : 0 .. MaxContent]
Steps == {"idle", "select", "open", "verify", "journal", "readback", "settings",
          "health", "backup", "copied"}
Connection == [path : Path \cup {None}, options : Requests \cup {None},
               mode : Journals, attached : BOOLEAN,
               formats : SUBSET {"plain", "deflate", "zstd"}]

\* Type invariant.
TypeOK ==
    /\ build \subseteq {"zipvfs", "zstd", "shm"}
    /\ file \in [Path -> FileState]
    /\ backup \in 0 .. MaxContent \cup {None}
    /\ registry \cup vfs \subseteq Codecs \X Int
    /\ call \in [Caller -> [pc : Steps, retries : 0 .. MaxRetries]]
    /\ conn \in [Caller -> Connection]
    /\ \A t \in Connected : conn[t].options \in Requests
    /\ held \cup overruled \subseteq Caller
    /\ seen \in [Caller -> SUBSET FileState]

\* A caller outside a call has a SQLite connection exactly if it was given a
\* database: no error path of esdb_open leaves one open.
NoConnectionLeaked ==
    \A t \in Caller : call[t].pc = "idle" => (t \in Connected <=> t \in held)

\* A database that was asked for in some journal mode is handed out in that
\* mode, delete, truncate and persist told apart, and so is its file, for as
\* long as no other caller moves the file into or out of WAL: also where
\* SQLite kept another mode without an error, or another open came between
\* the pragma and the end of this one.  A file with a connection that has read
\* it in WAL mode cannot be taken out of WAL at all.
GrantedAsRequested ==
    /\ \A t \in held \ overruled :
        LET m == conn[t].options.journal IN
        m # "unchanged" => conn[t].mode = m /\ (file[conn[t].path].wal <=> m = "wal")
    /\ \A t \in Connected : conn[t].attached => file[conn[t].path].wal

\* A name in the registry of codecs is always a file system SQLite knows, also
\* after a registration that failed: no later open is sent to a missing VFS.
NamedVfsExists == registry = vfs

\* A database is never read or written in another format than that of its
\* open, and what it has once read or written stays in that format: a
\* compressed database never falls back to plain SQLite, also when its file
\* was empty at the verification and another caller filled it since.
CompressedIsCompressed ==
    \A t \in held :
        LET format == FormatOf(conn[t].options) IN
        /\ conn[t].formats \subseteq {format}
        /\ conn[t].formats # {} => file[conn[t].path].format = format

\* esdb_open hands out what was asked for or leaves nothing behind, however
\* many of its steps were done when one failed or another caller interfered.
OpenAllOrNothing ==
    /\ NoConnectionLeaked /\ NamedVfsExists
    /\ GrantedAsRequested /\ CompressedIsCompressed

\* The journal mode a health call will report was the file's during the call,
\* whatever another connection made of the file since this one last used it.
HealthReportsTheFile ==
    \A t \in Caller :
        call[t].pc = "health"
        => \E f \in seen[t] : f.wal <=> conn[t].mode = "wal"

\* A backup that reports success copied a content the source had while the
\* call ran: giving up after the last retry is never a success.
BackupIsSnapshot ==
    [][\A t \in Caller :
        call[t].pc = "backup" /\ call'[t].pc = "copied"
        => \E f \in seen[t] : f.content = backup']_vars

\* Every call returns: an open ends in a database or an error, and a backup
\* gives up on a lock that is never released.
CallReturns == \A t \in Caller : call[t].pc # "idle" ~> call[t].pc = "idle"
=============================================================================
