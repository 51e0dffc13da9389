------------------------- MODULE DatabaseFilesProofs -------------------------
(***************************************************************************)
(* Proofs about DatabaseFiles, for any callers, files and open options.    *)
(* The calls take no lock, so the inductive invariant says of each caller  *)
(* what the steps it has done still guarantee after any step of another:   *)
(* what a connection is at each step of esdb_open, what its file can no    *)
(* longer become, and which states of the file a call has lived through.   *)
(***************************************************************************)
EXTENDS DatabaseFiles, TLAPS

Opening == {"select", "open", "verify", "journal", "readback", "settings"}
Watching == {"health", "backup"}

(* A connection belongs to a database or to an esdb_open that is not over. *)
PhaseInv(u) ==
    /\ u \in Connected <=> u \in held \/ call[u].pc \in Opening
    /\ u \in held => call[u].pc \notin Opening
    /\ call[u].pc \in {"health", "backup", "copied"} => u \in held

(* What a connection and its file are once the request is granted. *)
Granted(u) ==
    LET m == conn[u].options.journal IN
    conn[u].mode = m /\ (file[conn[u].path].wal <=> m = "wal")

(* After the pragma a file has the mode asked for if the connection has,   *)
(* after the comparison both have, until another caller overrules them;    *)
(* nobody takes a file out of WAL under an attached connection.            *)
ModeInv(u) ==
    /\ u \in Connected /\ conn[u].attached => file[conn[u].path].wal
    /\ u \in Connected /\ u \notin overruled /\ conn[u].options.journal # "unchanged" =>
        /\ call[u].pc = "readback" /\ conn[u].mode = conn[u].options.journal => Granted(u)
        /\ call[u].pc = "settings" \/ u \in held => Granted(u)

(* The file of an open connection exists, and keeps the format of the      *)
(* pages the connection has read or written, which is that of its open.    *)
FileInv(u) ==
    u \in Connected =>
        /\ Compressed(conn[u].options) => conn[u].options.codec \in {"deflate", "zstd"}
        /\ conn[u].formats \subseteq {FormatOf(conn[u].options)}
        /\ conn[u].formats # {} => file[conn[u].path].format = FormatOf(conn[u].options)
        /\ call[u].pc \notin {"select", "open"} => file[conn[u].path].format # "absent"

(* A watched file is in the history as it is, and as the call has read it. *)
SeenInv(u) ==
    /\ call[u].pc \in Watching => file[conn[u].path] \in seen[u]
    /\ call[u].pc = "health" => \E f \in seen[u] : f.wal <=> conn[u].mode = "wal"

CallerInv(u) == PhaseInv(u) /\ ModeInv(u) /\ FileInv(u) /\ SeenInv(u)

IInv == TypeOK /\ NamedVfsExists /\ \A u \in Caller : CallerInv(u)

-----------------------------------------------------------------------------
(* What a step of one caller leaves of the others. *)

CallState == [pc : Steps, retries : 0 .. MaxRetries]

(* A file never goes away, and one that has pages keeps its format. *)
FilesGoOn ==
    \A p \in Path :
        /\ file[p].format # "absent" => file'[p].format # "absent"
        /\ file[p].format \in {"plain", "deflate", "zstd"} => file'[p].format = file[p].format

(* A step that moves u's file into or out of WAL overrules u, and leaves   *)
(* the file in WAL if u is attached to it.                                 *)
Overrules(u) ==
    /\ u \in overruled => u \in overruled'
    /\ u \in Connected /\ ~(file'[conn[u].path].wal <=> file[conn[u].path].wal) =>
        u \in overruled' /\ (conn[u].attached => file'[conn[u].path].wal)

(* A step leaves the history of u's call, or adds the file as it is now. *)
Watches(u) ==
    /\ seen[u] \subseteq seen'[u]
    /\ call[u].pc \in Watching => file'[conn[u].path] \in seen'[u]

LEMMA OtherKept ==
    ASSUME TypeOK, NEW u \in Caller, CallerInv(u), FilesGoOn, Watches(u),
           Overrules(u),
           build' = build, call'[u] = call[u], conn'[u] = conn[u],
           u \in held' <=> u \in held
    PROVE  CallerInv(u)'
  <1>1. (u \in Connected)' <=> u \in Connected
    BY DEF Connected
  <1>2. conn[u].path \in Path \cup {None}
    BY DEF TypeOK, Connection
  <1>3. PhaseInv(u)'
    BY <1>1 DEF CallerInv, PhaseInv
  <1>4. ModeInv(u)'
    BY <1>1 DEF CallerInv, ModeInv, Granted, Overrules
  <1>5. FileInv(u)'
    <2> SUFFICES ASSUME (u \in Connected)'
                 PROVE  /\ Compressed(conn[u].options)
                           => conn[u].options.codec \in {"deflate", "zstd"}
                        /\ conn[u].formats \subseteq {FormatOf(conn[u].options)}
                        /\ conn[u].formats # {}
                           => file'[conn[u].path].format = FormatOf(conn[u].options)
                        /\ call[u].pc \notin {"select", "open"}
                           => file'[conn[u].path].format # "absent"
      BY DEF FileInv, Compressed, FormatOf
    <2>1. conn[u].path \in Path /\ u \in Connected
      BY <1>1, <1>2 DEF Connected
    <2>2. FormatOf(conn[u].options) \in {"plain", "deflate", "zstd"}
      BY <2>1 DEF CallerInv, FileInv, FormatOf
    <2> QED
      BY <2>1, <2>2 DEF CallerInv, FileInv, FilesGoOn
  <1>6. SeenInv(u)'
    BY DEF CallerInv, SeenInv, Watches, Watching
  <1> QED
    BY <1>3, <1>4, <1>5, <1>6 DEF CallerInv

(* The step of t that makes its call c and its connection k. *)
LEMMA StepTypes ==
    ASSUME TypeOK, NEW t \in Caller, NEW c \in CallState, NEW k \in Connection,
           call' = [call EXCEPT ![t] = c], conn' = [conn EXCEPT ![t] = k]
    PROVE  /\ call' \in [Caller -> CallState] /\ conn' \in [Caller -> Connection]
           /\ call'[t] = c /\ conn'[t] = k
           /\ \A u \in Caller : u # t => call'[u] = call[u] /\ conn'[u] = conn[u]
  BY DEF TypeOK, CallState

LEMMA StepKeeps ==
    ASSUME IInv, NEW t \in Caller, NEW c \in CallState, NEW k \in Connection,
           call' = [call EXCEPT ![t] = c], conn' = [conn EXCEPT ![t] = k],
           k.path # None => k.options \in Requests,
           build' = build, file' \in [Path -> FileState],
           backup' \in 0 .. MaxContent \cup {None},
           registry' = vfs', vfs' \subseteq Codecs \X Int,
           held' \subseteq Caller, \A u \in Caller : u # t => (u \in held' <=> u \in held),
           seen' \in [Caller -> SUBSET FileState],
           overruled' \subseteq Caller, \A u \in Caller : u # t => Overrules(u),
           FilesGoOn, \A u \in Caller : u # t => Watches(u),
           CallerInv(t)'
    PROVE  IInv'
  <1>1. /\ call' \in [Caller -> CallState] /\ conn' \in [Caller -> Connection]
        /\ call'[t] = c /\ conn'[t] = k
        /\ \A u \in Caller : u # t => call'[u] = call[u] /\ conn'[u] = conn[u]
    BY StepTypes DEF IInv
  <1>2. \A u \in Connected' : conn'[u].options \in Requests
    BY <1>1 DEF Connected, IInv, TypeOK
  <1>3. TypeOK'
    <2>1. registry' \cup vfs' \subseteq Codecs \X Int
      OBVIOUS
    <2>2. (build \subseteq {"zipvfs", "zstd", "shm"})'
      BY DEF IInv, TypeOK
    <2>3. held' \cup overruled' \subseteq Caller
      OBVIOUS
    <2> QED
      BY <1>1, <1>2, <2>1, <2>2, <2>3 DEF TypeOK, CallState
  <1>4. \A u \in Caller : CallerInv(u)'
    <2> SUFFICES ASSUME NEW u \in Caller, u # t
                 PROVE  CallerInv(u)'
      OBVIOUS
    <2> QED
      BY <1>1, OtherKept DEF IInv
  <1> QED
    BY <1>3, <1>4 DEF IInv, NamedVfsExists

(* A step of t that touches no file and no other caller's history. *)
LEMMA QuietKeeps ==
    ASSUME IInv, NEW t \in Caller, NEW c \in CallState, NEW k \in Connection,
           call' = [call EXCEPT ![t] = c], conn' = [conn EXCEPT ![t] = k],
           k.path # None => k.options \in Requests,
           build' = build, file' = file, backup' = backup,
           registry' = vfs', vfs' \subseteq Codecs \X Int,
           held' \subseteq Caller, \A u \in Caller : u # t => (u \in held' <=> u \in held),
           overruled' \subseteq Caller, overruled \ {t} \subseteq overruled',
           NEW s \in SUBSET FileState, seen' = [seen EXCEPT ![t] = s],
           CallerInv(t)'
    PROVE  IInv'
  <1>1. FilesGoOn
    BY DEF FilesGoOn
  <1>2. \A u \in Caller : u # t => seen'[u] = seen[u]
    BY DEF IInv, TypeOK
  <1>3. \A u \in Caller : u # t => Watches(u)
    BY <1>2 DEF Watches, IInv, CallerInv, SeenInv
  <1>6. \A u \in Caller : u # t => Overrules(u)
    BY DEF Overrules
  <1>4. file' \in [Path -> FileState] /\ backup' \in 0 .. MaxContent \cup {None}
    BY DEF IInv, TypeOK
  <1>5. seen' \in [Caller -> SUBSET FileState]
    BY DEF IInv, TypeOK
  <1> QED
    BY <1>1, <1>3, <1>4, <1>5, <1>6, StepKeeps

LEMMA UnchangedParts ==
    ASSUME TypeOK, NEW t \in Caller
    PROVE  /\ call[t] \in CallState /\ call = [call EXCEPT ![t] = call[t]]
           /\ conn[t] \in Connection /\ conn = [conn EXCEPT ![t] = conn[t]]
           /\ seen[t] \in SUBSET FileState /\ seen = [seen EXCEPT ![t] = seen[t]]
           /\ conn[t].path # None => conn[t].options \in Requests /\ conn[t].path \in Path
           /\ vfs \subseteq Codecs \X Int /\ overruled \subseteq Caller
  BY DEF TypeOK, CallState, Connected, Connection

(* The places a call goes to. *)
LEMMA AtFacts ==
    ASSUME NEW pc \in Steps
    PROVE  At(pc) \in CallState /\ At(pc).pc = pc
  BY LimitAssumption DEF At, CallState

LEMMA NoConnFacts ==
    NoConn \in Connection /\ NoConn.path = None /\ ~NoConn.attached /\ NoConn.formats = {}
  BY DEF NoConn, Connection, Journals

(* An error inside esdb_open leaves the caller as it was before the call. *)
LEMMA OpenFailsKeeps ==
    ASSUME IInv, NEW t \in Caller, call[t].pc \in Opening, OpenFails(t),
           build' = build, file' = file, backup' = backup, registry' = registry,
           vfs' = vfs, seen' = seen
    PROVE  IInv'
  <1>1. /\ call' = [call EXCEPT ![t] = At("idle")] /\ conn' = [conn EXCEPT ![t] = NoConn]
        /\ held' = held /\ overruled' = overruled \ {t}
    BY DEF OpenFails, Goes, Idle
  <1>2. At("idle") \in CallState /\ At("idle").pc = "idle"
    BY AtFacts DEF Steps
  <1>3. call'[t].pc = "idle" /\ conn'[t].path = None /\ t \notin Connected'
    BY <1>1, <1>2, NoConnFacts, StepTypes, ZenonT(60) DEF IInv, Connected
  <1>4. t \notin held /\ held \subseteq Caller /\ registry = vfs
    BY DEF IInv, CallerInv, PhaseInv, TypeOK, NamedVfsExists
  <1>5. CallerInv(t)'
    <2>1. PhaseInv(t)'
      BY <1>1, <1>3, <1>4 DEF PhaseInv, Opening
    <2>2. ModeInv(t)'
      BY <1>3 DEF ModeInv
    <2>3. FileInv(t)' /\ SeenInv(t)'
      BY <1>3 DEF FileInv, SeenInv, Watching
    <2> QED
      BY <2>1, <2>2, <2>3 DEF CallerInv
  <1>6. /\ seen[t] \in SUBSET FileState /\ seen = [seen EXCEPT ![t] = seen[t]]
        /\ vfs \subseteq Codecs \X Int /\ overruled' \subseteq Caller
    BY <1>1, UnchangedParts DEF IInv
  <1> QED
    BY <1>1, <1>2, <1>4, <1>5, <1>6, NoConnFacts, QuietKeeps

-----------------------------------------------------------------------------
(* esdb_open. *)

LEMMA InitHolds == Init => IInv
  <1> SUFFICES ASSUME Init
               PROVE  IInv
    OBVIOUS
  <1>1. At("idle") \in CallState /\ At("idle").pc = "idle"
    BY AtFacts DEF Steps
  <1>2. \A u \in Caller : call[u].pc = "idle" /\ conn[u].path = None
    BY <1>1, NoConnFacts DEF Init, Idle
  <1>3. Connected = {}
    BY <1>2 DEF Connected
  <1>4. TypeOK
    <2>1. [format |-> "absent", wal |-> FALSE, content |-> 0] \in FileState
      BY LimitAssumption DEF FileState
    <2>2. file \in [Path -> FileState]
      BY <2>1, Zenon DEF Init
    <2>3. seen \in [Caller -> SUBSET FileState] /\ held \cup overruled \subseteq Caller
      BY DEF Init
    <2>4. conn \in [Caller -> Connection] /\ call \in [Caller -> CallState]
      BY <1>1, NoConnFacts, Zenon DEF Init, Idle
    <2>5. registry \cup vfs \subseteq Codecs \X Int
      BY DEF Init
    <2>6. build \subseteq {"zipvfs", "zstd", "shm"}
      BY DEF Init
    <2> QED
      BY <1>3, <2>2, <2>3, <2>4, <2>5, <2>6 DEF Init, TypeOK, CallState
  <1>5. ASSUME NEW u \in Caller
        PROVE  CallerInv(u)
    BY <1>2, <1>3 DEF Init, CallerInv, PhaseInv, ModeInv, FileInv, SeenInv, Opening,
                      Watching
  <1> QED
    BY <1>4, <1>5 DEF IInv, NamedVfsExists, Init

LEMMA OpenKeeps ==
    ASSUME IInv, NEW t \in Caller, NEW path \in Path, NEW o \in Requests, Open(t, path, o)
    PROVE  IInv'
  <1>1. /\ call[t].pc = "idle" /\ t \notin held
        /\ build' = build /\ file' = file /\ backup' = backup /\ registry' = registry
        /\ vfs' = vfs /\ held' = held /\ seen' = seen /\ overruled' = overruled
    BY DEF Open
  <1>2. /\ seen[t] \in SUBSET FileState /\ seen = [seen EXCEPT ![t] = seen[t]]
        /\ vfs \subseteq Codecs \X Int /\ conn[t] \in Connection
        /\ conn = [conn EXCEPT ![t] = conn[t]]
        /\ conn[t].path # None => conn[t].options \in Requests
        /\ overruled \subseteq Caller
    BY UnchangedParts DEF IInv
  <1>3. held \subseteq Caller /\ registry = vfs
    BY DEF IInv, TypeOK, NamedVfsExists
  <1>4. CASE /\ call' = [call EXCEPT ![t] = At("idle")] /\ conn' = conn
    <2>1. At("idle") \in CallState /\ At("idle").pc = "idle"
      BY AtFacts DEF Steps
    <2>2. call'[t].pc = "idle" /\ conn'[t] = conn[t]
      BY <1>4, <2>1 DEF IInv, TypeOK
    <2>3. CallerInv(t)'
      BY <1>1, <1>4, <2>2 DEF IInv, CallerInv, PhaseInv, ModeInv, FileInv, SeenInv, Opening,
                         Watching, Connected, Granted
    <2> QED
      BY <1>1, <1>2, <1>3, <1>4, <2>1, <2>3, QuietKeeps
  <1>5. CASE /\ ValidateStorageRequest(o)
             /\ call' = [call EXCEPT ![t] = At("select")]
             /\ conn' = [conn EXCEPT ![t] = [NoConn EXCEPT !.path = path, !.options = o]]
    <2>1. At("select") \in CallState /\ At("select").pc = "select"
      BY AtFacts DEF Steps
    <2>2. PICK k : k = [NoConn EXCEPT !.path = path, !.options = o]
      OBVIOUS
    <2>3. /\ k \in Connection /\ k.path = path /\ k.options = o /\ ~k.attached
          /\ k.formats = {}
      BY <2>2 DEF NoConn, Connection, Journals
    <2>4. call'[t].pc = "select" /\ conn'[t] = k
      BY <1>5, <2>1, <2>2, <2>3, StepTypes, ZenonT(60) DEF IInv
    <2>5. path # None
      BY NoneAssumption
    <2>6. CallerInv(t)'
      <3>1. (t \in Connected)'
        BY <2>3, <2>4, <2>5 DEF Connected
      <3>2. PhaseInv(t)'
        BY <3>1, <2>4, <1>1 DEF PhaseInv, Opening
      <3>3. ModeInv(t)'
        BY <2>3, <2>4, <1>1 DEF ModeInv
      <3>4. Compressed(o) => o.codec \in {"deflate", "zstd"}
        BY <1>5 DEF ValidateStorageRequest, Compressed
      <3>5. FileInv(t)'
        BY <3>4, <2>3, <2>4 DEF FileInv, Compressed
      <3>6. SeenInv(t)'
        BY <2>4 DEF SeenInv, Watching
      <3> QED
        BY <3>2, <3>3, <3>5, <3>6 DEF CallerInv
    <2> QED
      BY <1>1, <1>2, <1>3, <1>5, <2>1, <2>2, <2>3, <2>6, QuietKeeps
  <1> QED
    BY <1>4, <1>5 DEF Open, Goes, Idle

(* A step of esdb_open that goes on with the connection it has. *)
LEMMA OpenGoesOn ==
    ASSUME IInv, NEW t \in Caller, call[t].pc \in Opening,
           NEW pc \in Opening, call' = [call EXCEPT ![t] = At(pc)],
           conn' = conn, held' = held, overruled' = overruled, build' = build, file' = file, backup' = backup,
           seen' = seen, registry' = vfs', vfs' \subseteq Codecs \X Int,
           pc = "open" => call[t].pc = "select",
           pc = "settings" =>
               /\ call[t].pc \in {"journal", "readback"}
               /\ conn[t].options.journal # "unchanged" =>
                    call[t].pc = "readback" /\ conn[t].mode = conn[t].options.journal,
           pc \in {"open", "settings"}
    PROVE  IInv'
  <1>1. At(pc) \in CallState /\ At(pc).pc = pc
    BY AtFacts DEF Opening, Steps
  <1>2. call'[t].pc = pc /\ conn'[t] = conn[t]
    BY <1>1 DEF IInv, TypeOK
  <1>3. /\ seen[t] \in SUBSET FileState /\ seen = [seen EXCEPT ![t] = seen[t]]
        /\ conn[t] \in Connection /\ conn = [conn EXCEPT ![t] = conn[t]]
        /\ conn[t].path # None => conn[t].options \in Requests
    BY UnchangedParts DEF IInv
  <1>4. held \subseteq Caller /\ overruled \subseteq Caller
    BY DEF IInv, TypeOK
  <1>5. CallerInv(t)
    BY DEF IInv
  <1>6. t \notin held /\ t \in Connected
    BY <1>5 DEF CallerInv, PhaseInv
  <1>7. CallerInv(t)'
    <2>1. (t \in Connected)'
      BY <1>2, <1>6 DEF Connected
    <2>2. PhaseInv(t)'
      BY <1>2, <1>6, <2>1 DEF PhaseInv, Opening
    <2>3. ModeInv(t)'
      BY <1>2, <1>5, <1>6 DEF CallerInv, ModeInv, Granted, Connected
    <2>4. FileInv(t)'
      BY <1>2, <1>5, <1>6 DEF CallerInv, FileInv, Compressed, FormatOf
    <2>5. SeenInv(t)'
      BY <1>2 DEF SeenInv, Watching
    <2> QED
      BY <2>2, <2>3, <2>4, <2>5 DEF CallerInv
  <1> QED
    BY <1>1, <1>3, <1>4, <1>7, QuietKeeps

(* ensure_zipvfs keeps its registry and SQLite's file systems in step. *)
LEMMA SelectVfsKeeps ==
    ASSUME IInv, NEW t \in Caller, SelectVfs(t)
    PROVE  IInv'
  <1>1. /\ call[t].pc = "select" /\ build' = build /\ file' = file /\ backup' = backup
        /\ seen' = seen
    BY DEF SelectVfs
  <1>2. registry = vfs /\ vfs \subseteq Codecs \X Int /\ call[t].pc \in Opening
    BY <1>1 DEF IInv, NamedVfsExists, TypeOK, Opening
  <1>3. PICK o : o = conn[t].options
    OBVIOUS
  <1>4. Key(o) \in Codecs \X Int
    <2>1. t \in Connected
      BY <1>2 DEF IInv, CallerInv, PhaseInv
    <2>2. o \in Options
      BY <1>3, <2>1, RequestAssumption DEF IInv, TypeOK
    <2>3. o.codec \in Codecs /\ o.level \in Int
      BY <2>2 DEF Options
    <2>4. NormalizeLevel(o.codec, o.level) \in Int
      BY <2>3, LevelAssumption DEF NormalizeLevel
    <2> QED
      BY <2>3, <2>4 DEF Key
  <1>5. CASE OpenFails(t) /\ registry' = registry /\ vfs' = vfs
    BY <1>1, <1>2, <1>5, OpenFailsKeeps
  <1>6. CASE /\ Goes(t, At("open")) /\ conn' = conn /\ held' = held /\ overruled' = overruled
             /\ registry' = registry /\ vfs' = vfs
    BY <1>1, <1>2, <1>6, OpenGoesOn DEF Goes, Opening
  <1>7. CASE /\ Goes(t, At("open")) /\ conn' = conn /\ held' = held /\ overruled' = overruled
             /\ registry' = registry \cup {Key(o)} /\ vfs' = vfs \cup {Key(o)}
    <2>1. registry' = vfs' /\ vfs' \subseteq Codecs \X Int
      BY <1>2, <1>4, <1>7
    <2> QED
      BY <1>1, <1>2, <1>7, <2>1, OpenGoesOn DEF Goes, Opening
  <1> QED
    BY <1>3, <1>5, <1>6, <1>7 DEF SelectVfs, EnsureZipvfs

(* What the file becomes when sqlite3_open_v2 creates it. *)
LEMMA OpenFileFacts ==
    ASSUME TypeOK, NEW p \in Path,
           file' = [file EXCEPT ![p].format = IF @ = "absent" THEN "empty" ELSE @]
    PROVE  /\ file' \in [Path -> FileState]
           /\ file'[p].format # "absent"
           /\ file[p].format # "absent" => file'[p] = file[p]
           /\ \A q \in Path : q # p => file'[q] = file[q]
           /\ \A q \in Path : file'[q].wal = file[q].wal
  <1>1. file \in [Path -> FileState] /\ file[p] \in FileState
    BY DEF TypeOK
  <1>2. PICK f : f = [file[p] EXCEPT !.format = IF @ = "absent" THEN "empty" ELSE @]
    OBVIOUS
  <1>3. /\ f \in FileState /\ f.format # "absent"
        /\ file[p].format # "absent" => f = file[p]
        /\ f.wal = file[p].wal
    BY <1>1, <1>2 DEF FileState
  <1>4. file'[p] = f /\ \A q \in Path : q # p => file'[q] = file[q]
    BY <1>1, <1>2
  <1>5. file' = [file EXCEPT ![p] = f]
    BY <1>1, <1>2
  <1> QED
    BY <1>1, <1>3, <1>4, <1>5

LEMMA OpenFileKeeps ==
    ASSUME IInv, NEW t \in Caller, OpenFile(t)
    PROVE  IInv'
  <1>1. /\ call[t].pc = "open" /\ build' = build /\ backup' = backup /\ registry' = registry
        /\ vfs' = vfs /\ seen' = seen
    BY DEF OpenFile
  <1>2. registry = vfs /\ vfs \subseteq Codecs \X Int /\ call[t].pc \in Opening
        /\ held \cup overruled \subseteq Caller /\ seen \in [Caller -> SUBSET FileState]
        /\ backup \in 0 .. MaxContent \cup {None}
    BY <1>1 DEF IInv, NamedVfsExists, TypeOK, Opening
  <1>3. CASE OpenFails(t) /\ file' = file
    BY <1>1, <1>2, <1>3, OpenFailsKeeps
  <1>4. PICK p : p = conn[t].path
    OBVIOUS
  <1>5. CASE /\ Goes(t, At("verify")) /\ conn' = conn /\ held' = held
             /\ overruled' = overruled
             /\ file' = [file EXCEPT ![p].format = IF @ = "absent" THEN "empty" ELSE @]
    <2>1. CallerInv(t) /\ t \notin held /\ t \in Connected
      BY <1>2 DEF IInv, CallerInv, PhaseInv
    <2>2. p \in Path
      BY <1>4, <2>1 DEF IInv, TypeOK, Connection, Connected
    <2>3. /\ file' \in [Path -> FileState]
          /\ file'[p].format # "absent"
          /\ file[p].format # "absent" => file'[p] = file[p]
          /\ \A q \in Path : q # p => file'[q] = file[q]
          /\ \A q \in Path : file'[q].wal = file[q].wal
      BY <1>5, <2>2, OpenFileFacts DEF IInv
    <2>4. FilesGoOn
      BY <2>3 DEF FilesGoOn
    <2>5. ASSUME NEW u \in Caller, u # t
          PROVE  Watches(u)
      <3>1. CallerInv(u)
        BY DEF IInv
      <3>2. ASSUME call[u].pc \in Watching
            PROVE  file'[conn[u].path] \in seen'[u]
        <4>1. u \in Connected /\ conn[u].path \in Path
          BY <3>1, <3>2 DEF CallerInv, PhaseInv, Watching, Connected, IInv, TypeOK, Connection
        <4>2. file[conn[u].path].format # "absent"
          BY <3>1, <3>2, <4>1 DEF CallerInv, FileInv, Watching
        <4>3. file'[conn[u].path] = file[conn[u].path]
          BY <4>1, <4>2, <2>3
        <4> QED
          BY <4>3, <3>1, <3>2, <1>1 DEF CallerInv, SeenInv
      <3> QED
        BY <3>2, <1>1 DEF Watches
    <2>6. At("verify") \in CallState /\ At("verify").pc = "verify"
      BY AtFacts DEF Steps
    <2>7. call'[t].pc = "verify" /\ conn'[t] = conn[t]
      BY <1>5, <2>6 DEF Goes, IInv, TypeOK
    <2>8. /\ conn[t] \in Connection /\ conn = [conn EXCEPT ![t] = conn[t]]
          /\ conn[t].path # None => conn[t].options \in Requests
      BY UnchangedParts DEF IInv
    <2>9. CallerInv(t)'
      <3>1. PhaseInv(t)'
        BY <1>5, <2>1, <2>7 DEF PhaseInv, Opening, Connected
      <3>2. ModeInv(t)'
        <4>1. file'[p].wal = file[p].wal
          BY <2>2, <2>3
        <4> QED
          BY <1>1, <1>4, <1>5, <2>1, <2>7, <4>1 DEF CallerInv, ModeInv, Connected
      <3>3. (t \in Connected)' <=> t \in Connected
        BY <2>7 DEF Connected
      <3>4. file[p].format \in {"plain", "deflate", "zstd"} => file'[p].format = file[p].format
        BY <2>2, <2>4 DEF FilesGoOn
      <3>5. FileInv(t)'
        BY <1>4, <2>1, <2>3, <2>7, <3>3, <3>4 DEF CallerInv, FileInv, Compressed, FormatOf
      <3>6. SeenInv(t)'
        BY <2>7 DEF SeenInv, Watching
      <3> QED
        BY <3>1, <3>2, <3>5, <3>6 DEF CallerInv
    <2>10. ASSUME NEW u \in Caller
           PROVE  Overrules(u)
      <3>1. u \in Connected => conn[u].path \in Path
        BY DEF IInv, TypeOK, Connection, Connected
      <3> QED
        BY <1>5, <2>3, <3>1 DEF Overrules
    <2>11. held' \subseteq Caller /\ overruled' \subseteq Caller
      BY <1>2, <1>5
    <2> QED
      BY <1>1, <1>2, <1>5, <2>3, <2>4, <2>5, <2>6, <2>8, <2>9, <2>10, <2>11, StepKeeps
         DEF Goes
  <1> QED
    BY <1>3, <1>4, <1>5 DEF OpenFile

(* storage_verify_open: what zipvfs_autodetect has accepted is the codec,  *)
(* or a file without a header.                                             *)
LEMMA VerifyOpenKeeps ==
    ASSUME IInv, NEW t \in Caller, VerifyOpen(t)
    PROVE  IInv'
  <1>1. /\ call[t].pc = "verify" /\ build' = build /\ file' = file /\ backup' = backup
        /\ registry' = registry /\ vfs' = vfs /\ seen' = seen
    BY DEF VerifyOpen
  <1>2. registry = vfs /\ vfs \subseteq Codecs \X Int /\ call[t].pc \in Opening
        /\ held \subseteq Caller /\ overruled \subseteq Caller
    BY <1>1 DEF IInv, NamedVfsExists, TypeOK, Opening
  <1>3. CASE OpenFails(t)
    BY <1>1, <1>2, <1>3, OpenFailsKeeps
  <1>4. PICK v : v = IF Compressed(conn[t].options)
                     THEN {file[conn[t].path].format} \ {"empty"} ELSE {}
    OBVIOUS
  <1>5. CASE /\ Compressed(conn[t].options)
                => Autodetect(file[conn[t].path].format, conn[t].options.codec)
             /\ conn' = [conn EXCEPT ![t].formats = v]
             /\ Goes(t, At("journal")) /\ held' = held /\ overruled' = overruled
    <2>1. CallerInv(t) /\ t \notin held /\ t \in Connected
      BY <1>2 DEF IInv, CallerInv, PhaseInv
    <2>2. PICK k : k = [conn[t] EXCEPT !.formats = v]
      OBVIOUS
    <2>3. /\ conn[t] \in Connection
          /\ conn[t].path # None => conn[t].options \in Requests
          /\ seen[t] \in SUBSET FileState /\ seen = [seen EXCEPT ![t] = seen[t]]
      BY UnchangedParts DEF IInv
    <2>4. /\ v \in SUBSET {"plain", "deflate", "zstd"}
          /\ v \subseteq {FormatOf(conn[t].options)}
          /\ v # {} => file[conn[t].path].format = FormatOf(conn[t].options)
      <3>1. CASE Compressed(conn[t].options)
        <4>1. FormatOf(conn[t].options) = conn[t].options.codec
          BY <3>1 DEF FormatOf
        <4>2. FormatOf(conn[t].options) \in {"deflate", "zstd"}
          BY <2>1, <3>1, <4>1 DEF CallerInv, FileInv
        <4>3. file[conn[t].path].format \in {"empty", FormatOf(conn[t].options)}
          BY <1>5, <3>1, <4>1 DEF Autodetect
        <4> QED
          BY <1>4, <3>1, <4>2, <4>3
      <3>2. CASE ~Compressed(conn[t].options)
        BY <1>4, <3>2
      <3> QED
        BY <3>1, <3>2
    <2>5. /\ k \in Connection /\ k.path = conn[t].path /\ k.options = conn[t].options
          /\ k.attached = conn[t].attached /\ k.formats = v
      BY <2>2, <2>3, <2>4 DEF Connection
    <2>6. conn' = [conn EXCEPT ![t] = k]
      BY <1>5, <2>2
    <2>7. At("journal") \in CallState /\ At("journal").pc = "journal"
      BY AtFacts DEF Steps
    <2>8. call'[t].pc = "journal" /\ conn'[t] = k
      BY <1>5, <2>5, <2>6, <2>7, StepTypes DEF Goes, IInv
    <2>9. CallerInv(t)'
      <3>1. PhaseInv(t)'
        BY <1>5, <2>1, <2>5, <2>8 DEF PhaseInv, Opening, Connected
      <3>2. ModeInv(t)'
        BY <1>1, <1>5, <2>1, <2>5, <2>8 DEF CallerInv, ModeInv, Connected
      <3>4. FileInv(t)'
        BY <1>1, <2>1, <2>4, <2>5, <2>8 DEF CallerInv, FileInv, Compressed, FormatOf
      <3>5. SeenInv(t)'
        BY <2>8 DEF SeenInv, Watching
      <3> QED
        BY <3>1, <3>2, <3>4, <3>5 DEF CallerInv
    <2> QED
      BY <1>1, <1>2, <1>5, <2>3, <2>5, <2>6, <2>7, <2>9, QuietKeeps DEF Goes
  <1> QED
    BY <1>3, <1>4, <1>5 DEF VerifyOpen

(* A write to a file, seen by every call that watches it. *)
LEMMA WriteFacts ==
    ASSUME IInv, NEW p \in Path, NEW f \in FileState, file' = [file EXCEPT ![p] = f],
           file[p].format # "absent" => f.format # "absent",
           file[p].format \in {"plain", "deflate", "zstd"} => f.format = file[p].format,
           seen' = Watched(file')
    PROVE  /\ file' \in [Path -> FileState] /\ seen' \in [Caller -> SUBSET FileState]
           /\ file'[p] = f /\ FilesGoOn /\ \A u \in Caller : Watches(u)
  <1>1. file \in [Path -> FileState] /\ seen \in [Caller -> SUBSET FileState]
    BY DEF IInv, TypeOK
  <1>2. /\ file' \in [Path -> FileState] /\ file'[p] = f
        /\ \A q \in Path : q # p => file'[q] = file[q]
    BY <1>1
  <1>3. FilesGoOn
    BY <1>2 DEF FilesGoOn
  <1>4. ASSUME NEW u \in Caller
        PROVE  /\ seen'[u] \in SUBSET FileState
               /\ Watches(u)
    <2>1. seen'[u] = IF call[u].pc \in {"health", "backup"}
                     THEN seen[u] \cup {file'[conn[u].path]} ELSE seen[u]
      BY DEF Watched
    <2>2. seen[u] \in SUBSET FileState
      BY <1>1
    <2>3. call[u].pc \in {"health", "backup"} => conn[u].path \in Path
      BY DEF IInv, TypeOK, CallerInv, PhaseInv, Connected, Connection
    <2> QED
      BY <1>2, <2>1, <2>2, <2>3, ZenonT(60) DEF Watches, Watching
  <1>5. seen' \in [Caller -> SUBSET FileState]
    <2>1. PICK s : s = [u \in Caller |-> IF call[u].pc \in {"health", "backup"}
                           THEN seen[u] \cup {file'[conn[u].path]} ELSE seen[u]]
      OBVIOUS
    <2>2. seen' = s
      BY <2>1 DEF Watched
    <2>3. \A u \in Caller : s[u] \in SUBSET FileState
      BY <1>4, <2>2
    <2>4. s = [u \in Caller |-> s[u]]
      BY <2>1
    <2> QED
      BY <2>2, <2>3, <2>4
  <1> QED
    BY <1>2, <1>3, <1>4, <1>5

(* What a connection is after a read. *)
LEMMA AfterReadFacts ==
    ASSUME NEW c \in Connection, NEW f \in FileState, f.format # "absent"
    PROVE  LET k == AfterRead(c, f) IN
           /\ k \in Connection
           /\ k.path = c.path /\ k.options = c.options
           /\ k.attached = f.wal /\ (f.wal <=> k.mode = "wal")
           /\ (f.wal <=> c.mode = "wal") => k.mode = c.mode
           /\ k.formats = c.formats \cup ({f.format} \ {"empty"})
  <1>1. PICK m : m = IF f.wal THEN "wal" ELSE IF c.mode = "wal" THEN "delete" ELSE c.mode
    OBVIOUS
  <1>2. m \in Journals /\ (f.wal <=> m = "wal") /\ ((f.wal <=> c.mode = "wal") => m = c.mode)
    BY <1>1 DEF Connection, Journals
  <1>3. f.wal \in BOOLEAN /\ f.format \in {"empty", "plain", "deflate", "zstd"}
    BY DEF FileState
  <1>4. PICK g : g = c.formats \cup ({f.format} \ {"empty"})
    OBVIOUS
  <1>5. g \in SUBSET {"plain", "deflate", "zstd"}
    BY <1>3, <1>4 DEF Connection
  <1>6. AfterRead(c, f) = [c EXCEPT !.attached = f.wal, !.mode = m, !.formats = g]
    BY <1>1, <1>4 DEF AfterRead
  <1> QED
    BY <1>2, <1>3, <1>4, <1>5, <1>6 DEF Connection

(* A read or a write by a connection that can read its file. *)
LEMMA ReadFacts ==
    ASSUME IInv, NEW t \in Caller, t \in Connected, Readable(t),
           NEW f \in FileState, f.wal = file[conn[t].path].wal,
           f.format \in {file[conn[t].path].format, FormatOf(conn[t].options)}
    PROVE  LET k == AfterRead(conn[t], f) IN
           /\ k \in Connection
           /\ k.path = conn[t].path /\ k.options = conn[t].options
           /\ k.attached = f.wal /\ (f.wal <=> k.mode = "wal")
           /\ (f.wal <=> conn[t].mode = "wal") => k.mode = conn[t].mode
           /\ k.formats \subseteq {FormatOf(conn[t].options)}
           /\ k.formats # {} => f.format = FormatOf(conn[t].options)
           /\ f.format \in {"empty", FormatOf(conn[t].options)}
           /\ FormatOf(conn[t].options) \in {"plain", "deflate", "zstd"}
  <1>1. conn[t] \in Connection
    BY UnchangedParts DEF IInv
  <1>2. FormatOf(conn[t].options) \in {"plain", "deflate", "zstd"}
    BY DEF IInv, CallerInv, FileInv, FormatOf
  <1>3. file[conn[t].path].format \in {"empty", FormatOf(conn[t].options)}
    BY DEF Readable
  <1>4. f.format \in {"empty", FormatOf(conn[t].options)} /\ f.format # "absent"
    BY <1>2, <1>3
  <1>5. /\ conn[t].formats \subseteq {FormatOf(conn[t].options)}
        /\ conn[t].formats # {} => file[conn[t].path].format = FormatOf(conn[t].options)
    BY DEF IInv, CallerInv, FileInv
  <1>6. PICK k : k = AfterRead(conn[t], f)
    OBVIOUS
  <1>7. /\ k \in Connection /\ k.path = conn[t].path /\ k.options = conn[t].options
        /\ k.attached = f.wal /\ (f.wal <=> k.mode = "wal")
        /\ (f.wal <=> conn[t].mode = "wal") => k.mode = conn[t].mode
        /\ k.formats = conn[t].formats \cup ({f.format} \ {"empty"})
    BY <1>1, <1>4, <1>6, AfterReadFacts
  <1>8. k.formats \subseteq {FormatOf(conn[t].options)}
    BY <1>4, <1>5, <1>7
  <1>9. k.formats # {} => f.format = FormatOf(conn[t].options)
    BY <1>2, <1>4, <1>5, <1>7
  <1> QED
    BY <1>2, <1>4, <1>6, <1>7, <1>8, <1>9

(* The pragma of the journal mode, when it is granted. *)
LEMMA JournalWritten ==
    ASSUME IInv, NEW t \in Caller, call[t].pc = "journal", Readable(t),
           NEW wal \in BOOLEAN, wal <=> conn[t].options.journal = "wal",
           NEW format, format \in {file[conn[t].path].format, FormatOf(conn[t].options)},
           file' = [file EXCEPT ![conn[t].path].wal = wal, ![conn[t].path].format = format],
           file[conn[t].path].wal /\ ~wal => Alone(t),
           NEW k \in Connection, conn' = [conn EXCEPT ![t] = k],
           k.path = conn[t].path, k.options = conn[t].options, k.attached => wal,
           k.formats \subseteq {FormatOf(conn[t].options)},
           k.formats # {} => format = FormatOf(conn[t].options),
           overruled' = Overruled(t, wal),
           seen' = Watched(file'), Goes(t, At("readback")), held' = held,
           build' = build, backup' = backup, registry' = registry, vfs' = vfs
    PROVE  IInv'
  <1>1. registry = vfs /\ vfs \subseteq Codecs \X Int /\ call[t].pc \in Opening
        /\ held \subseteq Caller /\ backup \in 0 .. MaxContent \cup {None}
        /\ file \in [Path -> FileState] /\ overruled \subseteq Caller
    BY SMTT(60) DEF IInv, NamedVfsExists, TypeOK, Opening
  <1>2. CallerInv(t) /\ t \notin held /\ t \in Connected
    BY <1>1 DEF IInv, CallerInv, PhaseInv
  <1>3. PICK p : p = conn[t].path
    OBVIOUS
  <1>4. p \in Path /\ conn[t] \in Connection /\ conn[t].options \in Requests
    BY <1>2, <1>3, UnchangedParts DEF IInv, Connected
  <1>5. PICK f : f = [file[p] EXCEPT !.wal = wal, !.format = format]
    OBVIOUS
  <1>6. file[p] \in FileState /\ file[p].format \in {"empty", FormatOf(conn[t].options)}
    BY <1>1, <1>3, <1>4, SMTT(60) DEF Readable
  <1>7. FormatOf(conn[t].options) \in {"plain", "deflate", "zstd"}
    BY <1>2 DEF CallerInv, FileInv, FormatOf
  <1>8. format \in {"empty", "plain", "deflate", "zstd"}
    BY <1>3, <1>6, <1>7
  <1>9. f \in FileState /\ f.format = format /\ f.wal = wal
    BY <1>5, <1>6, <1>8 DEF FileState
  <1>10. file' = [file EXCEPT ![p] = f]
    BY <1>1, <1>3, <1>4, <1>5
  <1>11. file[p].format \in {"plain", "deflate", "zstd"} => f.format = file[p].format
    BY <1>3, <1>6, <1>9
  <1>12. /\ file' \in [Path -> FileState] /\ seen' \in [Caller -> SUBSET FileState]
         /\ file'[p] = f /\ FilesGoOn /\ \A u \in Caller : Watches(u)
    BY <1>4, <1>8, <1>9, <1>10, <1>11, WriteFacts
  <1>13. At("readback") \in CallState /\ At("readback").pc = "readback"
    BY AtFacts DEF Steps
  <1>14. call'[t].pc = "readback" /\ conn'[t] = k
    BY <1>13, StepTypes DEF Goes, IInv
  <1>15. overruled' \subseteq Caller
    BY <1>1 DEF Overruled, Connected
  <1>16. ASSUME NEW u \in Caller, u # t
         PROVE  Overrules(u)
    <2>1. u \in overruled => u \in overruled'
      BY <1>16 DEF Overruled
    <2>2. ASSUME u \in Connected, ~(file'[conn[u].path].wal <=> file[conn[u].path].wal)
          PROVE  u \in overruled' /\ (conn[u].attached => file'[conn[u].path].wal)
      <3>1. conn[u].path = p
        <4>1. conn[u].path \in Path
          BY <2>2 DEF IInv, TypeOK, Connection, Connected
        <4> QED
          BY <1>1, <1>4, <1>10, <2>2, <4>1
      <3>2. file'[conn[u].path].wal = wal /\ ~(file[p].wal <=> wal)
        BY <1>9, <1>12, <2>2, <3>1
      <3>3. u \in overruled'
        BY <1>3, <1>16, <2>2, <3>1, <3>2 DEF Overruled
      <3>4. ~wal => ~conn[u].attached
        <4>1. file[p].wal \in BOOLEAN
          BY <1>6 DEF FileState
        <4> QED
          BY <4>1, <1>3, <1>16, <2>2, <3>1, <3>2 DEF Alone
      <3> QED
        BY <3>2, <3>3, <3>4
    <2> QED
      BY <2>1, <2>2 DEF Overrules
  <1>17. CallerInv(t)'
    <2>1. PhaseInv(t)'
      BY <1>2, <1>3, <1>14 DEF PhaseInv, Opening, Connected
    <2>2. ModeInv(t)'
      BY <1>2, <1>3, <1>9, <1>12, <1>14 DEF ModeInv, Granted
    <2>3. Compressed(k.options) => k.options.codec \in {"deflate", "zstd"}
      BY <1>2 DEF CallerInv, FileInv
    <2>4. FileInv(t)'
      BY <1>3, <1>8, <1>9, <1>12, <1>14, <2>3 DEF FileInv, Compressed, FormatOf
    <2>5. SeenInv(t)'
      BY <1>14 DEF SeenInv, Watching
    <2> QED
      BY <2>1, <2>2, <2>4, <2>5 DEF CallerInv
  <1> QED
    BY <1>1, <1>4, <1>12, <1>13, <1>15, <1>16, <1>17, StepKeeps DEF Goes

LEMMA SetJournalKeeps ==
    ASSUME IInv, NEW t \in Caller, SetJournal(t)
    PROVE  IInv'
  <1>1. /\ call[t].pc = "journal" /\ build' = build /\ backup' = backup
        /\ registry' = registry /\ vfs' = vfs
    BY DEF SetJournal
  <1>2. registry = vfs /\ vfs \subseteq Codecs \X Int /\ call[t].pc \in Opening
        /\ held \subseteq Caller /\ overruled \subseteq Caller
        /\ file \in [Path -> FileState]
    BY <1>1 DEF IInv, NamedVfsExists, TypeOK, Opening
  <1>3. CallerInv(t) /\ t \notin held /\ t \in Connected
    BY <1>2 DEF IInv, CallerInv, PhaseInv
  <1>4. PICK p : p = conn[t].path
    OBVIOUS
  <1>5. p \in Path /\ file[p] \in FileState
    BY <1>2, <1>3, <1>4, UnchangedParts DEF IInv, Connected
  <1>6. CASE /\ conn[t].options.journal = "unchanged" /\ Goes(t, At("settings"))
             /\ file' = file /\ conn' = conn /\ held' = held /\ seen' = seen
             /\ overruled' = overruled
    BY <1>1, <1>2, <1>6, OpenGoesOn DEF Goes, Opening
  <1>7. CASE OpenFails(t) /\ file' = file /\ seen' = seen
    BY <1>1, <1>2, <1>7, OpenFailsKeeps
  <1>8. PICK r : r = AfterRead(conn[t], file[conn[t].path])
    OBVIOUS
  <1>9. ASSUME Readable(t)
        PROVE  /\ r \in Connection /\ r.path = conn[t].path /\ r.options = conn[t].options
               /\ r.attached = file[p].wal /\ (file[p].wal <=> r.mode = "wal")
               /\ r.formats \subseteq {FormatOf(conn[t].options)}
               /\ r.formats # {} => file[p].format = FormatOf(conn[t].options)
               /\ FormatOf(conn[t].options) \in {"plain", "deflate", "zstd"}
    BY <1>3, <1>4, <1>5, <1>8, <1>9, ReadFacts
  <1>10. CASE /\ conn[t].options.journal = "wal" /\ Readable(t)
              /\ file' = [file EXCEPT ![conn[t].path].wal = TRUE,
                                      ![conn[t].path].format = FormatOf(conn[t].options)]
              /\ conn' = [conn EXCEPT ![t] =
                     [r EXCEPT !.mode = "wal",
                               !.formats = @ \cup {FormatOf(conn[t].options)}]]
              /\ seen' = Watched(file') /\ overruled' = Overruled(t, TRUE)
              /\ Goes(t, At("readback")) /\ held' = held
    <2>1. "wal" \in Journals /\ TRUE \in BOOLEAN
      BY DEF Journals
    <2>2. PICK g : g = r.formats \cup {FormatOf(conn[t].options)}
      OBVIOUS
    <2>3. g \in SUBSET {"plain", "deflate", "zstd"} /\ g = {FormatOf(conn[t].options)}
      BY <1>9, <1>10, <2>2
    <2>4. PICK k : k = [r EXCEPT !.mode = "wal", !.formats = g]
      OBVIOUS
    <2>5. /\ k \in Connection /\ k.path = conn[t].path /\ k.options = conn[t].options
          /\ k.formats = g
      BY <1>9, <1>10, <2>1, <2>3, <2>4 DEF Connection
    <2>6. conn' = [conn EXCEPT ![t] = k]
      BY <1>10, <2>2, <2>4
    <2> QED
      BY <1>1, <1>10, <2>1, <2>3, <2>5, <2>6, JournalWritten
  <1>11. CASE /\ conn[t].options.journal \in {"delete", "truncate", "persist"} /\ Readable(t)
              /\ file[conn[t].path].wal => Alone(t)
              /\ file' = [file EXCEPT ![conn[t].path].wal = FALSE]
              /\ conn' = [conn EXCEPT ![t] =
                     [r EXCEPT !.mode = conn[t].options.journal, !.attached = FALSE]]
              /\ seen' = Watched(file') /\ overruled' = Overruled(t, FALSE)
              /\ Goes(t, At("readback")) /\ held' = held
    <2>1. conn[t].options.journal \in Journals /\ FALSE \in BOOLEAN
          /\ conn[t].options.journal # "wal"
      BY <1>11 DEF Journals
    <2>2. PICK g : g = file[p].format
      OBVIOUS
    <2>3. file' = [file EXCEPT ![p].wal = FALSE, ![p].format = g]
      <3>1. [file[p] EXCEPT !.wal = FALSE] = [file[p] EXCEPT !.wal = FALSE, !.format = g]
        BY <1>5, <2>2 DEF FileState
      <3>2. file' = [file EXCEPT ![p] = [file[p] EXCEPT !.wal = FALSE]]
        BY <1>4, <1>11
      <3> QED
        BY <3>1, <3>2
    <2>4. PICK k : k = [r EXCEPT !.mode = conn[t].options.journal, !.attached = FALSE]
      OBVIOUS
    <2>5. /\ k \in Connection /\ k.path = conn[t].path /\ k.options = conn[t].options
          /\ ~k.attached /\ k.formats = r.formats
      BY <1>9, <1>11, <2>1, <2>4 DEF Connection
    <2>6. conn' = [conn EXCEPT ![t] = k]
      BY <1>11, <2>4
    <2>7. /\ k.formats \subseteq {FormatOf(conn[t].options)}
          /\ k.formats # {} => g = FormatOf(conn[t].options)
      BY <1>9, <1>11, <2>2, <2>5
    <2> QED
      BY <1>1, <1>4, <1>11, <2>1, <2>2, <2>3, <2>5, <2>6, <2>7, JournalWritten
  <1>12. CASE /\ conn[t].options.journal = "wal" /\ Readable(t) /\ "shm" \notin build
              /\ conn' = [conn EXCEPT ![t] = r] /\ Goes(t, At("readback"))
              /\ file' = file /\ seen' = seen /\ held' = held /\ overruled' = overruled
    <2>1. At("readback") \in CallState /\ At("readback").pc = "readback"
      BY AtFacts DEF Steps
    <2>2. call'[t].pc = "readback" /\ conn'[t] = r
      BY <1>9, <1>12, <2>1, StepTypes DEF Goes, IInv
    <2>3. r.mode # "wal" /\ ~file[p].wal /\ ~r.attached
      BY <1>4, <1>5, <1>9, <1>12 DEF Readable, FileState
    <2>4. PhaseInv(t)'
      BY <1>3, <1>9, <1>12, <2>2 DEF PhaseInv, Opening, Connected
    <2>5. ModeInv(t)'
      BY <1>3, <1>9, <1>12, <2>2, <2>3 DEF ModeInv
    <2>6. FileInv(t)'
      BY <1>1, <1>3, <1>4, <1>9, <1>12, <2>2 DEF CallerInv, FileInv, Compressed, FormatOf
    <2>7. SeenInv(t)'
      BY <2>2 DEF SeenInv, Watching
    <2>8. CallerInv(t)'
      BY <2>4, <2>5, <2>6, <2>7 DEF CallerInv
    <2>9. /\ conn[t].path # None => conn[t].options \in Requests
          /\ seen[t] \in SUBSET FileState /\ seen = [seen EXCEPT ![t] = seen[t]]
      BY UnchangedParts DEF IInv
    <2> QED
      BY <1>1, <1>2, <1>9, <1>12, <2>1, <2>8, <2>9, QuietKeeps DEF Goes
  <1> QED
    BY <1>6, <1>7, <1>8, <1>10, <1>11, <1>12 DEF SetJournal

LEMMA ReadJournalKeeps ==
    ASSUME IInv, NEW t \in Caller, ReadJournal(t)
    PROVE  IInv'
  <1>1. /\ call[t].pc = "readback" /\ build' = build /\ file' = file /\ backup' = backup
        /\ registry' = registry /\ vfs' = vfs /\ seen' = seen
    BY DEF ReadJournal
  <1>2. registry = vfs /\ vfs \subseteq Codecs \X Int /\ call[t].pc \in Opening
    BY <1>1 DEF IInv, NamedVfsExists, TypeOK, Opening
  <1>3. CASE OpenFails(t)
    BY <1>1, <1>2, <1>3, OpenFailsKeeps
  <1>4. CASE /\ conn[t].mode = conn[t].options.journal
             /\ Goes(t, At("settings")) /\ conn' = conn /\ held' = held
             /\ overruled' = overruled
    BY <1>1, <1>2, <1>4, OpenGoesOn DEF Goes, Opening
  <1> QED
    BY <1>3, <1>4 DEF ReadJournal

-----------------------------------------------------------------------------
(* The last step of esdb_open, and the calls on an open database. *)

(* What a call on an open database may make of its connection. *)
Reads(c, k, f) ==
    /\ k.path = c.path /\ k.options = c.options
    /\ k.attached => f.wal
    /\ (f.wal <=> c.mode = "wal") => k.mode = c.mode
    /\ k.formats \subseteq {FormatOf(c.options)}
    /\ k.formats # {} => f.format = FormatOf(c.options)

LEMMA ReadsSelf ==
    ASSUME IInv, NEW t \in Caller, t \in Connected
    PROVE  Reads(conn[t], conn[t], file[conn[t].path])
  BY DEF IInv, CallerInv, ModeInv, FileInv, Reads

(* A caller that has a database after the step, on the file it had before. *)
LEMMA HeldCaller ==
    ASSUME IInv, NEW t \in Caller, t \in Connected, call[t].pc \notin {"select", "open"},
           t \in held \/ call[t].pc = "settings", overruled' = overruled,
           build' = build, FilesGoOn, t \in held',
           call'[t].pc \in {"idle", "health", "backup", "copied"},
           file'[conn[t].path].wal = file[conn[t].path].wal,
           Reads(conn[t], conn'[t], file'[conn[t].path]), SeenInv(t)'
    PROVE  CallerInv(t)'
  <1>1. CallerInv(t) /\ conn[t].path \in Path
    BY UnchangedParts DEF IInv, Connected
  <1>2. conn'[t].path = conn[t].path /\ conn'[t].options = conn[t].options
        /\ (t \in Connected)'
    BY DEF Connected, Reads
  <1>3. PhaseInv(t)'
    BY <1>2 DEF PhaseInv, Opening
  <1>4. ModeInv(t)'
    <2>1. t \notin overruled /\ conn[t].options.journal # "unchanged" => Granted(t)
      BY <1>1 DEF CallerInv, ModeInv
    <2>2. ASSUME Granted(t)
          PROVE  Granted(t)'
      <3>1. (file[conn[t].path].wal <=> conn[t].mode = "wal")
        BY <2>2 DEF Granted
      <3>2. conn'[t].mode = conn[t].mode
        BY <3>1 DEF Reads
      <3> QED
        BY <1>2, <2>2, <3>2 DEF Granted
    <2> QED
      BY <1>2, <2>1, <2>2 DEF ModeInv, Reads
  <1>5. FileInv(t)'
    <2>1. Compressed(conn[t].options) => conn[t].options.codec \in {"deflate", "zstd"}
      BY <1>1 DEF CallerInv, FileInv
    <2>2. file[conn[t].path].format # "absent"
      BY <1>1 DEF CallerInv, FileInv
    <2>3. file'[conn[t].path].format # "absent"
      BY <1>1, <2>2 DEF FilesGoOn
    <2> QED
      BY <1>2, <2>1, <2>3 DEF FileInv, Compressed, FormatOf, Reads
  <1> QED
    BY <1>3, <1>4, <1>5 DEF CallerInv

LEMMA HeldFacts ==
    ASSUME IInv, NEW t \in Caller, t \in held
    PROVE  /\ t \in Connected /\ call[t].pc \notin {"select", "open"}
           /\ conn[t].path \in Path /\ conn[t] \in Connection
           /\ conn[t].options \in Requests /\ file[conn[t].path] \in FileState
           /\ CallerInv(t)
  <1>1. CallerInv(t)
    BY DEF IInv
  <1>2. t \in Connected /\ call[t].pc \notin Opening
    BY <1>1 DEF CallerInv, PhaseInv
  <1>3. conn[t].path \in Path /\ conn[t] \in Connection /\ conn[t].options \in Requests
    BY <1>2, UnchangedParts DEF IInv, Connected
  <1>4. file[conn[t].path] \in FileState
    BY <1>3 DEF IInv, TypeOK
  <1> QED
    BY <1>1, <1>2, <1>3, <1>4 DEF Opening

LEMMA SettingsKeeps ==
    ASSUME IInv, NEW t \in Caller, Settings(t)
    PROVE  IInv'
  <1>1. /\ call[t].pc = "settings" /\ build' = build /\ file' = file /\ backup' = backup
        /\ registry' = registry /\ vfs' = vfs /\ seen' = seen
    BY DEF Settings
  <1>2. registry = vfs /\ vfs \subseteq Codecs \X Int /\ call[t].pc \in Opening
        /\ held \subseteq Caller /\ overruled \subseteq Caller /\ file \in [Path -> FileState]
    BY <1>1 DEF IInv, NamedVfsExists, TypeOK, Opening
  <1>3. CASE OpenFails(t)
    BY <1>1, <1>2, <1>3, OpenFailsKeeps
  <1>4. PICK reads \in BOOLEAN :
           reads = (/\ conn[t].options.journal = "unchanged"
                    /\ \/ conn[t].options.synchronous # "unchanged"
                       \/ conn[t].options.cache_kib > 0)
    OBVIOUS
  <1>6. PICK k : k = IF reads THEN AfterRead(conn[t], file[conn[t].path]) ELSE conn[t]
    OBVIOUS
  <1>5. CASE /\ reads => Readable(t)
             /\ overruled' = overruled
             /\ conn' = [conn EXCEPT ![t] = k]
             /\ held' = held \cup {t} /\ Goes(t, At("idle"))
    <2>1. CallerInv(t) /\ t \in Connected
      BY <1>2 DEF IInv, CallerInv, PhaseInv
    <2>2. /\ conn[t] \in Connection /\ conn[t].options \in Requests /\ conn[t].path \in Path
          /\ seen[t] \in SUBSET FileState /\ seen = [seen EXCEPT ![t] = seen[t]]
      BY <2>1, UnchangedParts DEF IInv, Connected
    <2>3. file[conn[t].path] \in FileState
      BY <1>2, <2>2
    <2>4. k \in Connection /\ Reads(conn[t], k, file[conn[t].path])
      <3>1. CASE reads
        BY <1>5, <1>6, <2>1, <2>3, <3>1, ReadFacts DEF Reads
      <3>2. CASE ~reads
        BY <1>6, <2>1, <2>2, <3>2, ReadsSelf
      <3> QED
        BY <3>1, <3>2
    <2>5. At("idle") \in CallState /\ At("idle").pc = "idle"
      BY AtFacts DEF Steps
    <2>6. call'[t].pc = "idle" /\ conn'[t] = k
      BY <1>5, <2>4, <2>5, StepTypes DEF Goes, IInv
    <2>7. FilesGoOn
      BY <1>1 DEF FilesGoOn
    <2>8. SeenInv(t)'
      BY <2>6 DEF SeenInv, Watching
    <2>9. k.path = conn[t].path /\ k.options = conn[t].options
      BY <2>4 DEF Reads
    <2>10. CallerInv(t)'
      BY <1>1, <1>5, <2>1, <2>4, <2>6, <2>7, <2>8, <2>9, HeldCaller
    <2>11. \A u \in Caller : u # t => (u \in held' <=> u \in held)
      BY <1>5
    <2>12. held' \subseteq Caller /\ overruled' \subseteq Caller
      BY <1>2, <1>5
    <2> QED
      BY <1>1, <1>2, <1>5, <2>2, <2>4, <2>5, <2>9, <2>10, <2>11, <2>12, QuietKeeps DEF Goes
  <1> QED
    BY <1>3, <1>4, <1>5, <1>6 DEF Settings, Idle

LEMMA CloseKeeps ==
    ASSUME IInv, NEW t \in Caller, Close(t)
    PROVE  IInv'
  <1>1. /\ call[t].pc = "idle" /\ t \in held /\ held' = held \ {t}
        /\ overruled' = overruled \ {t}
        /\ conn' = [conn EXCEPT ![t] = NoConn]
        /\ call' = [call EXCEPT ![t] = At("idle")]
        /\ build' = build /\ file' = file /\ backup' = backup
        /\ registry' = registry /\ vfs' = vfs /\ seen' = seen
    BY DEF Close, Goes, Idle
  <1>2. registry = vfs /\ vfs \subseteq Codecs \X Int /\ held \subseteq Caller
        /\ overruled \subseteq Caller
    BY DEF IInv, NamedVfsExists, TypeOK
  <1>3. At("idle") \in CallState /\ At("idle").pc = "idle"
    BY AtFacts DEF Steps
  <1>4. call'[t].pc = "idle" /\ conn'[t].path = None /\ t \notin Connected'
    BY <1>1, <1>3, NoConnFacts, StepTypes DEF IInv, Connected
  <1>5. CallerInv(t)'
    <2>1. PhaseInv(t)'
      BY <1>1, <1>4 DEF PhaseInv, Opening
    <2>2. ModeInv(t)'
      BY <1>4 DEF ModeInv
    <2>3. FileInv(t)' /\ SeenInv(t)'
      BY <1>4 DEF FileInv, SeenInv, Watching
    <2> QED
      BY <2>1, <2>2, <2>3 DEF CallerInv
  <1>6. seen[t] \in SUBSET FileState /\ seen = [seen EXCEPT ![t] = seen[t]]
    BY UnchangedParts DEF IInv
  <1>7. held' \subseteq Caller /\ overruled' \subseteq Caller
        /\ \A u \in Caller : u # t => (u \in held' <=> u \in held)
    BY <1>1, <1>2
  <1> QED
    BY <1>1, <1>2, <1>3, <1>5, <1>6, <1>7, NoConnFacts, QuietKeeps

(* A step of a call that changes nothing but the call and its history. *)
LEMMA CallStepKeeps ==
    ASSUME IInv, NEW t \in Caller, t \in held,
           NEW c \in CallState, c.pc \in {"idle", "health", "backup", "copied"},
           call' = [call EXCEPT ![t] = c],
           NEW k \in Connection, conn' = [conn EXCEPT ![t] = k],
           Reads(conn[t], k, file[conn[t].path]), overruled' = overruled,
           NEW s \in SUBSET FileState, seen' = [seen EXCEPT ![t] = s],
           c.pc \in Watching => file[conn[t].path] \in s,
           c.pc = "health" => \E f \in s : f.wal <=> k.mode = "wal",
           held' = held, build' = build, file' = file,
           backup' \in 0 .. MaxContent \cup {None}, registry' = registry, vfs' = vfs
    PROVE  IInv'
  <1>1. /\ t \in Connected /\ call[t].pc \notin {"select", "open"}
        /\ conn[t].options \in Requests
        /\ k.path = conn[t].path /\ k.options = conn[t].options
    BY HeldFacts DEF Reads
  <1>2. call'[t] = c /\ conn'[t] = k
    BY StepTypes DEF IInv
  <1>3. seen'[t] = s
    BY DEF IInv, TypeOK
  <1>4. SeenInv(t)'
    BY <1>1, <1>2, <1>3 DEF SeenInv
  <1>5. FilesGoOn
    BY DEF FilesGoOn
  <1>6. CallerInv(t)'
    BY <1>1, <1>2, <1>4, <1>5, HeldCaller
  <1>7. /\ registry = vfs /\ vfs \subseteq Codecs \X Int /\ held \subseteq Caller
        /\ overruled \subseteq Caller /\ file \in [Path -> FileState] /\ seen' \in [Caller -> SUBSET FileState]
    BY DEF IInv, NamedVfsExists, TypeOK
  <1>8. \A u \in Caller : u # t => seen'[u] = seen[u]
    BY DEF IInv, TypeOK
  <1>9. \A u \in Caller : u # t => Watches(u)
    BY <1>8 DEF Watches, IInv, CallerInv, SeenInv
  <1>10. \A u \in Caller : u # t => Overrules(u)
    BY DEF Overrules
  <1> QED
    BY <1>1, <1>5, <1>6, <1>7, <1>9, <1>10, StepKeeps

LEMMA UseKeeps ==
    ASSUME IInv, NEW t \in Caller, Use(t)
    PROVE  IInv'
  <1>1. /\ call[t].pc = "idle" /\ t \in held /\ Readable(t)
        /\ conn' = [conn EXCEPT ![t] = AfterRead(conn[t], file'[conn[t].path])]
        /\ call' = [call EXCEPT ![t] = At("idle")] /\ seen' = Watched(file')
        /\ build' = build /\ backup' = backup /\ registry' = registry /\ vfs' = vfs
        /\ held' = held /\ overruled' = overruled
    BY DEF Use, Goes, Idle
  <1>2. /\ t \in Connected /\ call[t].pc \notin {"select", "open"}
        /\ conn[t].path \in Path /\ conn[t] \in Connection
        /\ conn[t].options \in Requests /\ file[conn[t].path] \in FileState
    BY <1>1, HeldFacts
  <1>3. PICK p : p = conn[t].path
    OBVIOUS
  <1>4. FormatOf(conn[t].options) \in {"plain", "deflate", "zstd"}
    BY <1>2 DEF IInv, CallerInv, FileInv, FormatOf
  <1>5. file[p].format \in {"empty", FormatOf(conn[t].options)}
    BY <1>1, <1>3 DEF Readable
  <1>6. file \in [Path -> FileState] /\ registry = vfs /\ vfs \subseteq Codecs \X Int
        /\ held \subseteq Caller /\ overruled \subseteq Caller /\ backup \in 0 .. MaxContent \cup {None}
    BY DEF IInv, NamedVfsExists, TypeOK
  <1>7. PICK f \in FileState :
            /\ file' = [file EXCEPT ![p] = f]
            /\ f.format # "absent" /\ f.wal = file[p].wal
            /\ f.format \in {file[p].format, FormatOf(conn[t].options)}
            /\ file[p].format \in {"plain", "deflate", "zstd"} => f.format = file[p].format
    <2>1. CASE file' = file
      BY <2>1, <1>2, <1>3, <1>4, <1>5, <1>6
    <2>2. CASE /\ file[p].content < MaxContent
               /\ file' = [file EXCEPT ![p].content = @ + 1,
                                       ![p].format = FormatOf(conn[t].options)]
      <3>1. PICK n : n = file[p].content + 1
        OBVIOUS
      <3>2. n \in 0 .. MaxContent
        BY <3>1, <2>2, <1>2, <1>3, LimitAssumption DEF FileState
      <3>3. PICK f : f = [file[p] EXCEPT !.content = n, !.format = FormatOf(conn[t].options)]
        OBVIOUS
      <3>4. f \in FileState /\ f.format = FormatOf(conn[t].options)
            /\ f.wal = file[p].wal
        BY <3>2, <3>3, <1>2, <1>3, <1>4 DEF FileState
      <3>5. file' = [file EXCEPT ![p] = f]
        BY <2>2, <3>1, <3>3, <1>2, <1>3, <1>6
      <3> QED
        BY <3>4, <3>5, <1>4, <1>5
    <2> QED
      BY <2>1, <2>2, <1>3 DEF Use
  <1>8. /\ file' \in [Path -> FileState] /\ seen' \in [Caller -> SUBSET FileState]
        /\ file'[p] = f /\ FilesGoOn /\ \A u \in Caller : Watches(u)
    BY <1>1, <1>2, <1>3, <1>7, WriteFacts
  <1>9. PICK k : k = AfterRead(conn[t], f)
    OBVIOUS
  <1>10. /\ k \in Connection /\ k.path = conn[t].path /\ k.options = conn[t].options
         /\ Reads(conn[t], k, f) /\ conn' = [conn EXCEPT ![t] = k]
    BY <1>1, <1>2, <1>3, <1>7, <1>8, <1>9, ReadFacts DEF Reads
  <1>11. At("idle") \in CallState /\ At("idle").pc = "idle"
    BY AtFacts DEF Steps
  <1>12. call'[t].pc = "idle" /\ conn'[t] = k
    BY <1>1, <1>10, <1>11, StepTypes DEF IInv
  <1>13. SeenInv(t)'
    BY <1>12 DEF SeenInv, Watching
  <1>14. CallerInv(t)'
    BY <1>1, <1>2, <1>3, <1>7, <1>8, <1>10, <1>12, <1>13, HeldCaller
  <1>15. ASSUME NEW u \in Caller
         PROVE  Overrules(u)
    <2>1. u \in Connected => conn[u].path \in Path
      BY DEF IInv, TypeOK, Connection, Connected
    <2>2. \A q \in Path : file'[q].wal = file[q].wal
      BY <1>2, <1>3, <1>6, <1>7
    <2> QED
      BY <1>1, <2>1, <2>2 DEF Overrules
  <1> QED
    BY <1>1, <1>2, <1>6, <1>8, <1>10, <1>11, <1>14, <1>15, StepKeeps

(* esdb_database_health_get: after its read the connection reports the     *)
(* mode of the file it has read.                                           *)
LEMMA HealthReadKeeps ==
    ASSUME IInv, NEW t \in Caller, HealthRead(t)
    PROVE  IInv'
  <1>1. /\ call[t].pc = "idle" /\ t \in held /\ held' = held /\ build' = build
        /\ file' = file /\ backup' = backup /\ registry' = registry /\ vfs' = vfs
        /\ overruled' = overruled
    BY DEF HealthRead
  <1>2. /\ conn[t].path \in Path /\ conn[t] \in Connection
        /\ file[conn[t].path] \in FileState /\ t \in Connected
        /\ Reads(conn[t], conn[t], file[conn[t].path])
    BY <1>1, HeldFacts, ReadsSelf
  <1>3. backup' \in 0 .. MaxContent \cup {None}
    BY <1>1 DEF IInv, TypeOK
  <1>4. /\ conn = [conn EXCEPT ![t] = conn[t]]
        /\ seen[t] \in SUBSET FileState /\ seen = [seen EXCEPT ![t] = seen[t]]
    BY UnchangedParts DEF IInv
  <1>5. CASE /\ call' = [call EXCEPT ![t] = At("idle")] /\ conn' = conn /\ seen' = seen
    <2>1. At("idle") \in CallState /\ At("idle").pc = "idle"
      BY AtFacts DEF Steps
    <2>2. "idle" \notin Watching
      BY DEF Watching
    <2>3. PICK k \in Connection, s \in SUBSET FileState : k = conn[t] /\ s = seen[t]
      BY <1>2, <1>4
    <2>4. conn' = [conn EXCEPT ![t] = k] /\ seen' = [seen EXCEPT ![t] = s]
      BY <1>1, <1>4, <1>5, <2>3
    <2>5. PICK c \in CallState : c = At("idle") /\ c.pc = "idle"
      BY <2>1
    <2>6. call' = [call EXCEPT ![t] = c] /\ c.pc # "health" /\ c.pc \notin Watching
      BY <1>5, <2>2, <2>5
    <2> QED
      BY <1>1, <1>2, <1>3, <2>3, <2>4, <2>5, <2>6, CallStepKeeps
  <1>6. CASE /\ Readable(t) /\ call' = [call EXCEPT ![t] = At("health")]
             /\ conn' = [conn EXCEPT ![t] = AfterRead(@, file[@.path])]
             /\ seen' = [seen EXCEPT ![t] = {file[conn[t].path]}]
    <2>1. At("health") \in CallState /\ At("health").pc = "health"
      BY AtFacts DEF Steps
    <2>2. PICK k : k = AfterRead(conn[t], file[conn[t].path])
      OBVIOUS
    <2>3. /\ k \in Connection /\ Reads(conn[t], k, file[conn[t].path])
          /\ k.path = conn[t].path /\ k.options = conn[t].options
          /\ file[conn[t].path].wal <=> k.mode = "wal"
      BY <1>2, <1>6, <2>2, ReadFacts DEF Reads
    <2>4. conn' = [conn EXCEPT ![t] = k]
      BY <1>6, <2>2
    <2>5. PICK s : s = {file[conn[t].path]}
      OBVIOUS
    <2>6. /\ s \in SUBSET FileState /\ file[conn[t].path] \in s
          /\ \E f \in s : f.wal <=> k.mode = "wal"
      BY <1>2, <2>3, <2>5
    <2> QED
      BY <1>1, <1>3, <1>6, <2>1, <2>3, <2>4, <2>5, <2>6, CallStepKeeps
  <1> QED
    BY <1>5, <1>6 DEF HealthRead, Goes, Idle

LEMMA BackupStartKeeps ==
    ASSUME IInv, NEW t \in Caller, BackupStart(t)
    PROVE  IInv'
  <1>1. /\ call[t].pc = "idle" /\ t \in held /\ held' = held /\ build' = build
        /\ file' = file /\ backup' = backup /\ registry' = registry /\ vfs' = vfs
        /\ conn' = conn /\ overruled' = overruled
    BY DEF BackupStart
  <1>2. /\ conn[t].path \in Path /\ conn[t] \in Connection
        /\ file[conn[t].path] \in FileState
        /\ Reads(conn[t], conn[t], file[conn[t].path])
    BY <1>1, HeldFacts, ReadsSelf
  <1>3. backup' \in 0 .. MaxContent \cup {None}
    BY <1>1 DEF IInv, TypeOK
  <1>4. /\ conn = [conn EXCEPT ![t] = conn[t]]
        /\ seen[t] \in SUBSET FileState /\ seen = [seen EXCEPT ![t] = seen[t]]
    BY UnchangedParts DEF IInv
  <1>5. CASE call' = [call EXCEPT ![t] = At("idle")] /\ seen' = seen
    <2>1. At("idle") \in CallState /\ At("idle").pc = "idle"
      BY AtFacts DEF Steps
    <2>2. "idle" \notin Watching
      BY DEF Watching
    <2>3. PICK k \in Connection, s \in SUBSET FileState : k = conn[t] /\ s = seen[t]
      BY <1>2, <1>4
    <2>4. conn' = [conn EXCEPT ![t] = k] /\ seen' = [seen EXCEPT ![t] = s]
      BY <1>1, <1>4, <1>5, <2>3
    <2>5. PICK c \in CallState : c = At("idle") /\ c.pc = "idle"
      BY <2>1
    <2>6. call' = [call EXCEPT ![t] = c] /\ c.pc # "health" /\ c.pc \notin Watching
      BY <1>5, <2>2, <2>5
    <2> QED
      BY <1>1, <1>2, <1>3, <2>3, <2>4, <2>5, <2>6, CallStepKeeps
  <1>6. CASE /\ call' = [call EXCEPT ![t] = At("backup")]
             /\ seen' = [seen EXCEPT ![t] = {file[conn[t].path]}]
    <2>1. At("backup") \in CallState /\ At("backup").pc = "backup"
      BY AtFacts DEF Steps
    <2>2. PICK s : s = {file[conn[t].path]}
      OBVIOUS
    <2>3. s \in SUBSET FileState /\ file[conn[t].path] \in s
      BY <1>2, <2>2
    <2>4. PICK k \in Connection : k = conn[t]
      BY <1>2
    <2>5. conn' = [conn EXCEPT ![t] = k] /\ seen' = [seen EXCEPT ![t] = s]
      BY <1>1, <1>4, <1>6, <2>2, <2>4
    <2> QED
      BY <1>1, <1>2, <1>3, <1>6, <2>1, <2>3, <2>4, <2>5, CallStepKeeps
  <1> QED
    BY <1>5, <1>6 DEF BackupStart, Goes, Idle

(* The ends of a health call and of a backup. *)
LEMMA CallEndsKeeps ==
    ASSUME IInv, NEW t \in Caller,
           HealthReport(t) \/ BackupDone(t) \/ BackupReturns(t) \/ BackupFails(t)
    PROVE  IInv'
  <1>1. /\ held' = held /\ build' = build /\ file' = file /\ registry' = registry
        /\ vfs' = vfs /\ overruled' = overruled
        /\ call[t].pc \in {"health", "backup", "copied"}
    BY DEF HealthReport, BackupDone, BackupReturns, BackupFails
  <1>2. t \in held
    BY <1>1 DEF IInv, CallerInv, PhaseInv
  <1>3. conn[t] \in Connection /\ file[conn[t].path] \in FileState /\ t \in Connected
        /\ Reads(conn[t], conn[t], file[conn[t].path])
    BY <1>2, HeldFacts, ReadsSelf
  <1>4. backup' \in 0 .. MaxContent \cup {None}
    BY <1>3 DEF IInv, TypeOK, FileState, HealthReport, BackupDone, BackupReturns, BackupFails
  <1>5. /\ conn = [conn EXCEPT ![t] = conn[t]]
        /\ seen[t] \in SUBSET FileState /\ seen = [seen EXCEPT ![t] = seen[t]]
    BY UnchangedParts DEF IInv
  <1>6. PICK pc \in {"idle", "copied"}, s \in SUBSET FileState :
            call' = [call EXCEPT ![t] = At(pc)] /\ seen' = [seen EXCEPT ![t] = s]
    BY <1>5 DEF HealthReport, BackupDone, BackupReturns, BackupFails, Goes, Idle
  <1>7. At(pc) \in CallState /\ At(pc).pc = pc
    BY AtFacts DEF Steps
  <1>8. pc \notin Watching /\ pc # "health"
    BY DEF Watching
  <1>9. PICK k \in Connection : conn' = [conn EXCEPT ![t] = k]
                                /\ Reads(conn[t], k, file[conn[t].path])
    <2>1. CASE conn' = conn
      BY <1>3, <1>5, <2>1
    <2>2. CASE BackupDone(t)
      <3>1. PICK k : k = AfterRead(conn[t], file[conn[t].path])
        OBVIOUS
      <3>2. conn' = [conn EXCEPT ![t] = k] /\ Readable(t)
        BY <2>2, <3>1 DEF BackupDone
      <3>3. k \in Connection /\ Reads(conn[t], k, file[conn[t].path])
        BY <1>3, <3>1, <3>2, ReadFacts DEF Reads
      <3> QED
        BY <3>2, <3>3
    <2> QED
      BY <2>1, <2>2 DEF HealthReport, BackupReturns, BackupFails
  <1> QED
    BY <1>1, <1>2, <1>4, <1>6, <1>7, <1>8, <1>9, CallStepKeeps, ZenonT(60)

LEMMA BackupBusyKeeps ==
    ASSUME IInv, NEW t \in Caller, BackupBusy(t)
    PROVE  IInv'
  <1>1. /\ held' = held /\ build' = build /\ file' = file /\ registry' = registry
        /\ vfs' = vfs /\ conn' = conn /\ overruled' = overruled /\ backup' = backup /\ call[t].pc = "backup"
    BY DEF BackupBusy
  <1>2. t \in held
    BY <1>1 DEF IInv, CallerInv, PhaseInv
  <1>3. conn[t] \in Connection /\ Reads(conn[t], conn[t], file[conn[t].path])
    BY <1>2, HeldFacts, ReadsSelf
  <1>4. backup' \in 0 .. MaxContent \cup {None}
    BY <1>1 DEF IInv, TypeOK
  <1>5. /\ conn = [conn EXCEPT ![t] = conn[t]] /\ call[t] \in CallState
        /\ seen[t] \in SUBSET FileState /\ seen = [seen EXCEPT ![t] = seen[t]]
    BY UnchangedParts DEF IInv
  <1>6. CASE /\ call' = [call EXCEPT ![t] = At("idle")] /\ seen' = [seen EXCEPT ![t] = {}]
    <2>1. At("idle") \in CallState /\ At("idle").pc = "idle"
      BY AtFacts DEF Steps
    <2>2. "idle" \notin Watching /\ {} \in SUBSET FileState
      BY DEF Watching
    <2> QED
      BY <1>1, <1>2, <1>3, <1>4, <1>5, <1>6, <2>1, <2>2, CallStepKeeps
  <1>7. CASE /\ ~(call[t].retries + 1 > MaxRetries) /\ seen' = seen
             /\ call' = [call EXCEPT ![t] = [call[t] EXCEPT !.retries = @ + 1]]
    <2>1. PICK n : n = call[t].retries + 1
      OBVIOUS
    <2>2. n \in 0 .. MaxRetries
      BY <1>5, <1>7, <2>1, LimitAssumption DEF CallState
    <2>3. PICK c : c = [call[t] EXCEPT !.retries = n]
      OBVIOUS
    <2>4. c \in CallState /\ c.pc = "backup"
      BY <1>1, <1>5, <2>2, <2>3 DEF CallState
    <2>5. call' = [call EXCEPT ![t] = c]
      BY <1>7, <2>1, <2>3
    <2>6. file[conn[t].path] \in seen[t]
      BY <1>1 DEF IInv, CallerInv, SeenInv, Watching
    <2> QED
      BY <1>1, <1>2, <1>3, <1>4, <1>5, <1>7, <2>4, <2>5, <2>6, CallStepKeeps
  <1> QED
    BY <1>6, <1>7 DEF BackupBusy, Goes, Idle

-----------------------------------------------------------------------------
(* Theorems. *)

LEMMA NextKeeps == IInv /\ [Next]_vars => IInv'
  <1> SUFFICES ASSUME IInv, [Next]_vars
               PROVE  IInv'
    OBVIOUS
  <1>1. CASE Next
    <2>1. PICK t \in Caller :
            \/ Step(t)
            \/ \E path \in Path, o \in Requests : Open(t, path, o)
            \/ Close(t) \/ Use(t) \/ HealthRead(t) \/ BackupStart(t)
      BY <1>1 DEF Next
    <2>2. CASE Step(t)
      BY <2>2, SelectVfsKeeps, OpenFileKeeps, VerifyOpenKeeps, SetJournalKeeps,
         ReadJournalKeeps, SettingsKeeps, CallEndsKeeps, BackupBusyKeeps DEF Step
    <2> QED
      BY <2>1, <2>2, OpenKeeps, CloseKeeps, UseKeeps, HealthReadKeeps, BackupStartKeeps
  <1>2. CASE UNCHANGED vars
    <2>1. /\ build' = build /\ file' = file /\ backup' = backup /\ registry' = registry
          /\ vfs' = vfs /\ call' = call /\ conn' = conn /\ held' = held /\ seen' = seen
          /\ overruled' = overruled
      BY <1>2 DEF vars
    <2>2. TypeOK' /\ NamedVfsExists'
      BY <2>1 DEF IInv, TypeOK, Connected, NamedVfsExists
    <2>3. ASSUME NEW u \in Caller
          PROVE  CallerInv(u)'
      <3>1. FilesGoOn
        BY <2>1 DEF FilesGoOn
      <3>2. Watches(u)
        BY <2>1 DEF Watches, IInv, CallerInv, SeenInv
      <3>3. Overrules(u)
        BY <2>1 DEF Overrules
      <3> QED
        BY <2>1, <3>1, <3>2, <3>3, OtherKept DEF IInv
    <2> QED
      BY <2>2, <2>3 DEF IInv
  <1> QED
    BY <1>1, <1>2

LEMMA Invariance == FairSpec => []IInv
  <1>1. FairSpec => Init /\ [][Next]_vars
    BY PTL DEF FairSpec
  <1> QED
    BY <1>1, InitHolds, NextKeeps, PTL

(* Files, connections and calls keep their types, and no backup retries    *)
(* more often than esdb_backup_to allows.                                  *)
THEOREM FileTypes == FairSpec => []TypeOK
  <1>1. IInv => TypeOK
    BY DEF IInv
  <1> QED
    BY <1>1, Invariance, PTL

(* However the steps of esdb_open interleave with those of other callers,  *)
(* and whichever of them fails: the caller gets a database or nothing is   *)
(* left open; connection and file are in the journal mode asked for until  *)
(* another caller moves the file into or out of WAL, which it cannot leave *)
(* under an attached connection; pages are read and written in the format  *)
(* of the open only; and a codec is in the ZIPVFS registry exactly if      *)
(* SQLite knows its file system.                                           *)
THEOREM OpenIsAllOrNothing == FairSpec => []OpenAllOrNothing
  <1>1. IInv => OpenAllOrNothing
    <2> SUFFICES ASSUME IInv
                 PROVE  OpenAllOrNothing
      OBVIOUS
    <2>1. NoConnectionLeaked
      <3> SUFFICES ASSUME NEW t \in Caller, call[t].pc = "idle"
                   PROVE  t \in Connected <=> t \in held
        BY DEF NoConnectionLeaked
      <3> QED
        BY DEF IInv, CallerInv, PhaseInv, Opening
    <2>2. \A t \in held : t \in Caller
      BY DEF IInv, TypeOK
    <2>3. GrantedAsRequested
      <3>1. ASSUME NEW t \in held \ overruled, conn[t].options.journal # "unchanged"
            PROVE  Granted(t)
        <4>1. t \in Caller /\ t \in held /\ t \notin overruled
          BY <2>2, <3>1
        <4>2. t \in Connected /\ ModeInv(t)
          BY <4>1, HeldFacts DEF CallerInv
        <4> QED
          BY <3>1, <4>1, <4>2 DEF ModeInv
      <3>2. ASSUME NEW t \in Connected, conn[t].attached
            PROVE  file[conn[t].path].wal
        <4>1. t \in Caller
          BY DEF Connected
        <4>2. ModeInv(t)
          BY <4>1 DEF IInv, CallerInv
        <4> QED
          BY <3>2, <4>2 DEF ModeInv
      <3> QED
        BY <3>1, <3>2 DEF GrantedAsRequested, Granted
    <2>4. CompressedIsCompressed
      BY <2>2, HeldFacts DEF CompressedIsCompressed, CallerInv, FileInv
    <2> QED
      BY <2>1, <2>3, <2>4 DEF OpenAllOrNothing, IInv
  <1> QED
    BY <1>1, Invariance, PTL

(* esdb_database_health_get reports a journal mode the file had during the *)
(* call, whatever other connections do to the file meanwhile.              *)
THEOREM HealthIsOfTheFile == FairSpec => []HealthReportsTheFile
  <1>1. IInv => HealthReportsTheFile
    BY DEF IInv, CallerInv, SeenInv, HealthReportsTheFile
  <1> QED
    BY <1>1, Invariance, PTL

(* A backup that esdb_backup_to reports as done is the content of the      *)
(* source at some moment of the call; running out of retries is no success. *)
THEOREM BackupIsOfTheCall == FairSpec => BackupIsSnapshot
  <1> DEFINE Snapshot == \A t \in Caller :
        call[t].pc = "backup" /\ call'[t].pc = "copied"
        => \E f \in seen[t] : f.content = backup'
  <1>1. IInv /\ [Next]_vars => [Snapshot]_vars
    <2> SUFFICES ASSUME IInv, Next, NEW t \in Caller, call[t].pc = "backup",
                        call'[t].pc = "copied"
                 PROVE  \E f \in seen[t] : f.content = backup'
      OBVIOUS
    <2>1. \A pc \in Steps : At(pc).pc = pc
      BY AtFacts
    <2>2. call \in [Caller -> CallState]
      BY DEF IInv, TypeOK, CallState
    <2>3. ASSUME NEW u \in Caller, NEW c, Goes(u, c), u # t \/ c.pc # "copied"
          PROVE  FALSE
      BY <2>2, <2>3 DEF Goes
    <2>4. BackupDone(t)
      <3>1. PICK u \in Caller :
              \/ Step(u)
              \/ \E path \in Path, o \in Requests : Open(u, path, o)
              \/ Close(u) \/ Use(u) \/ HealthRead(u) \/ BackupStart(u)
        BY SMTT(60) DEF Next
      <3>2. \E c : Goes(u, c)
        BY <3>1, ZenonT(60) DEF Step, SelectVfs, EnsureZipvfs, OpenFile, VerifyOpen, SetJournal,
                    ReadJournal, Settings, OpenFails, HealthReport, BackupDone, BackupBusy,
                    BackupFails, BackupReturns, Open, Close, Use, HealthRead, BackupStart
      <3>3. u = t
        BY <3>2, <2>3, Zenon
      <3>4. BackupDone(t) \/ BackupBusy(t) \/ BackupFails(t)
        BY <3>1, <3>3 DEF Step, SelectVfs, OpenFile, VerifyOpen, SetJournal, ReadJournal,
                    Settings, HealthReport, BackupReturns, Open, Close, Use, HealthRead,
                    BackupStart
      <3>5. ~BackupFails(t)
        BY <2>1, <2>3 DEF BackupFails, Idle, Steps
      <3>6. ~BackupBusy(t)
        <4>1. ~Goes(t, Idle)
          BY <2>1, <2>3 DEF Idle, Steps
        <4>2. [call[t] EXCEPT !.retries = @ + 1].pc # "copied"
          BY <2>2 DEF CallState
        <4>3. ~Goes(t, [call[t] EXCEPT !.retries = @ + 1])
          BY <2>3, <4>2
        <4> QED
          BY <4>1, <4>3 DEF BackupBusy
      <3> QED
        BY <3>4, <3>5, <3>6
    <2>5. file[conn[t].path] \in seen[t]
      BY DEF IInv, CallerInv, SeenInv, Watching
    <2> QED
      BY <2>4, <2>5 DEF BackupDone
  <1>2. FairSpec => Init /\ [][Next]_vars
    BY PTL DEF FairSpec
  <1> QED
    BY <1>1, <1>2, Invariance, PTL DEF BackupIsSnapshot
=============================================================================
