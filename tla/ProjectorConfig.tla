---------------------------- MODULE ProjectorConfig ----------------------------
(***************************************************************************)
(* SummaryWriter::Embedding.  A call with a matrix writes the matrix and   *)
(* its metadata to two files, then reads projector_config.pbtxt, adds an   *)
(* entry that names the files, and writes the whole config back.  Nothing  *)
(* locks any of the three files.                                           *)
(*                                                                         *)
(* A path is a sequence of names; the paths of the entries are relative to *)
(* the log directory, and an empty one is a field that is not set.  A file *)
(* is known by the call whose data it holds.  An ofstream truncates its    *)
(* file when it opens it, and the file is complete when it is closed.      *)
(***************************************************************************)
EXTENDS Naturals, FiniteSets, SequencesExt

CONSTANTS Threads,   \* threads that log embeddings
          Calls,     \* call -> its arguments
          Fails,     \* what may fail to open: "tensor", "meta", "config"
          MaxCrashes \* bound: how often the process ends and is started again

Log == <<"log">>                        \* fw.LogDir()
Absent == "absent"   Cut == "cut"       Mixed == "mixed"
TensorTsv == Log \o <<"tensor.tsv">>    MetaTsv == Log \o <<"meta.tsv">>
NoCall == "no call"

ProjectorAssumption ==
  /\ Fails \subseteq {"tensor", "meta", "config"} /\ MaxCrashes \in Nat
  /\ DOMAIN Calls \cap {Absent, Cut, Mixed, NoCall} = {}
  /\ \A c \in DOMAIN Calls : Calls[c].meta \in {"none", "short", "full"}

VARIABLES pc, call, read,   \* of each thread; read: the entries it has parsed
          files,            \* path -> the call whose data the file holds
          config,           \* the entries of projector_config.pbtxt
          started,          \* history: the calls made so far
          returned,         \* history: those that returned, without a throw
          crashes

threadVars == <<pc, call, read>>
vars == <<threadVars, files, config, started, returned, crashes>>

\* Default file name.
TensorPath(c) == IF Calls[c].tensorPath = <<>> THEN TensorTsv ELSE Calls[c].tensorPath
MetaPath(c) == IF Calls[c].metaPath = <<>> THEN MetaTsv ELSE Calls[c].metaPath

Paths == UNION {{TensorPath(c), MetaPath(c)} : c \in DOMAIN Calls}

\* The paths in the entry: the caller's, unless the file is a default one.

RelativeTensor(c) ==
  IF TensorPath(c) = TensorTsv THEN Tail(TensorTsv) ELSE Calls[c].relativeTensor

RelativeMeta(c) ==
  IF MetaPath(c) = MetaTsv THEN Tail(MetaTsv) ELSE Calls[c].relativeMeta

Entry(c) == [name |-> c, tensor |-> RelativeTensor(c), meta |-> RelativeMeta(c)]

\* Slip: the config is written back as it was read.
WithoutEntry(entries, c) == entries

WithEntry(entries, c) == Append(entries, Entry(c))

Init ==
  /\ pc = [t \in Threads |-> "idle"] /\ call = [t \in Threads |-> NoCall]
  /\ read = [t \in Threads |-> <<>>]
  /\ files = [p \in Paths |-> Absent] /\ config = <<>>
  /\ started = {} /\ returned = {} /\ crashes = 0

-------------------------------------------------------------------------------
At(t, label) == pc[t] = label
Goto(t, label) == pc' = [pc EXCEPT ![t] = label]

Embedding(t, c) ==
  /\ At(t, "idle") /\ c \notin started
  /\ Goto(t, "tensor")
  /\ call' = [call EXCEPT ![t] = c] /\ started' = started \cup {c}
  /\ UNCHANGED <<read, files, config, returned, crashes>>

Stay(t, label) == Goto(t, label) /\ UNCHANGED <<call, read>>

\* The call is over, and its locals are gone.
Leave(t) ==
  /\ Goto(t, "idle")
  /\ call' = [call EXCEPT ![t] = NoCall] /\ read' = [read EXCEPT ![t] = <<>>]

\* An exception leaves the call: the files stay as they are.
Throw(t) == Leave(t) /\ UNCHANGED files

Truncate(path) == files' = [files EXCEPT ![path] = Cut]

\* What a file holds once its stream is closed: this call's data, unless
\* another call has written behind this one's back since it was truncated.
Holds(path, c) == IF files[path] = Cut THEN c ELSE Mixed

OpenTensor(t) ==
  /\ At(t, "tensor")
  /\ \/ Truncate(TensorPath(call[t])) /\ Stay(t, "rows")
     \/ "tensor" \in Fails /\ Throw(t)
  /\ UNCHANGED <<config, started, returned, crashes>>

\* Slip: the stream is left open, its last rows in the buffer.
WriteTensorUnclosed(t) ==
  /\ At(t, "rows")
  /\ Stay(t, "meta")
  /\ UNCHANGED <<files, config, started, returned, crashes>>

WriteTensor(t) ==
  /\ At(t, "rows")
  /\ files' = [files EXCEPT ![TensorPath(call[t])] = Holds(TensorPath(call[t]), call[t])]
  /\ Stay(t, "meta")
  /\ UNCHANGED <<config, started, returned, crashes>>

\* Without metadata no file is written; with too few or too many names the
\* call throws, after it has written the tensor.
OpenMeta(t) ==
  LET kind == Calls[call[t]].meta IN
  /\ At(t, "meta")
  /\ \/ kind = "none" /\ Stay(t, "read") /\ UNCHANGED files
     \/ kind = "short" /\ Throw(t)
     \/ kind = "full" /\ Truncate(MetaPath(call[t])) /\ Stay(t, "names")
     \/ kind = "full" /\ "meta" \in Fails /\ Throw(t)
  /\ UNCHANGED <<config, started, returned, crashes>>

WriteMeta(t) ==
  /\ At(t, "names")
  /\ files' = [files EXCEPT ![MetaPath(call[t])] = Holds(MetaPath(call[t]), call[t])]
  /\ Stay(t, "read")
  /\ UNCHANGED <<config, started, returned, crashes>>

\* Slip: an existing config is not parsed.
ReadConfigAfresh(t) ==
  /\ At(t, "read")
  /\ read' = [read EXCEPT ![t] = <<>>]
  /\ Goto(t, "open")
  /\ UNCHANGED <<call, files, config, started, returned, crashes>>

ReadConfig(t) ==
  /\ At(t, "read")
  /\ read' = [read EXCEPT ![t] = config]
  /\ Goto(t, "open")
  /\ UNCHANGED <<call, files, config, started, returned, crashes>>

\* Nobody looks at whether the config could be opened.
OpenConfig(t) ==
  /\ At(t, "open")
  /\ \/ config' = <<>> /\ Stay(t, "save")
     \/ "config" \in Fails /\ UNCHANGED config /\ Stay(t, "event")
  /\ UNCHANGED <<files, started, returned, crashes>>

\* The stream writes from the start of the file: what another call has written
\* there since stays behind it, entries being taken to be of one size.
WriteConfig(t) ==
  LET entries == WithEntry(read[t], call[t]) IN
  /\ At(t, "save")
  /\ config' = entries \o SubSeq(config, Len(entries) + 1, Len(config))
  /\ Stay(t, "event")
  /\ UNCHANGED <<files, started, returned, crashes>>

CreateEvent(t) ==
  /\ At(t, "event")
  /\ returned' = returned \cup {call[t]}
  /\ Leave(t)
  /\ UNCHANGED <<files, config, started, crashes>>

\* The process ends, what is still in a buffer is lost, and another process
\* goes on with the same log directory.
Crash ==
  /\ crashes < MaxCrashes /\ crashes' = crashes + 1
  /\ pc' = [t \in Threads |-> "idle"] /\ call' = [t \in Threads |-> NoCall]
  /\ read' = [t \in Threads |-> <<>>]
  /\ UNCHANGED <<files, config, started, returned>>

Step(t) ==
  \/ \E c \in DOMAIN Calls : Embedding(t, c)
  \/ OpenTensor(t) \/ WriteTensor(t) \/ OpenMeta(t) \/ WriteMeta(t)
  \/ ReadConfig(t) \/ OpenConfig(t) \/ WriteConfig(t) \/ CreateEvent(t)

Next == (\E t \in Threads : Step(t)) \/ Crash

Spec == Init /\ [][Next]_vars

-------------------------------------------------------------------------------
Quiet == \A t \in Threads : At(t, "idle")
Listed == {e.name : e \in ToSet(config)}

\* Calls that keep out of each other's way: no two of them write one file, an
\* entry names a file by its path below the log directory or not at all, and
\* only a call with metadata names a file of metadata.
PathsApart ==
  \A c \in DOMAIN Calls :
    /\ \A d \in DOMAIN Calls :
         /\ TensorPath(c) # MetaPath(d)
         /\ c # d => TensorPath(c) # TensorPath(d) /\ MetaPath(c) # MetaPath(d)
    /\ RelativeTensor(c) # <<>> => Log \o RelativeTensor(c) = TensorPath(c)
    /\ RelativeMeta(c) # <<>> =>
         Log \o RelativeMeta(c) = MetaPath(c) /\ Calls[c].meta # "none"

\* Calls one after the other, in a process that does not end in one of them.
OneAtATime == (\A t, u \in Threads : t = u) /\ MaxCrashes = 0

\* The order of the writes in Embedding: whenever TensorBoard reads the config,
\* also in the middle of a call or after a crash, the tensor file an entry
\* names holds the tensor of that entry, complete.
EntryNamesOwnData ==
  \A e \in ToSet(config) : e.tensor # <<>> => files[Log \o e.tensor] = e.name

\* The same of the metadata: an entry does not name a file of metadata that
\* is missing, unfinished or another embedding's.
EntryNamesOwnMeta ==
  \A e \in ToSet(config) : e.meta # <<>> => files[Log \o e.meta] = e.name

\* Both: what TensorBoard finds behind an entry is what the entry is about.
EntryNamesOwnFiles == EntryNamesOwnData /\ EntryNamesOwnMeta

\* Embedding's two exits: a call that returned has its entry in the config, and
\* one that threw an exception has left none.
ReturnedListed == Quiet => Listed = returned

\* The entries as they are but for the moment in which a thread has the config
\* open and empty.
Entries ==
  IF \E t \in Threads : At(t, "save")
  THEN read[CHOOSE t \in Threads : At(t, "save")] ELSE config

\* Reading the config, adding to it and writing it back keeps every entry in
\* its place: the list only ever grows at its end.
EntriesKept == IsPrefix(Entries, Entries')
EntriesAppended == [][EntriesKept]_Entries
===============================================================================
