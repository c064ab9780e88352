-------------------------- MODULE ProjectorConfigProofs --------------------------
(***************************************************************************)
(* Embeddings, for every set of threads and of calls.  Calls that keep out *)
(* of each other's way leave no entry without its files, however they      *)
(* interleave and whenever the process ends; calls one after the other     *)
(* lose no entry.                                                          *)
(***************************************************************************)
EXTENDS ProjectorConfig, SequenceTheorems, TLAPS

Labels == {"idle", "tensor", "rows", "meta", "names", "read", "open", "save", "event"}

\* Where a call is once its tensor, and all of its files, are written.
PastTensor == {"meta", "names", "read", "open", "save", "event"}
PastMeta == {"read", "open", "save", "event"}

Described == DOMAIN Calls

Idle(t) == At(t, "idle")

-------------------------------------------------------------------------------
\* A call is made once, by one thread.
Calling ==
  /\ pc \in [Threads -> Labels]
  /\ call \in [Threads -> Described \cup {NoCall}]
  /\ started \subseteq Described
  /\ \A t \in Threads : ~Idle(t) => call[t] \in started
  /\ \A t, u \in Threads : ~Idle(t) /\ ~Idle(u) /\ call[t] = call[u] => t = u

\* The files of the calls in progress.
Writing ==
  /\ files \in [Paths -> Described \cup {Absent, Cut, Mixed}]
  /\ \A t \in Threads :
       /\ At(t, "rows") => files[TensorPath(call[t])] = Cut
       /\ pc[t] \in PastTensor => files[TensorPath(call[t])] = call[t]
       /\ At(t, "names") => files[MetaPath(call[t])] = Cut /\ Calls[call[t]].meta = "full"
       /\ pc[t] \in PastMeta /\ Calls[call[t]].meta # "none" =>
            files[MetaPath(call[t])] = call[t]

\* The calls whose files are complete and no longer written.
Finished ==
  {c \in started :
     /\ files[TensorPath(c)] = c
     /\ Calls[c].meta # "none" => files[MetaPath(c)] = c
     /\ \A t \in Threads : ~Idle(t) /\ call[t] = c => pc[t] \in PastMeta}

\* The config, and what threads have read of it, list such calls only.
ListsFinished ==
  LET entries == {Entry(c) : c \in Finished} IN
  config \in Seq(entries) /\ read \in [Threads -> Seq(entries)]

FilesInv == Calling /\ Writing /\ ListsFinished

-------------------------------------------------------------------------------
\* What a step that is not the beginning of a call does to its thread.
LEMMA StepOfCall ==
  ASSUME NEW t \in Threads,
         \/ OpenTensor(t) \/ WriteTensor(t) \/ OpenMeta(t) \/ WriteMeta(t)
         \/ ReadConfig(t) \/ OpenConfig(t) \/ WriteConfig(t) \/ CreateEvent(t)
  PROVE  /\ ~Idle(t) /\ started' = started
         /\ \/ /\ \E label \in Labels \ {"idle"} : Goto(t, label)
               /\ call' = call
            \/ Leave(t)
<1>1. CASE OpenTensor(t) \/ WriteTensor(t)
  BY <1>1 DEF OpenTensor, WriteTensor, Stay, Goto, Throw, Idle, At, Labels
<1>2. CASE OpenMeta(t) \/ WriteMeta(t)
  BY <1>2 DEF OpenMeta, WriteMeta, Stay, Goto, Throw, Idle, At, Labels
<1>3. CASE ReadConfig(t) \/ OpenConfig(t)
  BY <1>3 DEF ReadConfig, OpenConfig, Stay, Goto, Idle, At, Labels
<1>4. CASE WriteConfig(t) \/ CreateEvent(t)
  BY <1>4 DEF WriteConfig, CreateEvent, Stay, Goto, Idle, At, Labels
<1> QED BY <1>1, <1>2, <1>3, <1>4

LEMMA Init_Files == ASSUME ProjectorAssumption PROVE Init => FilesInv
<1> SUFFICES ASSUME Init PROVE FilesInv
    OBVIOUS
<1>1. Calling
  BY DEF Init, Calling, Labels, Idle, At
<1>2. Writing
  BY DEF Init, Writing, At, PastTensor, PastMeta
<1>3. ListsFinished
  BY EmptySeq DEF Init, ListsFinished
<1> QED BY <1>1, <1>2, <1>3 DEF FilesInv

LEMMA Next_Calling == Calling /\ [Next]_vars => Calling'
<1> SUFFICES ASSUME Calling, [Next]_vars PROVE Calling'
    OBVIOUS
<1> USE DEF Calling, Idle, At
<1>1. ASSUME NEW t \in Threads, NEW c \in Described, Embedding(t, c) PROVE Calling'
  BY <1>1 DEF Embedding, Goto, Labels
<1>2. ASSUME NEW t \in Threads,
             \/ OpenTensor(t) \/ WriteTensor(t) \/ OpenMeta(t) \/ WriteMeta(t)
             \/ ReadConfig(t) \/ OpenConfig(t) \/ WriteConfig(t) \/ CreateEvent(t)
      PROVE  Calling'
  <2>1. ~Idle(t) /\ started' = started
    BY <1>2, StepOfCall
  <2>2. ASSUME NEW label \in Labels, Goto(t, label), call' = call PROVE Calling'
    BY <2>1, <2>2 DEF Goto
  <2>3. CASE Leave(t)
    BY <2>1, <2>3 DEF Leave, Goto, Labels
  <2> QED BY <1>2, <2>2, <2>3, StepOfCall
<1>3. CASE Crash
  BY <1>3 DEF Crash, Labels
<1>4. CASE UNCHANGED vars
  BY <1>4 DEF vars, threadVars
<1> QED BY <1>1, <1>2, <1>3, <1>4 DEF Next, Step, Described

\* The files of calls in progress are different files.
LEMMA FilesApart ==
  ASSUME PathsApart, Calling, NEW t \in Threads, ~Idle(t)
  PROVE  /\ call[t] \in Described /\ call[t] \in started
         /\ TensorPath(call[t]) \in Paths /\ MetaPath(call[t]) \in Paths
         /\ TensorPath(call[t]) # MetaPath(call[t])
         /\ \A u \in Threads \ {t} : ~Idle(u) =>
              /\ TensorPath(call[t]) \notin {TensorPath(call[u]), MetaPath(call[u])}
              /\ MetaPath(call[t]) \notin {TensorPath(call[u]), MetaPath(call[u])}
<1>1. call[t] \in Described /\ call[t] \in started
  BY DEF Calling
<1>2. TensorPath(call[t]) \in Paths /\ MetaPath(call[t]) \in Paths
  BY <1>1 DEF Paths, Described
<1>3. TensorPath(call[t]) # MetaPath(call[t])
  BY <1>1 DEF PathsApart, Described
<1>4. ASSUME NEW u \in Threads, u # t, ~Idle(u)
      PROVE  /\ TensorPath(call[t]) \notin {TensorPath(call[u]), MetaPath(call[u])}
             /\ MetaPath(call[t]) \notin {TensorPath(call[u]), MetaPath(call[u])}
  <2>1. call[u] \in Described /\ call[u] # call[t]
    BY <1>4 DEF Calling
  <2> QED BY <1>1, <2>1 DEF PathsApart, Described
<1> QED BY <1>1, <1>2, <1>3, <1>4

\* Opening a file and closing it again change it and no other file; a call
\* that goes on from one of these steps has the file in the state it expects.
LEMMA Next_Writing ==
  ASSUME ProjectorAssumption, PathsApart
  PROVE  Calling /\ Writing /\ [Next]_vars => Writing'
<1> SUFFICES ASSUME Calling, Writing, [Next]_vars PROVE Writing'
    OBVIOUS
<1>0. /\ pc \in [Threads -> Labels] /\ call \in [Threads -> Described \cup {NoCall}]
      /\ files \in [Paths -> Described \cup {Absent, Cut, Mixed}]
      /\ Cut \notin Described
  BY DEF Calling, Writing, ProjectorAssumption, Described
<1> USE DEF Writing, Idle, At, PastTensor, PastMeta
<1>1. ASSUME NEW t \in Threads, NEW c \in Described, Embedding(t, c) PROVE Writing'
  BY <1>0, <1>1 DEF Embedding, Goto
<1>2. ASSUME NEW t \in Threads, OpenTensor(t) PROVE Writing'
  <2>1. CASE Truncate(TensorPath(call[t])) /\ Stay(t, "rows")
    BY <1>0, <1>2, <2>1, FilesApart DEF OpenTensor, Truncate, Stay, Goto
  <2>2. CASE Throw(t)
    BY <1>0, <1>2, <2>2 DEF Throw, Leave, Goto
  <2> QED BY <1>2, <2>1, <2>2 DEF OpenTensor
<1>3. ASSUME NEW t \in Threads, WriteTensor(t) PROVE Writing'
  <2>1. Holds(TensorPath(call[t]), call[t]) = call[t] /\ call[t] \in Described
    BY <1>0, <1>3, FilesApart DEF WriteTensor, Holds
  <2> QED BY <1>0, <1>3, <2>1, FilesApart DEF WriteTensor, Stay, Goto
<1>4. ASSUME NEW t \in Threads, OpenMeta(t) PROVE Writing'
  <2>1. CASE Throw(t)
    BY <1>0, <1>4, <2>1 DEF Throw, Leave, Goto
  <2>2. CASE Calls[call[t]].meta = "none" /\ Stay(t, "read") /\ UNCHANGED files
    BY <1>0, <1>4, <2>2 DEF OpenMeta, Stay, Goto
  <2>3. CASE Calls[call[t]].meta = "full" /\ Truncate(MetaPath(call[t])) /\ Stay(t, "names")
    BY <1>0, <1>4, <2>3, FilesApart DEF OpenMeta, Truncate, Stay, Goto
  <2> QED BY <1>4, <2>1, <2>2, <2>3 DEF OpenMeta
<1>5. ASSUME NEW t \in Threads, WriteMeta(t) PROVE Writing'
  <2>1. Holds(MetaPath(call[t]), call[t]) = call[t] /\ call[t] \in Described
    BY <1>0, <1>5, FilesApart DEF WriteMeta, Holds
  <2>2. /\ files' = [files EXCEPT ![MetaPath(call[t])] = call[t]] /\ call' = call
        /\ pc' = [pc EXCEPT ![t] = "read"] /\ pc[t] = "names"
    BY <1>5, <2>1 DEF WriteMeta, Stay, Goto
  <2>3. /\ MetaPath(call[t]) \in Paths /\ MetaPath(call[t]) # TensorPath(call[t])
        /\ \A u \in Threads \ {t} : ~Idle(u) =>
             MetaPath(call[t]) \notin {TensorPath(call[u]), MetaPath(call[u])}
    BY <2>2, FilesApart
  <2>4. files' \in [Paths -> Described \cup {Absent, Cut, Mixed}]
    BY <1>0, <2>1, <2>2
  <2>5. \A u \in Threads \ {t} : ~Idle(u) =>
          /\ files'[TensorPath(call[u])] = files[TensorPath(call[u])]
          /\ files'[MetaPath(call[u])] = files[MetaPath(call[u])]
    BY <1>0, <2>2, <2>3, FilesApart
  <2> SUFFICES ASSUME NEW u \in Threads
               PROVE  /\ At(u, "rows")' => files'[TensorPath(call[u])] = Cut
                      /\ pc'[u] \in PastTensor => files'[TensorPath(call[u])] = call[u]
                      /\ At(u, "names")' => /\ files'[MetaPath(call[u])] = Cut
                                            /\ Calls[call[u]].meta = "full"
                      /\ pc'[u] \in PastMeta /\ Calls[call[u]].meta # "none" =>
                           files'[MetaPath(call[u])] = call[u]
      BY <2>2, <2>4
  <2>6. CASE u = t
    BY <1>0, <2>2, <2>3, <2>6
  <2>7. CASE u # t
    BY <1>0, <2>2, <2>5, <2>7
  <2> QED BY <2>6, <2>7
<1>6. ASSUME NEW t \in Threads, ReadConfig(t) \/ OpenConfig(t) \/ WriteConfig(t) PROVE Writing'
  <2>1. PICK label \in {"open", "save", "event"} :
          /\ pc' = [pc EXCEPT ![t] = label] /\ pc[t] \in {"read", "open", "save"}
          /\ files' = files /\ call' = call
    BY <1>6 DEF ReadConfig, OpenConfig, WriteConfig, Stay, Goto
  <2> QED BY <1>0, <2>1
<1>7. ASSUME NEW t \in Threads, CreateEvent(t) PROVE Writing'
  BY <1>0, <1>7 DEF CreateEvent, Leave, Goto
<1>8. CASE Crash
  BY <1>0, <1>8 DEF Crash
<1>9. CASE UNCHANGED vars
  BY <1>0, <1>9 DEF vars, threadVars
<1> QED BY <1>1, <1>2, <1>3, <1>4, <1>5, <1>6, <1>7, <1>8, <1>9 DEF Next, Step, Described

\* Nobody undoes what makes a call finished.
LEMMA FinishedStay ==
  ASSUME ProjectorAssumption, PathsApart, Calling, Writing, [Next]_vars
  PROVE  Finished \subseteq Finished'
<1> SUFFICES ASSUME NEW d \in Finished PROVE d \in Finished'
    OBVIOUS
<1>0. /\ pc \in [Threads -> Labels] /\ call \in [Threads -> Described \cup {NoCall}]
      /\ files \in [Paths -> Described \cup {Absent, Cut, Mixed}]
      /\ d \in started /\ d \in Described
      /\ files[TensorPath(d)] = d
      /\ Calls[d].meta # "none" => files[MetaPath(d)] = d
      /\ \A t \in Threads : ~Idle(t) /\ call[t] = d => pc[t] \in PastMeta
  BY DEF Calling, Writing, Finished
<1> SUFFICES /\ d \in started'
             /\ files'[TensorPath(d)] = d
             /\ Calls[d].meta # "none" => files'[MetaPath(d)] = d
             /\ \A t \in Threads : pc'[t] # "idle" /\ call'[t] = d => pc'[t] \in PastMeta
    BY DEF Finished, Idle, At
<1> USE DEF Idle, At, PastMeta
<1>1. ASSUME NEW t \in Threads, NEW c \in Described, Embedding(t, c)
      PROVE  /\ d \in started' /\ files' = files
             /\ \A u \in Threads : pc'[u] # "idle" /\ call'[u] = d => pc'[u] \in PastMeta
  BY <1>0, <1>1 DEF Embedding, Goto
<1>2. ASSUME NEW t \in Threads, ~Idle(t), pc[t] \notin PastMeta
      PROVE  /\ call[t] \in Described /\ call[t] # d
             /\ TensorPath(call[t]) \notin {TensorPath(d), MetaPath(d)}
             /\ MetaPath(call[t]) \notin {TensorPath(d), MetaPath(d)}
  <2>1. call[t] \in Described /\ call[t] # d
    BY <1>0, <1>2 DEF Calling
  <2> QED BY <1>0, <2>1 DEF PathsApart, Described
<1>3. ASSUME NEW t \in Threads, OpenTensor(t) \/ WriteTensor(t) \/ OpenMeta(t) \/ WriteMeta(t)
      PROVE  /\ files'[TensorPath(d)] = d
             /\ Calls[d].meta # "none" => files'[MetaPath(d)] = d
  <2>1. pc[t] \in {"tensor", "rows", "meta", "names"}
    BY <1>3 DEF OpenTensor, WriteTensor, OpenMeta, WriteMeta
  <2>2. /\ TensorPath(call[t]) \notin {TensorPath(d), MetaPath(d)}
        /\ MetaPath(call[t]) \notin {TensorPath(d), MetaPath(d)}
    BY <1>2, <2>1
  <2>3. files' = files \/ (\E v : files' = [files EXCEPT ![TensorPath(call[t])] = v])
                       \/ (\E v : files' = [files EXCEPT ![MetaPath(call[t])] = v])
    BY <1>3 DEF OpenTensor, WriteTensor, OpenMeta, WriteMeta, Truncate, Throw
  <2>4. TensorPath(d) \in Paths /\ MetaPath(d) \in Paths
    BY <1>0 DEF Paths, Described
  <2> QED BY <1>0, <2>2, <2>3, <2>4
<1>4. ASSUME NEW t \in Threads, ReadConfig(t) \/ OpenConfig(t) \/ WriteConfig(t) \/ CreateEvent(t)
      PROVE  files' = files
  BY <1>4 DEF ReadConfig, OpenConfig, WriteConfig, CreateEvent
<1>5. ASSUME NEW t \in Threads,
             \/ OpenTensor(t) \/ WriteTensor(t) \/ OpenMeta(t) \/ WriteMeta(t)
             \/ ReadConfig(t) \/ OpenConfig(t) \/ WriteConfig(t) \/ CreateEvent(t)
      PROVE  /\ d \in started'
             /\ \A u \in Threads : pc'[u] # "idle" /\ call'[u] = d => pc'[u] \in PastMeta
  <2>1. d \in started'
    BY <1>0, <1>5, StepOfCall
  <2>2. ASSUME NEW u \in Threads \ {t}, pc'[u] # "idle", call'[u] = d PROVE pc'[u] \in PastMeta
    <3>1. pc'[u] = pc[u] /\ call'[u] = call[u]
      BY <1>0, <1>5, StepOfCall DEF Goto, Leave
    <3> QED BY <1>0, <2>2, <3>1
  <2>3. ASSUME pc'[t] # "idle", call'[t] = d PROVE pc'[t] \in PastMeta
    <3>1. call' = call /\ ~Idle(t)
      BY <1>0, <1>5, <2>3, StepOfCall DEF Leave, Goto
    <3>2. pc[t] \in PastMeta
      BY <1>0, <2>3, <3>1
    <3>3. ReadConfig(t) \/ OpenConfig(t) \/ WriteConfig(t) \/ CreateEvent(t)
      BY <1>5, <3>2 DEF OpenTensor, WriteTensor, OpenMeta, WriteMeta
    <3> QED BY <1>0, <2>3, <3>3
            DEF ReadConfig, OpenConfig, WriteConfig, CreateEvent, Stay, Leave, Goto
  <2> QED BY <2>1, <2>2, <2>3
<1>6. CASE Crash
  BY <1>0, <1>6 DEF Crash
<1>7. CASE UNCHANGED vars
  BY <1>0, <1>7 DEF vars, threadVars
<1> QED BY <1>0, <1>1, <1>3, <1>4, <1>5, <1>6, <1>7 DEF Next, Step, Described

\* Writing the config back, over what others have written there, only lists
\* what was read, what is there and the call's own entry.
LEMMA Next_ListsFinished ==
  ASSUME ProjectorAssumption, PathsApart
  PROVE  FilesInv /\ [Next]_vars => ListsFinished'
<1> SUFFICES ASSUME FilesInv, [Next]_vars PROVE ListsFinished'
    OBVIOUS
<1> DEFINE old == {Entry(c) : c \in Finished}
           new == {Entry(c) : c \in Finished'}
<1>0. Calling /\ Writing /\ config \in Seq(old) /\ read \in [Threads -> Seq(old)]
  BY DEF FilesInv, ListsFinished
<1>1. old \subseteq new
  BY <1>0, FinishedStay
<1>2. \A s \in Seq(old) : s \in Seq(new)
  <2> HIDE DEF old, new
  <2> QED BY <1>1, SeqMonotonic
<1>3. config \in Seq(new) /\ read \in [Threads -> Seq(new)]
  <2> HIDE DEF old, new
  <2> QED BY <1>0, <1>2
<1>4. <<>> \in Seq(new)
  <2> HIDE DEF old, new
  <2> QED BY EmptySeq
<1> SUFFICES config' \in Seq(new) /\ read' \in [Threads -> Seq(new)]
    BY DEF ListsFinished, Entry, RelativeTensor, RelativeMeta, TensorPath, MetaPath
<1> HIDE DEF old, new
<1>5. ASSUME NEW t \in Threads, WriteConfig(t) PROVE config' \in Seq(new) /\ read' = read
  <2>1. call[t] \in Finished
    BY <1>0, <1>5 DEF WriteConfig, Finished, Calling, Writing, Idle, At, PastTensor, PastMeta
  <2>2. Entry(call[t]) \in new
    BY <1>1, <2>1 DEF old
  <2> DEFINE entries == WithEntry(read[t], call[t])
             rest == SubSeq(config, Len(entries) + 1, Len(config))
  <2>3. entries \in Seq(new) /\ Len(entries) \in Nat
    BY <1>3, <2>2, AppendProperties, LenProperties DEF WithEntry
  <2>4. rest \in Seq(new)
    <3> HIDE DEF entries
    <3>1. Len(config) \in Nat /\ \A i \in 1..Len(config) : config[i] \in new
      BY <1>3, LenProperties, ElementOfSeq
    <3>2. \A i \in (Len(entries) + 1)..Len(config) : config[i] \in new
      BY <2>3, <3>1
    <3> QED BY <2>3, <3>1, <3>2, SubSeqProperties
  <2>5. config' = entries \o rest /\ read' = read
    BY <1>5 DEF WriteConfig, Stay
  <2> HIDE DEF entries, rest
  <2> QED BY <2>3, <2>4, <2>5, ConcatProperties
<1>6. ASSUME NEW t \in Threads, ReadConfig(t)
      PROVE  config' = config /\ read' = [read EXCEPT ![t] = config]
  BY <1>6 DEF ReadConfig
<1>7. ASSUME NEW t \in Threads,
             \/ OpenTensor(t) \/ WriteTensor(t) \/ OpenMeta(t) \/ WriteMeta(t)
             \/ OpenConfig(t) \/ CreateEvent(t) \/ \E c \in Described : Embedding(t, c)
      PROVE  config' \in {config, <<>>} /\ read' \in {read, [read EXCEPT ![t] = <<>>]}
  BY <1>7 DEF OpenTensor, WriteTensor, OpenMeta, WriteMeta, OpenConfig, CreateEvent, Embedding,
     Stay, Throw, Leave
<1>8. ASSUME Crash PROVE config' = config /\ read' = [t \in Threads |-> <<>>]
  BY <1>8 DEF Crash
<1>9. ASSUME UNCHANGED vars PROVE config' = config /\ read' = read
  BY <1>9 DEF vars, threadVars
<1> QED BY <1>3, <1>4, <1>5, <1>6, <1>7, <1>8, <1>9 DEF Next, Step, Described

LEMMA FilesInvariant ==
  ASSUME ProjectorAssumption, PathsApart
  PROVE  Spec => []FilesInv
<1>1. FilesInv /\ [Next]_vars => FilesInv'
  BY Next_Calling, Next_Writing, Next_ListsFinished DEF FilesInv
<1> QED BY <1>1, Init_Files, PTL DEF Spec

\* Embeddings that keep out of each other's way, in any number of threads, with
\* files that cannot be opened and a process that may end at any instant: an
\* entry of projector_config.pbtxt names complete files of its own embedding.
THEOREM ConfigNamesOwnFiles ==
  ASSUME ProjectorAssumption, PathsApart
  PROVE  Spec => []EntryNamesOwnFiles
<1>1. FilesInv => EntryNamesOwnFiles
  <2> SUFFICES ASSUME FilesInv, NEW e \in ToSet(config)
               PROVE  /\ e.tensor # <<>> => files[Log \o e.tensor] = e.name
                      /\ e.meta # <<>> => files[Log \o e.meta] = e.name
      BY DEF EntryNamesOwnFiles, EntryNamesOwnData, EntryNamesOwnMeta
  <2>1. config \in Seq({Entry(c) : c \in Finished})
    BY DEF FilesInv, ListsFinished
  <2>2. e \in {Entry(c) : c \in Finished}
    BY <2>1, LenProperties, ElementOfSeq DEF ToSet
  <2>3. PICK c \in Finished : e = Entry(c)
    BY <2>2
  <2>4. /\ c \in Described /\ files[TensorPath(c)] = c
        /\ Calls[c].meta # "none" => files[MetaPath(c)] = c
    BY DEF FilesInv, Finished, Calling
  <2>5. e.name = c /\ e.tensor = RelativeTensor(c) /\ e.meta = RelativeMeta(c)
    BY <2>3 DEF Entry
  <2> QED BY <2>4, <2>5 DEF PathsApart, Described
<1> QED BY <1>1, FilesInvariant, PTL

-------------------------------------------------------------------------------
\* Calls one after the other: a call opens the config to write back what it has
\* just read of it, and finds it as it has left it.
Entered == Seq({Entry(c) : c \in Described})

Serial ==
  /\ config \in Entered /\ read \in [Threads -> Entered] /\ crashes = 0
  /\ \A t \in Threads :
       /\ At(t, "open") => read[t] = config
       /\ At(t, "save") => config = <<>>

\* Where in a call the entries are of which calls.
Named(s) == {e.name : e \in ToSet(s)}

AllListed ==
  /\ \A t \in Threads :
       /\ At(t, "save") => Named(read[t]) = returned
       /\ At(t, "event") => Named(config) = returned \cup {call[t]}
       /\ pc[t] \notin {"save", "event"} => Named(config) = returned
  /\ Quiet => Named(config) = returned

SerialInv == Calling /\ Serial /\ AllListed

LEMMA NamedAppend ==
  ASSUME NEW s \in Entered, NEW c \in Described
  PROVE  Named(WithEntry(s, c)) = Named(s) \cup {c} /\ WithEntry(s, c) \in Entered
<1>1. /\ WithEntry(s, c) \in Entered
      /\ Len(WithEntry(s, c)) = Len(s) + 1 /\ Len(s) \in Nat
      /\ \A i \in 1..Len(s) : WithEntry(s, c)[i] = s[i]
      /\ WithEntry(s, c)[Len(s) + 1] = Entry(c)
  <2>1. Entry(c) \in {Entry(d) : d \in Described}
    OBVIOUS
  <2> QED BY <2>1, AppendProperties, LenProperties DEF WithEntry, Entered
<1>2. /\ DOMAIN s = 1..Len(s)
      /\ DOMAIN WithEntry(s, c) = 1..(Len(s) + 1)
  BY <1>1, LenProperties DEF Entered
<1>3. ToSet(WithEntry(s, c)) = ToSet(s) \cup {Entry(c)}
  BY <1>1, <1>2 DEF ToSet
<1>4. Entry(c).name = c
  BY DEF Entry
<1> QED BY <1>1, <1>3, <1>4 DEF Named

LEMMA Init_Serial == Init => SerialInv
<1> SUFFICES ASSUME Init PROVE SerialInv
    OBVIOUS
<1>1. Calling
  BY DEF Init, Calling, Labels, Idle, At
<1>2. <<>> \in Entered /\ Named(<<>>) = {}
  BY EmptySeq DEF Entered, Named, ToSet
<1>3. Serial /\ AllListed
  BY <1>2 DEF Init, Serial, AllListed, At
<1> QED BY <1>1, <1>3 DEF SerialInv

\* What the writing of the config leaves in it.
LEMMA ConfigWritten ==
  ASSUME SerialInv, NEW t \in Threads, WriteConfig(t)
  PROVE  /\ call[t] \in Described /\ read[t] \in Entered
         /\ config' = WithEntry(read[t], call[t])
<1>1. /\ call[t] \in Described /\ read[t] \in Entered /\ config = <<>>
  BY DEF SerialInv, Calling, Serial, WriteConfig, Idle, At
<1> DEFINE entries == WithEntry(read[t], call[t])
<1>2. entries \in Entered
  BY <1>1, NamedAppend
<1> HIDE DEF entries
<1>3. Len(entries) \in Nat /\ Len(config) = 0
  BY <1>1, <1>2, LenProperties, EmptySeq DEF Entered
<1>4. SubSeq(config, Len(entries) + 1, Len(config)) = <<>>
  BY <1>1, <1>3, SubSeqEmpty, EmptySeq
<1>5. entries \o <<>> = entries
  BY <1>2, ConcatEmptySeq DEF Entered
<1>6. config' = entries \o SubSeq(config, Len(entries) + 1, Len(config))
  BY DEF WriteConfig, entries
<1> QED BY <1>1, <1>4, <1>5, <1>6 DEF entries

LEMMA Next_Serial ==
  ASSUME ProjectorAssumption, OneAtATime, "config" \notin Fails
  PROVE  SerialInv /\ [Next]_vars => SerialInv'
<1> SUFFICES ASSUME SerialInv, [Next]_vars PROVE (Serial /\ AllListed)'
    BY Next_Calling DEF SerialInv
<1>0. /\ pc \in [Threads -> Labels] /\ call \in [Threads -> Described \cup {NoCall}]
      /\ config \in Entered /\ read \in [Threads -> Entered] /\ <<>> \in Entered
      /\ \A t, u \in Threads : t = u
  BY EmptySeq DEF SerialInv, Calling, Serial, OneAtATime, Entered
<1> USE DEF SerialInv, Serial, AllListed, Quiet, At
<1>1. ASSUME NEW t \in Threads, NEW c \in Described, Embedding(t, c) PROVE (Serial /\ AllListed)'
  BY <1>0, <1>1 DEF Embedding, Goto
<1>2. ASSUME NEW t \in Threads, OpenTensor(t) \/ WriteTensor(t) \/ OpenMeta(t) \/ WriteMeta(t)
      PROVE  (Serial /\ AllListed)'
  BY <1>0, <1>2 DEF OpenTensor, WriteTensor, OpenMeta, WriteMeta, Stay, Throw, Leave, Goto
<1>3. ASSUME NEW t \in Threads, ReadConfig(t) PROVE (Serial /\ AllListed)'
  BY <1>0, <1>3 DEF ReadConfig, Goto
<1>4. ASSUME NEW t \in Threads, OpenConfig(t) PROVE (Serial /\ AllListed)'
  BY <1>0, <1>4 DEF OpenConfig, Stay, Goto
<1>5. ASSUME NEW t \in Threads, WriteConfig(t) PROVE (Serial /\ AllListed)'
  <2>1. /\ config' \in Entered
        /\ Named(config') = Named(read[t]) \cup {call[t]}
    BY <1>5, ConfigWritten, NamedAppend
  <2> QED BY <1>0, <1>5, <2>1 DEF WriteConfig, Stay, Goto
<1>6. ASSUME NEW t \in Threads, CreateEvent(t) PROVE (Serial /\ AllListed)'
  BY <1>0, <1>6 DEF CreateEvent, Leave, Goto
<1>7. ~Crash
  BY DEF Crash, OneAtATime
<1>8. CASE UNCHANGED vars
  BY <1>0, <1>8 DEF vars, threadVars
<1> QED BY <1>1, <1>2, <1>3, <1>4, <1>5, <1>6, <1>7, <1>8 DEF Next, Step, Described

LEMMA SerialInvariant ==
  ASSUME ProjectorAssumption, OneAtATime, "config" \notin Fails
  PROVE  Spec => []SerialInv
<1> QED BY Init_Serial, Next_Serial, PTL DEF Spec

\* Calls one after the other, with a config that can be opened: whatever else
\* fails, the config lists the calls that returned and no others.
THEOREM ConfigListsReturned ==
  ASSUME ProjectorAssumption, OneAtATime, "config" \notin Fails
  PROVE  Spec => []ReturnedListed
<1>1. SerialInv => ReturnedListed
  BY DEF SerialInv, AllListed, ReturnedListed, Listed, Named
<1> QED BY <1>1, SerialInvariant, PTL

\* The entries a call goes on to write back are those it has read, and it puts
\* its own behind them.
LEMMA SerialEntries ==
  ASSUME SerialInv, OneAtATime
  PROVE  /\ Entries \in Entered
         /\ \A t \in Threads : Entries = IF At(t, "save") THEN read[t] ELSE config
<1>1. ASSUME NEW t \in Threads
      PROVE  Entries = IF At(t, "save") THEN read[t] ELSE config
  BY DEF Entries, OneAtATime
<1>2. Threads = {} => Entries = config
  BY DEF Entries
<1> QED BY <1>1, <1>2 DEF SerialInv, Serial

LEMMA PrefixOfWritten ==
  ASSUME NEW s \in Entered, NEW c \in Described
  PROVE  IsPrefix(s, s) /\ IsPrefix(s, WithEntry(s, c))
<1>1. Len(s) \in Nat /\ DOMAIN s = 1..Len(s)
  BY LenProperties DEF Entered
<1>2. /\ WithEntry(s, c) \in Entered
      /\ Len(WithEntry(s, c)) = Len(s) + 1
      /\ \A i \in 1..Len(s) : WithEntry(s, c)[i] = s[i]
  <2>1. Entry(c) \in {Entry(d) : d \in Described}
    OBVIOUS
  <2> QED BY <2>1, AppendProperties DEF WithEntry, Entered
<1> DEFINE w == WithEntry(s, c)
<1> HIDE DEF w
<1>3. /\ w \in Entered /\ Len(w) = Len(s) + 1 /\ \A i \in 1..Len(s) : w[i] = s[i]
  BY <1>2 DEF w
<1>4. SubSeq(s, 1, Len(s)) = SubSeq(w, 1, Len(s))
  BY <1>1, <1>3
<1>5. Len(s) <= Len(s) /\ Len(s) <= Len(w)
  BY <1>1, <1>3
<1>6. IsPrefix(s, w)
  BY <1>4, <1>5 DEF IsPrefix
<1> QED BY <1>5, <1>6 DEF IsPrefix, w

\* A step of a call, the only one, changes the entries by adding to them.
LEMMA StepKeepsEntries ==
  ASSUME SerialInv, SerialInv', OneAtATime, [Next]_vars PROVE EntriesKept
<1>0. Entries \in Entered /\ IsPrefix(Entries, Entries)
  <2> SUFFICES ASSUME Entries \in Entered PROVE IsPrefix(Entries, Entries)
      BY SerialEntries
  <2>1. Len(Entries) <= Len(Entries)
    BY LenProperties DEF Entered
  <2> QED BY <2>1 DEF IsPrefix
<1>1. ASSUME Entries' = Entries PROVE EntriesKept
  BY <1>0, <1>1 DEF EntriesKept
<1>2. CASE UNCHANGED vars
  BY <1>1, <1>2 DEF vars, threadVars, Entries, At
<1>3. ASSUME NEW t \in Threads, Step(t) PROVE EntriesKept
  <2>0. /\ pc \in [Threads -> Labels] /\ read \in [Threads -> Entered]
        /\ At(t, "open") => read[t] = config
    BY DEF SerialInv, Calling, Serial
  <2>1. /\ Entries = IF pc[t] = "save" THEN read[t] ELSE config
        /\ Entries' = IF pc'[t] = "save" THEN read'[t] ELSE config'
    <3>1. (Entries = IF pc[t] = "save" THEN read[t] ELSE config)
      BY SerialEntries DEF At
    <3>2. (Entries = IF pc[t] = "save" THEN read[t] ELSE config)'
      <4>1. \A u \in Threads : u = t
        BY DEF OneAtATime
      <4> QED BY <4>1 DEF Entries, At
    <3> QED BY <3>1, <3>2
  <2>2. ASSUME ~WriteConfig(t) PROVE Entries' = Entries
    <3> USE DEF At, Goto, Stay, Throw, Leave
    <3>1. CASE \E c \in DOMAIN Calls : Embedding(t, c)
      BY <2>0, <2>1, <3>1 DEF Embedding
    <3>2. CASE OpenTensor(t) \/ WriteTensor(t) \/ OpenMeta(t) \/ WriteMeta(t)
      BY <2>0, <2>1, <3>2 DEF OpenTensor, WriteTensor, OpenMeta, WriteMeta
    <3>3. CASE ReadConfig(t) \/ OpenConfig(t)
      BY <2>0, <2>1, <3>3 DEF ReadConfig, OpenConfig
    <3>4. CASE CreateEvent(t)
      BY <2>0, <2>1, <3>4 DEF CreateEvent
    <3> QED BY <1>3, <2>2, <3>1, <3>2, <3>3, <3>4 DEF Step
  <2>3. CASE WriteConfig(t)
    <3>1. /\ call[t] \in Described /\ read[t] \in Entered
          /\ config' = WithEntry(read[t], call[t])
      BY <2>3, ConfigWritten
    <3>2. Entries = read[t] /\ Entries' = config'
      BY <2>0, <2>1, <2>3 DEF WriteConfig, Stay, Goto, At
    <3> QED BY <3>1, <3>2, PrefixOfWritten DEF EntriesKept
  <2> QED BY <1>1, <2>2, <2>3
<1>4. ~Crash
  BY DEF Crash, OneAtATime, SerialInv, Serial
<1> QED BY <1>2, <1>3, <1>4 DEF Next

\* Calls one after the other, with a config that can be opened: each leaves the
\* entries of the earlier ones in their places.
THEOREM ConfigAppended ==
  ASSUME ProjectorAssumption, OneAtATime, "config" \notin Fails
  PROVE  Spec => EntriesAppended
<1>1. SerialInv /\ SerialInv' /\ [Next]_vars => [EntriesKept]_Entries
  BY StepKeepsEntries
<1> QED BY <1>1, SerialInvariant, PTL DEF Spec, EntriesAppended
===============================================================================
