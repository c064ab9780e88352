------------------------------- MODULE ImageStore ------------------------------
(***************************************************************************)
(* SummaryWriter::Image for a matrix.  The columns are saved as the files  *)
(* 0.png, 1.png, ... of the directory _preprocess_, read back in encoded   *)
(* form, logged, and removed.  All calls of a process share the directory, *)
(* and the destructor of every FileWriter tries to remove it.              *)
(*                                                                         *)
(* An image is known by the call it belongs to and its column.             *)
(***************************************************************************)
EXTENDS Naturals, FiniteSets, Sequences

CONSTANTS Threads,      \* threads that log images
          Sizes,        \* how many columns a matrix may have
          SaveFails,    \* whether data::Save may fail for lack of space
          MaxCalls,     \* bound: calls of Image
          MaxDestroyed  \* bound: FileWriters destroyed

ImageAssumption ==
  /\ Sizes \subseteq Nat /\ SaveFails \in BOOLEAN
  /\ MaxCalls \in Nat /\ MaxDestroyed \in Nat

VARIABLES pc, call, size, col,   \* of each thread: its call, matrix and loop
          encoded,               \* of each thread: encodedImages
          saved,                 \* of each thread: what data::Save returned
          dir,                   \* _preprocess_ exists
          png,                   \* the files in it: column -> image
          events,                \* the summaries logged
          calls, destroyed

locals == <<pc, call, size, col, encoded, saved>>
vars == <<locals, dir, png, events, calls, destroyed>>

Missing == <<>>    \* what reading a file that does not exist returns

Init ==
  /\ pc = [t \in Threads |-> "idle"] /\ call = [t \in Threads |-> 0]
  /\ size = [t \in Threads |-> 0] /\ col = [t \in Threads |-> 0]
  /\ encoded = [t \in Threads |-> <<>>] /\ saved = [t \in Threads |-> TRUE]
  /\ dir = FALSE /\ png = <<>> /\ events = {} /\ calls = 0 /\ destroyed = 0

-------------------------------------------------------------------------------
At(t, label) == pc[t] = label

\* A loop over the columns: its next round, or the next statement.
Loop(t, label, exit) ==
  IF col[t] + 1 < size[t]
  THEN pc' = [pc EXCEPT ![t] = label] /\ col' = [col EXCEPT ![t] = @ + 1]
  ELSE pc' = [pc EXCEPT ![t] = exit] /\ col' = [col EXCEPT ![t] = 0]

Enter(t, n, label, exit) == pc' = [pc EXCEPT ![t] = IF n = 0 THEN exit ELSE label]

\* mkdir, whose result is not looked at, and the file names.
Image(t) ==
  /\ At(t, "idle") /\ calls < MaxCalls
  /\ \E n \in Sizes : size' = [size EXCEPT ![t] = n] /\ Enter(t, n, "save", "log")
  /\ calls' = calls + 1 /\ call' = [call EXCEPT ![t] = calls + 1]
  /\ dir' = TRUE
  /\ encoded' = [encoded EXCEPT ![t] = <<>>] /\ saved' = [saved EXCEPT ![t] = TRUE]
  /\ UNCHANGED <<col, png, events, destroyed>>

\* data::Save writes one file per column and goes on when one fails.
Put(c, image) == [d \in DOMAIN png \cup {c} |-> IF d = c THEN image ELSE png[d]]

Save(t) ==
  /\ At(t, "save")
  /\ \/ /\ dir
        /\ png' = Put(col[t], <<call[t], col[t]>>) /\ UNCHANGED saved
     \/ /\ ~dir \/ SaveFails
        /\ saved' = [saved EXCEPT ![t] = FALSE] /\ UNCHANGED png
  /\ Loop(t, "save", "encode")
  /\ UNCHANGED <<call, size, encoded, dir, events, calls, destroyed>>

\* EncodeImage.
Content(c) == IF c \in DOMAIN png THEN png[c] ELSE Missing

EncodeImage(t) ==
  /\ At(t, "encode")
  /\ encoded' = [encoded EXCEPT ![t] = Append(@, Content(col[t]))]
  /\ Loop(t, "encode", "log")
  /\ UNCHANGED <<call, size, saved, dir, png, events, calls, destroyed>>

CreateEvent(t) ==
  /\ At(t, "log")
  /\ events' = events \cup {[call |-> call[t], images |-> encoded[t], saved |-> saved[t]]}
  /\ Enter(t, size[t], "remove", "idle")
  /\ UNCHANGED <<call, size, col, encoded, saved, dir, png, calls, destroyed>>

\* Slip: the first file stays.
RemoveButFirst(t) ==
  /\ At(t, "remove")
  /\ png' = [c \in DOMAIN png \ ({col[t]} \ {0}) |-> png[c]]
  /\ Loop(t, "remove", "idle")
  /\ UNCHANGED <<call, size, encoded, saved, dir, events, calls, destroyed>>

Remove(t) ==
  /\ At(t, "remove")
  /\ png' = [c \in DOMAIN png \ {col[t]} |-> png[c]]
  /\ Loop(t, "remove", "idle")
  /\ UNCHANGED <<call, size, encoded, saved, dir, events, calls, destroyed>>

\* The end of ~FileWriter: rmdir fails on a directory that is not empty.
Destroy ==
  /\ destroyed < MaxDestroyed /\ destroyed' = destroyed + 1
  /\ dir' = (dir /\ DOMAIN png # {})
  /\ UNCHANGED <<locals, png, events, calls>>

Next ==
  \/ \E t \in Threads : Image(t) \/ Save(t) \/ EncodeImage(t) \/ CreateEvent(t) \/ Remove(t)
  \/ Destroy

Spec == Init /\ [][Next]_vars

-------------------------------------------------------------------------------
Own(e, i) == e.images[i] = <<e.call, i - 1>>

\* Image, called by one thread at a time: it logs the images of its matrix.  If
\* data::Save fails, which nobody checks, images are missing, but never are
\* those of an earlier call logged in their place.
OwnImages ==
  \A e \in events : \A i \in DOMAIN e.images :
    Own(e, i) \/ (~e.saved /\ e.images[i] = Missing)

\* Image, called by any number of threads while FileWriters are destroyed:
\* whatever they do to each other's files, none is left when all are done.
NothingLeft == (\A t \in Threads : At(t, "idle")) => DOMAIN png = {}
===============================================================================
