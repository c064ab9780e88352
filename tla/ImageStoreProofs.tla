----------------------------- MODULE ImageStoreProofs -----------------------------
(***************************************************************************)
(* Image, for every set of threads and every size of a matrix.  However    *)
(* many threads mix up their files, each file is one that a call is yet to *)
(* remove; and one thread, whatever fails, logs images of its own.         *)
(***************************************************************************)
EXTENDS ImageStore, SequenceTheorems, TLAPS

Labels == {"idle", "save", "encode", "log", "remove"}
Loops == {"save", "encode", "remove"}
Contents == {Missing} \cup (Nat \X Nat)

\* Where each thread's loop over the columns is.
Columns ==
  /\ pc \in [Threads -> Labels] /\ call \in [Threads -> Nat]
  /\ size \in [Threads -> Nat] /\ col \in [Threads -> Nat]
  /\ encoded \in [Threads -> Seq(Contents)] /\ saved \in [Threads -> BOOLEAN]
  /\ calls \in Nat /\ \A c \in DOMAIN png : png[c] \in Nat \X Nat
  /\ \A t \in Threads :
       IF pc[t] \in Loops THEN col[t] < size[t] ELSE col[t] = 0

\* The files a call has still to remove, if they exist.
Pending(t) ==
  {c \in Nat : /\ pc[t] \in {"save", "encode", "log", "remove"} /\ c < size[t]
               /\ pc[t] = "remove" => col[t] <= c}

\* Every file is one of them.
EachPending == DOMAIN png \subseteq UNION {Pending(t) : t \in Threads}

-------------------------------------------------------------------------------
LEMMA Init_Images == Init => Columns /\ EachPending
<1> SUFFICES ASSUME Init PROVE Columns /\ EachPending
    OBVIOUS
<1>1. <<>> \in Seq(Contents) /\ DOMAIN <<>> = {}
  BY EmptySeq
<1>2. Columns
  BY <1>1 DEF Init, Columns, Labels, Loops
<1>3. EachPending
  BY <1>1 DEF Init, EachPending
<1> QED BY <1>2, <1>3

\* A round of a loop over the columns, which is its last or not.
LEMMA LoopRound ==
  ASSUME Columns, NEW t \in Threads, NEW label \in Loops, NEW exit \in Labels,
         pc[t] = label, Loop(t, label, exit)
  PROVE  /\ pc' \in [Threads -> Labels] /\ col' \in [Threads -> Nat]
         /\ \A u \in Threads \ {t} : pc'[u] = pc[u] /\ col'[u] = col[u]
         /\ size[t] \in Nat /\ col[t] \in 0..(size[t] - 1)
         /\ \/ pc'[t] = label /\ col'[t] = col[t] + 1 /\ col[t] + 1 < size[t]
            \/ pc'[t] = exit /\ col'[t] = 0 /\ col[t] + 1 = size[t]
<1>1. /\ size[t] \in Nat /\ col[t] \in Nat /\ col[t] < size[t] /\ label \in Labels
      /\ pc \in [Threads -> Labels] /\ col \in [Threads -> Nat]
  BY DEF Columns, Loops, Labels
<1>2. CASE col[t] + 1 < size[t]
  BY <1>1, <1>2 DEF Loop
<1>3. CASE ~(col[t] + 1 < size[t])
  BY <1>1, <1>3 DEF Loop
<1> QED BY <1>2, <1>3

LEMMA Next_Columns ==
  ASSUME ImageAssumption PROVE Columns /\ [Next]_vars => Columns'
<1> SUFFICES ASSUME Columns, [Next]_vars PROVE Columns'
    OBVIOUS
<1> USE DEF Columns, Labels, Loops, At
<1>1. ASSUME NEW t \in Threads, Image(t) PROVE Columns'
  <2>1. PICK n \in Nat : size' = [size EXCEPT ![t] = n] /\ Enter(t, n, "save", "log")
    BY <1>1 DEF Image, ImageAssumption
  <2>2. <<>> \in Seq(Contents)
    BY EmptySeq
  <2> QED BY <1>1, <2>1, <2>2 DEF Image, Enter
<1>2. ASSUME NEW t \in Threads, Save(t) PROVE Columns'
  <2>1. \A c \in DOMAIN png' : png'[c] \in Nat \X Nat
    BY <1>2 DEF Save, Put
  <2>2. saved' \in [Threads -> BOOLEAN]
    BY <1>2 DEF Save
  <2>3. Loop(t, "save", "encode") /\ pc[t] = "save"
    BY <1>2 DEF Save
  <2>4. /\ pc' \in [Threads -> Labels] /\ col' \in [Threads -> Nat]
        /\ \A u \in Threads \ {t} : pc'[u] = pc[u] /\ col'[u] = col[u]
        /\ pc'[t] \in Loops /\ col'[t] < size[t]
    BY <2>3, LoopRound
  <2> QED BY <1>2, <2>1, <2>2, <2>4 DEF Save
<1>3. ASSUME NEW t \in Threads, EncodeImage(t) PROVE Columns'
  <2>1. Content(col[t]) \in Contents
    BY DEF Content, Contents
  <2>2. Append(encoded[t], Content(col[t])) \in Seq(Contents)
    BY <2>1, AppendProperties
  <2>3. encoded' \in [Threads -> Seq(Contents)]
    BY <1>3, <2>2 DEF EncodeImage
  <2>4. Loop(t, "encode", "log") /\ pc[t] = "encode"
    BY <1>3 DEF EncodeImage
  <2>5. /\ pc' \in [Threads -> Labels] /\ col' \in [Threads -> Nat]
        /\ \A u \in Threads \ {t} : pc'[u] = pc[u] /\ col'[u] = col[u]
        /\ IF pc'[t] \in Loops THEN col'[t] < size[t] ELSE col'[t] = 0
    BY <2>4, LoopRound
  <2> QED BY <1>3, <2>3, <2>5 DEF EncodeImage
<1>4. ASSUME NEW t \in Threads, CreateEvent(t) PROVE Columns'
  BY <1>4 DEF CreateEvent, Enter
<1>5. ASSUME NEW t \in Threads, Remove(t) PROVE Columns'
  <2>1. \A c \in DOMAIN png' : png'[c] \in Nat \X Nat
    BY <1>5 DEF Remove
  <2>2. Loop(t, "remove", "idle") /\ pc[t] = "remove"
    BY <1>5 DEF Remove
  <2>3. /\ pc' \in [Threads -> Labels] /\ col' \in [Threads -> Nat]
        /\ \A u \in Threads \ {t} : pc'[u] = pc[u] /\ col'[u] = col[u]
        /\ IF pc'[t] \in Loops THEN col'[t] < size[t] ELSE col'[t] = 0
    BY <2>2, LoopRound
  <2> QED BY <1>5, <2>1, <2>3 DEF Remove
<1>6. CASE Destroy \/ UNCHANGED vars
  BY <1>6 DEF Destroy, vars, locals
<1> QED BY <1>1, <1>2, <1>3, <1>4, <1>5, <1>6 DEF Next

\* A file that is written is pending for the call that writes it, and a call
\* that goes on has removed what is no longer pending for it.
LEMMA Next_EachPending ==
  ASSUME ImageAssumption PROVE Columns /\ EachPending /\ [Next]_vars => EachPending'
<1> SUFFICES ASSUME Columns, EachPending, [Next]_vars, NEW c \in DOMAIN png'
             PROVE  \E u \in Threads : c \in Pending(u)'
    BY DEF EachPending
<1>0. /\ pc \in [Threads -> Labels] /\ size \in [Threads -> Nat] /\ col \in [Threads -> Nat]
  BY DEF Columns
\* The thread for which the file is pending before the step.
<1>1. ASSUME NEW u \in Threads, c \in Pending(u),
             pc'[u] = pc[u], size'[u] = size[u], col'[u] = col[u]
      PROVE  c \in Pending(u)'
  BY <1>1 DEF Pending
<1>2. ASSUME c \in DOMAIN png PROVE \E u \in Threads : c \in Pending(u)
  BY <1>2 DEF EachPending
<1>3. ASSUME NEW t \in Threads, Image(t) PROVE \E u \in Threads : c \in Pending(u)'
  <2>1. PICK u \in Threads : c \in Pending(u)
    BY <1>2, <1>3 DEF Image
  <2>2. u # t
    BY <1>3, <2>1 DEF Image, At, Pending
  <2>3. pc'[u] = pc[u] /\ size'[u] = size[u] /\ col'[u] = col[u]
    BY <1>0, <1>3, <2>2 DEF Image, Enter
  <2> QED BY <1>1, <2>1, <2>3
<1>4. ASSUME NEW t \in Threads, Save(t) PROVE \E u \in Threads : c \in Pending(u)'
  <2>1. pc[t] = "save" /\ Loop(t, "save", "encode") /\ size' = size
    BY <1>4 DEF Save, At
  <2>2. /\ \A u \in Threads \ {t} : pc'[u] = pc[u] /\ col'[u] = col[u]
        /\ col[t] \in 0..(size[t] - 1) /\ pc'[t] \in {"save", "encode"}
    BY <2>1, LoopRound DEF Loops, Labels
  <2>3. CASE c = col[t]
    BY <1>0, <2>1, <2>2, <2>3 DEF Pending
  <2>4. CASE c # col[t]
    <3>1. c \in DOMAIN png
      BY <1>4, <2>4 DEF Save, Put
    <3>2. PICK u \in Threads : c \in Pending(u)
      BY <1>2, <3>1
    <3>3. CASE u = t
      BY <2>1, <2>2, <3>2, <3>3 DEF Pending
    <3>4. CASE u # t
      BY <1>1, <2>1, <2>2, <3>2, <3>4
    <3> QED BY <3>3, <3>4
  <2> QED BY <2>3, <2>4
<1>5. ASSUME NEW t \in Threads, EncodeImage(t) PROVE \E u \in Threads : c \in Pending(u)'
  <2>1. pc[t] = "encode" /\ Loop(t, "encode", "log") /\ size' = size
    BY <1>5 DEF EncodeImage, At
  <2>2. /\ \A u \in Threads \ {t} : pc'[u] = pc[u] /\ col'[u] = col[u]
        /\ pc'[t] \in {"encode", "log"}
    BY <2>1, LoopRound DEF Loops, Labels
  <2>3. PICK u \in Threads : c \in Pending(u)
    BY <1>2, <1>5 DEF EncodeImage
  <2>4. CASE u = t
    BY <2>1, <2>2, <2>3, <2>4 DEF Pending
  <2>5. CASE u # t
    BY <1>1, <2>1, <2>2, <2>3, <2>5
  <2> QED BY <2>4, <2>5
<1>6. ASSUME NEW t \in Threads, CreateEvent(t) PROVE \E u \in Threads : c \in Pending(u)'
  <2>1. PICK u \in Threads : c \in Pending(u)
    BY <1>2, <1>6 DEF CreateEvent
  <2>2. CASE u = t
    <3>1. c \in Nat /\ c < size[t] /\ size[t] \in Nat
      BY <1>0, <2>1, <2>2 DEF Pending
    <3>2. col[t] = 0
      BY <1>6 DEF Columns, CreateEvent, At, Loops
    <3> QED BY <1>0, <1>6, <3>1, <3>2 DEF Pending, CreateEvent, Enter
  <2>3. CASE u # t
    BY <1>0, <1>1, <1>6, <2>1, <2>3 DEF CreateEvent, Enter
  <2> QED BY <2>2, <2>3
<1>7. ASSUME NEW t \in Threads, Remove(t) PROVE \E u \in Threads : c \in Pending(u)'
  <2>1. pc[t] = "remove" /\ Loop(t, "remove", "idle") /\ size' = size
    BY <1>7 DEF Remove, At
  <2>2. c \in DOMAIN png /\ c # col[t]
    BY <1>7 DEF Remove
  <2>3. PICK u \in Threads : c \in Pending(u)
    BY <1>2, <2>2
  <2>4. /\ \A v \in Threads \ {t} : pc'[v] = pc[v] /\ col'[v] = col[v]
        /\ size[t] \in Nat /\ col[t] \in 0..(size[t] - 1)
        /\ \/ pc'[t] = "remove" /\ col'[t] = col[t] + 1
           \/ col[t] + 1 = size[t]
    BY <2>1, LoopRound DEF Loops, Labels
  <2>5. CASE u = t
    BY <2>1, <2>2, <2>3, <2>4, <2>5 DEF Pending
  <2>6. CASE u # t
    BY <1>1, <2>1, <2>3, <2>4, <2>6
  <2> QED BY <2>5, <2>6
<1>8. CASE Destroy \/ UNCHANGED vars
  <2>1. PICK u \in Threads : c \in Pending(u)
    BY <1>2, <1>8 DEF Destroy, vars
  <2> QED BY <1>1, <1>8, <2>1 DEF Destroy, vars, locals
<1> QED BY <1>3, <1>4, <1>5, <1>6, <1>7, <1>8 DEF Next

\* Image, called by any number of threads, for matrices of any size, while
\* FileWriters are destroyed: no file is left once all calls are over.
THEOREM ImagesRemoved == ASSUME ImageAssumption PROVE Spec => []NothingLeft
<1>1. Columns /\ EachPending /\ [Next]_vars => (Columns /\ EachPending)'
  BY Next_Columns, Next_EachPending
<1>2. Columns /\ EachPending => NothingLeft
  BY DEF EachPending, NothingLeft, Pending, At
<1> QED BY <1>1, <1>2, Init_Images, PTL DEF Spec
-------------------------------------------------------------------------------
\* What one thread finds in its files: the images of its call, all of them as
\* long as every Save has succeeded.
OneThread == \A t, u \in Threads : t = u

OwnImage(t, i) ==
  encoded[t][i] = <<call[t], i - 1>> \/ (~saved[t] /\ encoded[t][i] = Missing)

OwnFiles ==
  /\ \A t \in Threads :
       /\ \A c \in DOMAIN png : png[c] = <<call[t], c>>
       /\ At(t, "save") /\ saved[t] => \A c \in Nat : c < col[t] => c \in DOMAIN png
       /\ At(t, "encode") /\ saved[t] => \A c \in Nat : c < size[t] => c \in DOMAIN png
       /\ At(t, "save") => encoded[t] = <<>>
       /\ At(t, "encode") => Len(encoded[t]) = col[t]
       /\ \A i \in DOMAIN encoded[t] : OwnImage(t, i)
  /\ OwnImages

ImagesInv == Columns /\ EachPending /\ OwnFiles

LEMMA Init_OwnFiles == Init => OwnFiles
<1>1. DOMAIN <<>> = {}
  BY EmptySeq
<1> QED BY <1>1 DEF Init, OwnFiles, OwnImages, OwnImage, At

\* The images as far as they are encoded, and one more.
LEMMA EncodeNext ==
  ASSUME Columns, OwnFiles, NEW t \in Threads, EncodeImage(t)
  PROVE  /\ encoded'[t] = Append(encoded[t], Content(col[t]))
         /\ Len(encoded'[t]) = col[t] + 1
         /\ \A i \in DOMAIN encoded'[t] : OwnImage(t, i)'
<1>1. /\ encoded[t] \in Seq(Contents) /\ Content(col[t]) \in Contents
      /\ col[t] \in Nat /\ size[t] \in Nat /\ col[t] < size[t]
      /\ Len(encoded[t]) = col[t]
      /\ \A i \in DOMAIN encoded[t] : OwnImage(t, i)
  BY DEF Columns, OwnFiles, EncodeImage, At, Loops, Content, Contents
<1>2. encoded'[t] = Append(encoded[t], Content(col[t])) /\ call' = call /\ saved' = saved
  BY DEF EncodeImage, Columns
<1>3. /\ Len(encoded'[t]) = col[t] + 1 /\ DOMAIN encoded'[t] = 1..(col[t] + 1)
      /\ DOMAIN encoded[t] = 1..col[t]
      /\ \A i \in 1..col[t] : encoded'[t][i] = encoded[t][i]
      /\ encoded'[t][col[t] + 1] = Content(col[t])
  <2>1. encoded'[t] \in Seq(Contents)
    BY <1>1, <1>2, AppendProperties
  <2> QED BY <1>1, <1>2, <2>1, AppendProperties, LenProperties
<1>4. Content(col[t]) = <<call[t], col[t]>> \/ (~saved[t] /\ Content(col[t]) = Missing)
  BY <1>1 DEF OwnFiles, EncodeImage, At, Content
<1>5. ASSUME NEW i \in 1..(col[t] + 1) PROVE OwnImage(t, i)'
  <2>1. CASE i \in 1..col[t]
    BY <1>1, <1>2, <1>3, <2>1 DEF OwnImage
  <2>2. CASE i = col[t] + 1
    <3>1. i - 1 = col[t]
      BY <1>1, <2>2
    <3> QED BY <1>2, <1>3, <1>4, <2>2, <3>1 DEF OwnImage
  <2> QED BY <1>1, <2>1, <2>2
<1> QED BY <1>2, <1>3, <1>5

LEMMA Next_OwnFiles ==
  ASSUME ImageAssumption, OneThread PROVE ImagesInv /\ [Next]_vars => OwnFiles'
<1> SUFFICES ASSUME ImagesInv, [Next]_vars PROVE OwnFiles'
    OBVIOUS
<1>0. /\ pc \in [Threads -> Labels] /\ call \in [Threads -> Nat] /\ size \in [Threads -> Nat]
      /\ col \in [Threads -> Nat] /\ encoded \in [Threads -> Seq(Contents)]
      /\ saved \in [Threads -> BOOLEAN]
      /\ \A t, u \in Threads : t = u
  BY DEF ImagesInv, Columns, OneThread
<1> USE DEF ImagesInv, OwnFiles, At
<1>1. ASSUME NEW t \in Threads, Image(t) PROVE OwnFiles'
  <2>1. DOMAIN png = {}
    <3>1. Pending(t) = {}
      BY <1>1 DEF Pending, Image
    <3>2. \A u \in Threads : Pending(u) = {}
      BY <1>0, <3>1
    <3> QED BY <3>2 DEF EachPending
  <2>2. DOMAIN <<>> = {} /\ col[t] = 0
    BY <1>1, EmptySeq DEF Image, Columns, Loops
  <2>3. PICK n \in Nat : size' = [size EXCEPT ![t] = n] /\ Enter(t, n, "save", "log")
    BY <1>1 DEF Image, ImageAssumption
  <2> QED BY <1>0, <1>1, <2>1, <2>2, <2>3 DEF Image, Enter, OwnImages, OwnImage
<1>2. ASSUME NEW t \in Threads, Save(t) PROVE OwnFiles'
  <2>1. pc[t] = "save" /\ Loop(t, "save", "encode")
    BY <1>2 DEF Save
  <2>2. /\ pc' \in [Threads -> Labels] /\ col' \in [Threads -> Nat]
        /\ size[t] \in Nat /\ col[t] \in 0..(size[t] - 1)
        /\ \/ pc'[t] = "save" /\ col'[t] = col[t] + 1
           \/ pc'[t] = "encode" /\ col'[t] = 0 /\ col[t] + 1 = size[t]
    BY <2>1, LoopRound DEF Loops, Labels
  <2>3. /\ \A c \in DOMAIN png' : png'[c] = <<call[t], c>>
        /\ saved'[t] => saved[t] /\ DOMAIN png' = DOMAIN png \cup {col[t]}
    BY <1>0, <1>2 DEF Save, Put
  <2>4. saved'[t] => \A c \in Nat : c < col[t] + 1 => c \in DOMAIN png'
    BY <2>1, <2>2, <2>3
  <2>5. encoded[t] = <<>> /\ encoded'[t] = <<>> /\ Len(<<>>) = 0 /\ DOMAIN <<>> = {}
    BY <1>0, <1>2, <2>1, EmptySeq DEF Save
  <2> QED BY <1>0, <1>2, <2>2, <2>3, <2>4, <2>5 DEF Save, OwnImages
<1>3. ASSUME NEW t \in Threads, EncodeImage(t) PROVE OwnFiles'
  <2>1. pc[t] = "encode" /\ Loop(t, "encode", "log")
    BY <1>3 DEF EncodeImage
  <2>2. \/ pc'[t] = "encode" /\ col'[t] = col[t] + 1
        \/ pc'[t] = "log"
    BY <2>1, LoopRound DEF Loops, Labels
  <2>3. /\ Len(encoded'[t]) = col[t] + 1
        /\ \A i \in DOMAIN encoded'[t] : OwnImage(t, i)'
    BY <1>3, EncodeNext
  <2> QED BY <1>0, <1>3, <2>2, <2>3 DEF EncodeImage, OwnImages
<1>4. ASSUME NEW t \in Threads, CreateEvent(t) PROVE OwnFiles'
  <2> DEFINE event == [call |-> call[t], images |-> encoded[t], saved |-> saved[t]]
  <2>1. \A i \in DOMAIN event.images :
          Own(event, i) \/ (~event.saved /\ event.images[i] = Missing)
    BY DEF OwnImage, Own
  <2>2. events' = events \cup {event}
    BY <1>4 DEF CreateEvent
  <2> HIDE DEF event
  <2>3. OwnImages'
    BY <2>1, <2>2 DEF OwnImages, Own
  <2> QED BY <1>0, <1>4, <2>3 DEF CreateEvent, Enter, OwnImage
<1>5. ASSUME NEW t \in Threads, Remove(t) PROVE OwnFiles'
  <2>1. pc[t] = "remove" /\ Loop(t, "remove", "idle")
    BY <1>5 DEF Remove
  <2>2. pc'[t] \in {"remove", "idle"}
    BY <2>1, LoopRound DEF Loops, Labels
  <2> QED BY <1>0, <1>5, <2>2 DEF Remove, OwnImages, OwnImage
<1>6. CASE Destroy \/ UNCHANGED vars
  BY <1>0, <1>6 DEF Destroy, vars, locals, OwnImages, OwnImage, Own
<1> QED BY <1>1, <1>2, <1>3, <1>4, <1>5, <1>6 DEF Next

\* Image, called by one thread at a time, while FileWriters are destroyed and
\* files cannot be saved: it logs no image but those of its own matrix.
THEOREM ImagesOwn == ASSUME ImageAssumption, OneThread PROVE Spec => []OwnImages
<1>1. ImagesInv /\ [Next]_vars => ImagesInv'
  BY Next_Columns, Next_EachPending, Next_OwnFiles DEF ImagesInv
<1>2. Init => ImagesInv
  BY Init_Images, Init_OwnFiles DEF ImagesInv
<1>3. ImagesInv => OwnImages
  BY DEF ImagesInv, OwnFiles
<1> QED BY <1>1, <1>2, <1>3, PTL DEF Spec
===============================================================================
