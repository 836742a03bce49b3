------------------------ MODULE TemplateFiles_proofs ------------------------
(***************************************************************************)
(* Proofs about TemplateFiles, for any files, contents and number of       *)
(* requests at a time.  The base says what each place of a request knows   *)
(* of it; that a request which nobody touched finds its file, or its copy, *)
(* as it left it (Undisturbed) carries the theorems about what a request   *)
(* was told.                                                               *)
(***************************************************************************)
EXTENDS TemplateFiles, FiniteSetTheorems, TLAPS

-----------------------------------------------------------------------------
(* Requests, contents and threads.                                         *)

Labels == {"idle", "open", "write", "check", "unlink", "read", "copy", "copyopen",
           "copywrite", "run", "clean", "emit", "answer"}
Replies == {"none", "ok", "refused", "crash"}

LEMMA RequestFields ==
  ASSUME NEW r \in Requests
  PROVE  /\ r.op \in {"create", "update", "destroy", "show", "launch"}
         /\ r.file \in Files
         /\ r.op = "launch" => r.file \in Templates
         /\ r.op \in {"create", "update"} => r.content \in Versions
BY DEF Requests, Files

\* What is written to a file of no bytes is what it then holds.
LEMMA OverEmpty ==
  ASSUME NEW new PROVE Over(Empty, new) = {new}
BY DEF Over

LEMMA OverContents ==
  ASSUME NEW old, NEW new
  PROVE  Over(old, new) \subseteq {old, new, Broken}
<1>1. CASE new = Empty
  BY <1>1 DEF Over
<1>2. CASE new # Empty /\ old \in {Empty, new}
  BY <1>2 DEF Over
<1>3. CASE new # Empty /\ old \notin {Empty, new}
  BY <1>3 DEF Over
<1> QED BY <1>1, <1>2, <1>3

DiskOK ==
  /\ disk \in [Files -> Contents \union {Missing}]
  /\ tmp \in [Templates -> Contents \union {Missing}]
  /\ spoiled \subseteq Files /\ leaked \subseteq Templates

LocalOK ==
  /\ pc \in [Threads -> Labels]
  /\ req \in [Threads -> Requests \union {None}]
  /\ linked \in [Threads -> BOOLEAN]
  /\ data \in [Threads -> Contents]
  /\ answer \in [Threads -> Replies]
  /\ saw \in [Threads -> Contents]
  /\ touched \in [Threads -> BOOLEAN]

Busy(t) == pc[t] # "idle"

\* What the place of a request tells of it.
PlaceOf(t) ==
  /\ Busy(t) => req[t] \in Requests
  /\ pc[t] \in {"open", "write"} =>
       req[t].op \in {"create", "update"} /\ ValidFor(req[t].file, req[t].content)
  /\ pc[t] \in {"check", "unlink"} => req[t].op = "destroy"
  /\ pc[t] = "read" => req[t].op = "show"
  /\ pc[t] \in {"copy", "copyopen", "copywrite", "run", "clean"} => req[t].op = "launch"
  /\ linked[t] => pc[t] \in {"write", "copywrite"}
  /\ pc[t] = "clean" => answer[t] \in {"ok", "refused"}
  /\ pc[t] = "emit" => \/ req[t].op \in {"create", "update", "destroy"} /\ answer[t] = "none"
                       \/ req[t].op = "launch" /\ answer[t] \in {"ok", "refused"}
  /\ pc[t] \notin {"clean", "emit", "answer"} => answer[t] = "none"

Places == \A t \in Threads : PlaceOf(t)

BaseInv == DiskOK /\ LocalOK /\ Places

LEMMA BaseIsTyped == BaseInv => TypeOK
BY DEF BaseInv, DiskOK, LocalOK, Places, PlaceOf, Busy, TypeOK, Labels, Replies

LEMMA BaseInit == Init => BaseInv
<1> SUFFICES ASSUME Init PROVE BaseInv
  OBVIOUS
<1>1. DiskOK
  BY DEF Init, DiskOK
<1>2. LocalOK
  BY DEF Init, LocalOK, Labels, Replies, Contents
<1>3. Places
  BY DEF Init, Places, PlaceOf, Busy
<1> QED BY <1>1, <1>2, <1>3 DEF BaseInv

\* Where a request stands in the places it has to be to have its file open.
LEMMA FileOf ==
  ASSUME BaseInv, NEW t \in Threads, Busy(t)
  PROVE  /\ req[t] \in Requests /\ req[t].file \in Files
         /\ req[t].op = "launch" => req[t].file \in Templates
         /\ req[t].op \in {"create", "update"} => req[t].content \in Contents
<1>1. req[t] \in Requests
  BY DEF BaseInv, Places, PlaceOf
<1>2. Versions \subseteq Contents
  BY DEF Contents
<1> QED BY <1>1, <1>2, RequestFields

LEMMA GotoOnly ==
  ASSUME LocalOK, NEW t \in Threads, NEW l \in Labels, Goto(t, l)
  PROVE  /\ pc' \in [Threads -> Labels] /\ pc'[t] = l
         /\ \A u \in Threads \ {t} : pc'[u] = pc[u]
BY DEF LocalOK, Goto

LEMMA AnswersOnly ==
  ASSUME LocalOK, NEW t \in Threads, NEW a \in Replies, Answers(t, a)
  PROVE  /\ pc' \in [Threads -> Labels] /\ pc'[t] = "answer"
         /\ \A u \in Threads \ {t} : pc'[u] = pc[u]
         /\ answer' \in [Threads -> Replies] /\ answer'[t] = a
         /\ \A u \in Threads \ {t} : answer'[u] = answer[u]
BY DEF LocalOK, Answers, Goto, Labels

\* Who is not touched by a change that t makes is not touched before, and is
\* about another file, or about the copy where t is about the file.
LEMMA TouchesOnly ==
  ASSUME LocalOK, NEW t \in Threads, Touches(t)
  PROVE  /\ touched' \in [Threads -> BOOLEAN]
         /\ touched'[t] = touched[t]
         /\ \A u \in Threads \ {t} : Busy(u) /\ ~ touched'[u] =>
              /\ ~ touched[u]
              /\ \/ req[u].file # req[t].file
                 \/ req[u].op = "launch" /\ req[t].op # "launch"
                 \/ req[u].op # "launch" /\ req[t].op = "launch"
<1> DEFINE Note(u) == \/ touched[u]
                      \/ /\ u # t /\ pc[u] # "idle"
                         /\ req[u].file = req[t].file
                         /\ (req[u].op = "launch") = (req[t].op = "launch")
<1>1. touched' = [u \in Threads |-> Note(u)]
  BY DEF Touches
<1>2. \A u \in Threads : Note(u) \in BOOLEAN
  BY DEF LocalOK
<1>3. Note(t) = touched[t]
  BY DEF LocalOK
<1>4. \A u \in Threads \ {t} : Busy(u) /\ ~ Note(u) =>
              /\ ~ touched[u]
              /\ \/ req[u].file # req[t].file
                 \/ req[u].op = "launch" /\ req[t].op # "launch"
                 \/ req[u].op # "launch" /\ req[t].op = "launch"
  BY DEF Busy
<1> HIDE DEF Note
<1> QED BY <1>1, <1>2, <1>3, <1>4

LEMMA UnlinkedOnly ==
  ASSUME NEW S, linked' = UnlinkedFrom(S)
  PROVE  /\ linked' \in [Threads -> BOOLEAN]
         /\ \A u \in Threads : linked'[u] <=> linked[u] /\ u \notin S
<1>1. linked' = [u \in Threads |-> linked[u] /\ u \notin S]
  BY DEF UnlinkedFrom
<1>2. \A u \in Threads : (linked[u] /\ u \notin S) \in BOOLEAN
  OBVIOUS
<1> QED BY <1>1, <1>2

-----------------------------------------------------------------------------
(* What each step does, to the files and to the other requests.            *)

\* The others stay where they are; they may only lose their files.
Alone(t) ==
  \A u \in Threads \ {t} :
    /\ pc'[u] = pc[u] /\ req'[u] = req[u] /\ data'[u] = data[u]
    /\ answer'[u] = answer[u] /\ saw'[u] = saw[u]
    /\ linked'[u] => linked[u]

\* A request that nobody has touched finds its file, or its copy, unchanged.
Undisturbed(u) ==
  Busy(u) /\ ~ touched'[u] =>
    /\ ~ touched[u]
    /\ linked'[u] = linked[u]
    /\ req[u].op # "launch" => disk'[req[u].file] = disk[req[u].file]
    /\ req[u].op = "launch" => tmp'[req[u].file] = tmp[req[u].file]

\* A step of t goes to l, and others are left alone.
Steps(t, l) ==
  /\ pc[t] # "idle" /\ req' = req
  /\ pc'[t] = l
  /\ Alone(t) /\ LocalOK' /\ DiskOK'
  /\ \A u \in Threads \ {t} : Undisturbed(u)

LEMMA BaseFromStep ==
  ASSUME BaseInv, NEW t \in Threads, Alone(t), DiskOK', LocalOK', PlaceOf(t)'
  PROVE  BaseInv'
<1> SUFFICES ASSUME NEW u \in Threads, u # t PROVE PlaceOf(u)'
  BY DEF BaseInv, Places
<1>1. PlaceOf(u)
  BY DEF BaseInv, Places
<1>2. /\ pc'[u] = pc[u] /\ req'[u] = req[u] /\ answer'[u] = answer[u]
      /\ linked'[u] => linked[u]
  BY DEF Alone
<1> QED BY <1>1, <1>2 DEF PlaceOf, Busy

\* Steps that leave every file, and who has it open, alone.
Quiet(t) ==
  /\ UNCHANGED <<disk, tmp, req, linked, touched, spoiled, leaked>>
  /\ pc[t] # "idle"
  /\ pc' \in [Threads -> Labels] /\ answer' \in [Threads -> Replies]
  /\ data' \in [Threads -> Contents] /\ saw' \in [Threads -> Contents]
  /\ \A u \in Threads \ {t} : /\ pc'[u] = pc[u] /\ data'[u] = data[u]
                              /\ answer'[u] = answer[u] /\ saw'[u] = saw[u]

LEMMA QuietSteps ==
  ASSUME BaseInv, NEW t \in Threads, Quiet(t)
  PROVE  Steps(t, pc'[t])
<1>1. Alone(t) /\ LocalOK'
  BY DEF Quiet, Alone, LocalOK, BaseInv
<1>2. DiskOK'
  BY DEF Quiet, DiskOK, BaseInv
<1>3. \A u \in Threads : Undisturbed(u)
  BY DEF Quiet, Undisturbed
<1> QED BY <1>1, <1>2, <1>3 DEF Quiet, Steps

LEMMA OpenEffect ==
  ASSUME BaseInv, NEW t \in Threads, OpenFile(t)
  PROVE  LET f == req[t].file
         IN /\ pc[t] = "open" /\ f \in Files
            /\ UNCHANGED <<tmp, req, data, saw, leaked>>
            /\ \/ /\ Steps(t, "write")
                  /\ disk' = [disk EXCEPT ![f] = Empty]
                  /\ linked' = [linked EXCEPT ![t] = TRUE]
                  /\ spoiled' = IF Writers(f) = {} THEN spoiled \ {f} ELSE spoiled \union {f}
                  /\ answer' = answer /\ touched'[t] = touched[t]
               \/ Quiet(t) /\ pc'[t] = "answer" /\ answer'[t] = "crash"
<1> DEFINE f == req[t].file
<1>1. /\ pc[t] = "open" /\ Busy(t)
      /\ UNCHANGED <<tmp, req, data, saw, leaked>>
  BY DEF OpenFile, Busy
<1>2. f \in Files /\ LocalOK /\ DiskOK /\ PlaceOf(t)
  BY <1>1, FileOf DEF BaseInv, Places
<1>3. CASE Goto(t, "write")
  <2>1. /\ disk' = [disk EXCEPT ![f] = Empty]
        /\ linked' = [linked EXCEPT ![t] = TRUE]
        /\ spoiled' = IF Writers(f) = {} THEN spoiled \ {f} ELSE spoiled \union {f}
        /\ answer' = answer /\ Touches(t)
    BY <1>2, <1>3 DEF OpenFile, Opened, Goto, Answers, LocalOK
  <2>2. /\ pc' \in [Threads -> Labels] /\ pc'[t] = "write"
        /\ \A u \in Threads \ {t} : pc'[u] = pc[u]
    BY <1>2, <1>3, GotoOnly DEF Labels
  <2>3. /\ touched' \in [Threads -> BOOLEAN] /\ touched'[t] = touched[t]
        /\ \A u \in Threads \ {t} : Busy(u) /\ ~ touched'[u] =>
             /\ ~ touched[u]
             /\ req[u].file # f \/ req[u].op = "launch"
    <3>1. req[t].op # "launch"
      BY <1>1, <1>2 DEF PlaceOf
    <3> QED BY <1>2, <2>1, <3>1, TouchesOnly
  <2>4. LocalOK' /\ \A u \in Threads \ {t} : linked'[u] = linked[u]
    BY <1>1, <1>2, <2>1, <2>2, <2>3 DEF LocalOK
  <2>5. DiskOK'
    BY <1>1, <1>2, <2>1 DEF DiskOK, Contents
  <2>6. \A u \in Threads \ {t} : Undisturbed(u)
    <3>1. \A g \in Files : g # f => disk'[g] = disk[g]
      BY <1>2, <2>1 DEF DiskOK
    <3>2. \A u \in Threads : Busy(u) => req[u].file \in Files
      BY FileOf
    <3> HIDE DEF f
    <3> QED BY <1>1, <2>3, <2>4, <3>1, <3>2 DEF Undisturbed
  <2>7. Alone(t)
    BY <1>1, <2>1, <2>2, <2>4 DEF Alone
  <2> QED BY <1>1, <1>2, <2>1, <2>2, <2>3, <2>4, <2>5, <2>6, <2>7 DEF Steps
<1>4. CASE ~ Goto(t, "write")
  <2>1. Answers(t, "crash") /\ UNCHANGED <<disk, linked, spoiled, touched>>
    BY <1>4 DEF OpenFile
  <2> QED BY <1>1, <1>2, <2>1, AnswersOnly DEF Quiet, Replies, LocalOK
<1> QED BY <1>3, <1>4

LEMMA WriteEffect ==
  ASSUME BaseInv, NEW t \in Threads, WriteFile(t)
  PROVE  LET f == req[t].file
         IN /\ pc[t] = "write" /\ f \in Files
            /\ UNCHANGED <<tmp, req, data, saw, leaked>>
            /\ linked' = [linked EXCEPT ![t] = FALSE] /\ touched'[t] = touched[t]
            /\ ~ linked[t] => disk' = disk
            /\ linked[t] => \A g \in Files : g # f => disk'[g] = disk[g]
            /\ \/ /\ Steps(t, "emit")
                  /\ linked[t] => disk'[f] \in Over(disk[f], req[t].content)
                  /\ answer' = answer /\ spoiled' = spoiled
               \/ /\ Steps(t, "answer")
                  /\ answer'[t] = "crash"
                  /\ spoiled' = IF linked[t] THEN spoiled \union {f} ELSE spoiled
<1> DEFINE f == req[t].file
<1>1. /\ pc[t] = "write" /\ Busy(t)
      /\ UNCHANGED <<tmp, req, data, saw, leaked>>
      /\ linked' = [linked EXCEPT ![t] = FALSE]
      /\ IF linked[t] THEN Touches(t) ELSE UNCHANGED touched
  BY DEF WriteFile, Busy
<1>2. f \in Files /\ LocalOK /\ DiskOK /\ PlaceOf(t) /\ req[t].content \in Contents
  BY <1>1, FileOf DEF BaseInv, Places, PlaceOf
<1>3. PICK c \in Contents \union {Missing} :
        disk' = IF linked[t] THEN [disk EXCEPT ![f] = c] ELSE disk
  <2>1. Over(disk[f], req[t].content) \subseteq {disk[f], req[t].content, Broken}
    BY OverContents
  <2>2. disk[f] \in Contents \union {Missing} /\ Broken \in Contents
    BY <1>2 DEF DiskOK, Contents
  <2>3. disk' = disk \/ \E c \in Over(disk[f], req[t].content) \union {disk[f], Broken} :
          linked[t] /\ disk' = [disk EXCEPT ![f] = c]
    BY DEF WriteFile
  <2>4. ~ linked[t] => disk' = disk
    BY DEF WriteFile
  <2>5. disk' = disk => disk' = [disk EXCEPT ![f] = disk[f]]
    BY <1>2 DEF DiskOK
  <2> QED BY <1>2, <2>1, <2>2, <2>3, <2>4, <2>5
<1>4. /\ ~ linked[t] => disk' = disk
      /\ \A g \in Files : g # f => disk'[g] = disk[g]
      /\ disk' \in [Files -> Contents \union {Missing}]
  BY <1>2, <1>3 DEF DiskOK
<1>5. /\ linked' \in [Threads -> BOOLEAN]
      /\ \A u \in Threads \ {t} : linked'[u] = linked[u]
  BY <1>1, <1>2 DEF LocalOK
<1>6. /\ touched' \in [Threads -> BOOLEAN] /\ touched'[t] = touched[t]
      /\ \A u \in Threads \ {t} : Busy(u) /\ ~ touched'[u] =>
           /\ ~ touched[u]
           /\ ~ linked[t] \/ req[u].file # f \/ req[u].op = "launch"
  <2>1. req[t].op # "launch"
    BY <1>1, <1>2 DEF PlaceOf
  <2> QED BY <1>1, <1>2, <2>1, TouchesOnly DEF LocalOK
<1>7. \A u \in Threads \ {t} : Undisturbed(u)
  <2>1. \A u \in Threads : Busy(u) => req[u].file \in Files
    BY FileOf
  <2> HIDE DEF f
  <2> QED BY <1>1, <1>4, <1>5, <1>6, <2>1 DEF Undisturbed
<1>8. ASSUME NEW l \in Labels, pc'[t] = l, pc' \in [Threads -> Labels],
             answer' \in [Threads -> Replies], spoiled' \subseteq Files,
             \A u \in Threads \ {t} : pc'[u] = pc[u] /\ answer'[u] = answer[u]
     PROVE  Steps(t, l)
  <2>1. LocalOK'
    BY <1>1, <1>2, <1>5, <1>6, <1>8 DEF LocalOK
  <2>2. DiskOK'
    BY <1>1, <1>2, <1>4, <1>8 DEF DiskOK
  <2>3. Alone(t)
    BY <1>1, <1>5, <1>8 DEF Alone
  <2> QED BY <1>1, <1>7, <1>8, <2>1, <2>2, <2>3 DEF Steps
<1>9. CASE Goto(t, "emit")
  <2>1. /\ linked[t] => \E d \in Over(disk[f], req[t].content) :
                          disk' = [disk EXCEPT ![f] = d]
        /\ answer' = answer /\ spoiled' = spoiled
    BY <1>2, <1>9 DEF WriteFile, Goto, Answers, LocalOK
  <2>2. linked[t] => disk'[f] \in Over(disk[f], req[t].content)
    BY <1>2, <2>1 DEF DiskOK
  <2>3. Steps(t, "emit")
    BY <1>2, <1>8, <1>9, <2>1, GotoOnly DEF Labels, LocalOK, DiskOK
  <2> QED BY <1>1, <1>2, <1>4, <1>6, <2>1, <2>2, <2>3
<1>10. CASE ~ Goto(t, "emit")
  <2>1. /\ Answers(t, "crash")
        /\ spoiled' = IF linked[t] THEN spoiled \union {f} ELSE spoiled
    BY <1>10 DEF WriteFile
  <2>2. Steps(t, "answer") /\ answer'[t] = "crash"
    BY <1>2, <1>8, <2>1, AnswersOnly DEF Labels, Replies, DiskOK
  <2> QED BY <1>1, <1>2, <1>4, <1>6, <2>1, <2>2
<1> QED BY <1>9, <1>10

LEMMA DeleteEffect ==
  ASSUME BaseInv, NEW t \in Threads, DeleteFile(t)
  PROVE  LET f == req[t].file
         IN /\ pc[t] = "unlink" /\ f \in Files
            /\ UNCHANGED <<tmp, req, data, saw, leaked>>
            /\ \/ /\ Steps(t, "emit")
                  /\ disk' = [disk EXCEPT ![f] = Missing]
                  /\ linked' = UnlinkedFrom(Writers(f))
                  /\ spoiled' = spoiled \ {f}
                  /\ answer' = answer /\ touched'[t] = touched[t]
               \/ Quiet(t) /\ pc'[t] = "answer" /\ answer'[t] = "crash"
<1> DEFINE f == req[t].file
<1>1. /\ pc[t] = "unlink" /\ Busy(t)
      /\ UNCHANGED <<tmp, req, data, saw, leaked>>
  BY DEF DeleteFile, Busy
<1>2. f \in Files /\ LocalOK /\ DiskOK /\ PlaceOf(t) /\ req[t].op = "destroy"
  BY <1>1, FileOf DEF BaseInv, Places, PlaceOf
<1>3. CASE disk[f] # Missing
  <2>1. /\ disk' = [disk EXCEPT ![f] = Missing]
        /\ linked' = UnlinkedFrom(Writers(f))
        /\ spoiled' = spoiled \ {f}
        /\ answer' = answer /\ Touches(t) /\ Goto(t, "emit")
    BY <1>3 DEF DeleteFile
  <2>2. /\ pc' \in [Threads -> Labels] /\ pc'[t] = "emit"
        /\ \A u \in Threads \ {t} : pc'[u] = pc[u]
    BY <1>2, <2>1, GotoOnly DEF Labels
  <2>3. /\ touched' \in [Threads -> BOOLEAN] /\ touched'[t] = touched[t]
        /\ \A u \in Threads \ {t} : Busy(u) /\ ~ touched'[u] =>
             /\ ~ touched[u]
             /\ req[u].file # f \/ req[u].op = "launch"
    BY <1>2, <2>1, TouchesOnly
  <2>4. /\ linked' \in [Threads -> BOOLEAN]
        /\ \A u \in Threads : linked'[u] <=> linked[u] /\ u \notin Writers(f)
    BY <2>1, UnlinkedOnly
  <2>5. LocalOK'
    BY <1>1, <1>2, <2>1, <2>2, <2>3, <2>4 DEF LocalOK
  <2>6. DiskOK'
    BY <1>1, <1>2, <2>1 DEF DiskOK
  <2>7. \A u \in Threads \ {t} : Undisturbed(u)
    <3>1. \A g \in Files : g # f => disk'[g] = disk[g]
      BY <1>2, <2>1 DEF DiskOK
    <3>2. \A u \in Threads : Busy(u) => req[u].file \in Files
      BY FileOf
    <3>3. \A u \in Threads : req[u].file # f \/ req[u].op = "launch" => u \notin Writers(f)
      BY DEF Writers, BaseInv, Places, PlaceOf
    <3>4. \A u \in Threads \ {t} : Busy(u) /\ ~ touched'[u] => linked'[u] = linked[u]
      BY <1>2, <2>3, <2>4, <3>3 DEF LocalOK
    <3> HIDE DEF f
    <3> QED BY <1>1, <2>3, <3>1, <3>2, <3>4 DEF Undisturbed
  <2>8. Alone(t)
    BY <1>1, <2>1, <2>2, <2>4 DEF Alone
  <2> QED BY <1>1, <1>2, <2>1, <2>2, <2>3, <2>5, <2>6, <2>7, <2>8 DEF Steps
<1>4. CASE disk[f] = Missing
  <2>1. Answers(t, "crash") /\ UNCHANGED <<disk, linked, touched, spoiled>>
    BY <1>4 DEF DeleteFile
  <2> QED BY <1>1, <1>2, <2>1, AnswersOnly DEF Quiet, Replies, LocalOK
<1> QED BY <1>3, <1>4

LEMMA CopyOpenEffect ==
  ASSUME BaseInv, NEW t \in Threads, CopyOpen(t)
  PROVE  LET f == req[t].file
         IN /\ pc[t] = "copyopen" /\ f \in Templates
            /\ UNCHANGED <<disk, req, data, saw, spoiled, leaked>>
            /\ \/ /\ Steps(t, "copywrite")
                  /\ tmp' = [tmp EXCEPT ![f] = Empty]
                  /\ linked' = [linked EXCEPT ![t] = TRUE]
                  /\ answer' = answer /\ touched'[t] = touched[t]
               \/ Quiet(t) /\ pc'[t] = "answer" /\ answer'[t] = "crash"
<1> DEFINE f == req[t].file
<1>1. /\ pc[t] = "copyopen" /\ Busy(t)
      /\ UNCHANGED <<disk, req, data, saw, spoiled, leaked>>
  BY DEF CopyOpen, Busy
<1>2. f \in Templates /\ LocalOK /\ DiskOK /\ PlaceOf(t) /\ req[t].op = "launch"
  BY <1>1, FileOf DEF BaseInv, Places, PlaceOf
<1>3. CASE Goto(t, "copywrite")
  <2>1. /\ tmp' = [tmp EXCEPT ![f] = Empty]
        /\ linked' = [linked EXCEPT ![t] = TRUE]
        /\ answer' = answer /\ Touches(t)
    BY <1>2, <1>3 DEF CopyOpen, Opened, Goto, Answers, LocalOK
  <2>2. /\ pc' \in [Threads -> Labels] /\ pc'[t] = "copywrite"
        /\ \A u \in Threads \ {t} : pc'[u] = pc[u]
    BY <1>2, <1>3, GotoOnly DEF Labels
  <2>3. /\ touched' \in [Threads -> BOOLEAN] /\ touched'[t] = touched[t]
        /\ \A u \in Threads \ {t} : Busy(u) /\ ~ touched'[u] =>
             /\ ~ touched[u]
             /\ req[u].file # f \/ req[u].op # "launch"
    BY <1>2, <2>1, TouchesOnly
  <2>4. LocalOK' /\ \A u \in Threads \ {t} : linked'[u] = linked[u]
    BY <1>1, <1>2, <2>1, <2>2, <2>3 DEF LocalOK
  <2>5. DiskOK'
    BY <1>1, <1>2, <2>1 DEF DiskOK, Contents
  <2>6. \A u \in Threads \ {t} : Undisturbed(u)
    <3>1. \A g \in Templates : g # f => tmp'[g] = tmp[g]
      BY <1>2, <2>1 DEF DiskOK
    <3>2. \A u \in Threads : Busy(u) /\ req[u].op = "launch" => req[u].file \in Templates
      BY FileOf
    <3> HIDE DEF f
    <3> QED BY <1>1, <2>3, <2>4, <3>1, <3>2 DEF Undisturbed
  <2>7. Alone(t)
    BY <1>1, <2>1, <2>2, <2>4 DEF Alone
  <2> QED BY <1>1, <1>2, <2>1, <2>2, <2>3, <2>4, <2>5, <2>6, <2>7 DEF Steps
<1>4. CASE ~ Goto(t, "copywrite")
  <2>1. Answers(t, "crash") /\ UNCHANGED <<tmp, linked, touched>>
    BY <1>4 DEF CopyOpen
  <2> QED BY <1>1, <1>2, <2>1, AnswersOnly DEF Quiet, Replies, LocalOK
<1> QED BY <1>3, <1>4

LEMMA CopyWriteEffect ==
  ASSUME BaseInv, NEW t \in Threads, CopyWrite(t)
  PROVE  LET f == req[t].file
         IN /\ pc[t] = "copywrite" /\ f \in Templates
            /\ UNCHANGED <<disk, req, data, saw, spoiled>>
            /\ linked' = [linked EXCEPT ![t] = FALSE] /\ touched'[t] = touched[t]
            /\ ~ linked[t] => tmp' = tmp
            /\ linked[t] => \A g \in Templates : g # f => tmp'[g] = tmp[g]
            /\ \/ /\ Steps(t, "run")
                  /\ linked[t] => tmp'[f] \in Over(tmp[f], data[t])
                  /\ answer' = answer /\ leaked' = leaked
               \/ /\ Steps(t, "answer")
                  /\ answer'[t] = "crash"
                  /\ leaked' = IF linked[t] THEN leaked \union {f} ELSE leaked
<1> DEFINE f == req[t].file
<1>1. /\ pc[t] = "copywrite" /\ Busy(t)
      /\ UNCHANGED <<disk, req, data, saw, spoiled>>
      /\ linked' = [linked EXCEPT ![t] = FALSE]
      /\ IF linked[t] THEN Touches(t) ELSE UNCHANGED touched
  BY DEF CopyWrite, Busy
<1>2. f \in Templates /\ LocalOK /\ DiskOK /\ PlaceOf(t) /\ req[t].op = "launch"
  BY <1>1, FileOf DEF BaseInv, Places, PlaceOf
<1>3. PICK c \in Contents \union {Missing} :
        tmp' = IF linked[t] THEN [tmp EXCEPT ![f] = c] ELSE tmp
  <2>1. Over(tmp[f], data[t]) \subseteq {tmp[f], data[t], Broken}
    BY OverContents
  <2>2. tmp[f] \in Contents \union {Missing} /\ data[t] \in Contents /\ Broken \in Contents
    BY <1>2 DEF DiskOK, LocalOK, Contents
  <2>3. tmp' = tmp \/ \E c \in Over(tmp[f], data[t]) \union {tmp[f], Broken} :
          linked[t] /\ tmp' = [tmp EXCEPT ![f] = c]
    BY DEF CopyWrite
  <2>4. ~ linked[t] => tmp' = tmp
    BY DEF CopyWrite
  <2>5. tmp' = tmp => tmp' = [tmp EXCEPT ![f] = tmp[f]]
    BY <1>2 DEF DiskOK
  <2> QED BY <2>1, <2>2, <2>3, <2>4, <2>5
<1>4. /\ ~ linked[t] => tmp' = tmp
      /\ \A g \in Templates : g # f => tmp'[g] = tmp[g]
      /\ tmp' \in [Templates -> Contents \union {Missing}]
  BY <1>2, <1>3 DEF DiskOK
<1>5. /\ linked' \in [Threads -> BOOLEAN]
      /\ \A u \in Threads \ {t} : linked'[u] = linked[u]
  BY <1>1, <1>2 DEF LocalOK
<1>6. /\ touched' \in [Threads -> BOOLEAN] /\ touched'[t] = touched[t]
      /\ \A u \in Threads \ {t} : Busy(u) /\ ~ touched'[u] =>
           /\ ~ touched[u]
           /\ ~ linked[t] \/ req[u].file # f \/ req[u].op # "launch"
  BY <1>1, <1>2, TouchesOnly DEF LocalOK
<1>7. \A u \in Threads \ {t} : Undisturbed(u)
  <2>1. \A u \in Threads : Busy(u) /\ req[u].op = "launch" => req[u].file \in Templates
    BY FileOf
  <2> HIDE DEF f
  <2> QED BY <1>1, <1>4, <1>5, <1>6, <2>1 DEF Undisturbed
<1>8. ASSUME NEW l \in Labels, pc'[t] = l, pc' \in [Threads -> Labels],
             answer' \in [Threads -> Replies], leaked' \subseteq Templates,
             \A u \in Threads \ {t} : pc'[u] = pc[u] /\ answer'[u] = answer[u]
     PROVE  Steps(t, l)
  <2>1. LocalOK'
    BY <1>1, <1>2, <1>5, <1>6, <1>8 DEF LocalOK
  <2>2. DiskOK'
    BY <1>1, <1>2, <1>4, <1>8 DEF DiskOK
  <2>3. Alone(t)
    BY <1>1, <1>5, <1>8 DEF Alone
  <2> QED BY <1>1, <1>7, <1>8, <2>1, <2>2, <2>3 DEF Steps
<1>9. CASE Goto(t, "run")
  <2>1. /\ linked[t] => \E d \in Over(tmp[f], data[t]) : tmp' = [tmp EXCEPT ![f] = d]
        /\ answer' = answer /\ leaked' = leaked
    BY <1>2, <1>9 DEF CopyWrite, Goto, Answers, LocalOK
  <2>2. linked[t] => tmp'[f] \in Over(tmp[f], data[t])
    BY <1>2, <2>1 DEF DiskOK
  <2>3. Steps(t, "run")
    BY <1>2, <1>8, <1>9, <2>1, GotoOnly DEF Labels, LocalOK, DiskOK
  <2> QED BY <1>1, <1>2, <1>4, <1>6, <2>1, <2>2, <2>3
<1>10. CASE ~ Goto(t, "run")
  <2>1. /\ Answers(t, "crash")
        /\ leaked' = IF linked[t] THEN leaked \union {f} ELSE leaked
    BY <1>10 DEF CopyWrite
  <2>2. Steps(t, "answer") /\ answer'[t] = "crash"
    BY <1>2, <1>8, <2>1, AnswersOnly DEF Labels, Replies, DiskOK
  <2> QED BY <1>1, <1>2, <1>4, <1>6, <2>1, <2>2
<1> QED BY <1>9, <1>10

LEMMA CleanEffect ==
  ASSUME BaseInv, NEW t \in Threads, CleanUp(t)
  PROVE  LET f == req[t].file
         IN /\ pc[t] = "clean" /\ f \in Templates
            /\ UNCHANGED <<disk, req, data, answer, saw, spoiled>>
            /\ Steps(t, "emit")
            /\ tmp' = [tmp EXCEPT ![f] = Missing]
            /\ linked' = UnlinkedFrom(Copiers(f))
            /\ leaked' = leaked \ {f}
            /\ touched'[t] = touched[t]
<1> DEFINE f == req[t].file
<1>1. /\ pc[t] = "clean" /\ Busy(t)
      /\ UNCHANGED <<disk, req, data, answer, saw, spoiled>>
      /\ Goto(t, "emit")
  BY DEF CleanUp, Busy
<1>2. f \in Templates /\ LocalOK /\ DiskOK /\ PlaceOf(t) /\ req[t].op = "launch"
  BY <1>1, FileOf DEF BaseInv, Places, PlaceOf
<1>3. CleansAfter(answer[t])
  BY <1>1, <1>2 DEF PlaceOf, CleansAfter
<1>4. /\ tmp' = [tmp EXCEPT ![f] = Missing]
      /\ linked' = UnlinkedFrom(Copiers(f))
      /\ leaked' = leaked \ {f}
      /\ Touches(t)
  BY <1>3 DEF CleanUp
<1>5. /\ pc' \in [Threads -> Labels] /\ pc'[t] = "emit"
      /\ \A u \in Threads \ {t} : pc'[u] = pc[u]
  BY <1>1, <1>2, GotoOnly DEF Labels
<1>6. /\ touched' \in [Threads -> BOOLEAN] /\ touched'[t] = touched[t]
      /\ \A u \in Threads \ {t} : Busy(u) /\ ~ touched'[u] =>
           /\ ~ touched[u]
           /\ req[u].file # f \/ req[u].op # "launch"
  BY <1>2, <1>4, TouchesOnly
<1>7. /\ linked' \in [Threads -> BOOLEAN]
      /\ \A u \in Threads : linked'[u] <=> linked[u] /\ u \notin Copiers(f)
  BY <1>4, UnlinkedOnly
<1>8. LocalOK'
  BY <1>1, <1>2, <1>5, <1>6, <1>7 DEF LocalOK
<1>9. DiskOK'
  BY <1>1, <1>2, <1>4 DEF DiskOK
<1>10. \A u \in Threads \ {t} : Undisturbed(u)
  <2>1. \A g \in Templates : g # f => tmp'[g] = tmp[g]
    BY <1>2, <1>4 DEF DiskOK
  <2>2. \A u \in Threads : Busy(u) /\ req[u].op = "launch" => req[u].file \in Templates
    BY FileOf
  <2>3. \A u \in Threads : req[u].file # f \/ req[u].op # "launch" => u \notin Copiers(f)
    BY DEF Copiers, BaseInv, Places, PlaceOf
  <2>4. \A u \in Threads \ {t} : Busy(u) /\ ~ touched'[u] => linked'[u] = linked[u]
    BY <1>2, <1>6, <1>7, <2>3 DEF LocalOK
  <2> HIDE DEF f
  <2> QED BY <1>1, <1>6, <2>1, <2>2, <2>4 DEF Undisturbed
<1>11. Alone(t)
  BY <1>1, <1>5, <1>7 DEF Alone
<1> QED BY <1>1, <1>2, <1>4, <1>5, <1>6, <1>8, <1>9, <1>10, <1>11 DEF Steps

\* Steps that only look at files, run the command or write the Event.
Looking(t) ==
  CheckFile(t) \/ ReadFile(t) \/ CopyRead(t) \/ RunLaunch(t) \/ EmitEvent(t)

LEMMA LookingQuiet ==
  ASSUME BaseInv, NEW t \in Threads, Looking(t)
  PROVE  Quiet(t)
<1>1. LocalOK /\ DiskOK
  BY DEF BaseInv
<1>2. /\ UNCHANGED <<disk, tmp, req, linked, touched, spoiled, leaked>>
      /\ pc[t] # "idle" /\ Busy(t)
  BY DEF Looking, CheckFile, ReadFile, CopyRead, RunLaunch, EmitEvent, history, Busy
<1>3. /\ pc' \in [Threads -> Labels] /\ \A u \in Threads \ {t} : pc'[u] = pc[u]
  <2>1. \E l \in {"answer", "unlink", "copyopen", "clean"} : Goto(t, l)
    BY DEF Looking, CheckFile, ReadFile, CopyRead, RunLaunch, EmitEvent, Answers
  <2> QED BY <1>1, <2>1, GotoOnly DEF Labels
<1>4. /\ answer' \in [Threads -> Replies] /\ \A u \in Threads \ {t} : answer'[u] = answer[u]
  <2>1. \/ answer' = answer
        \/ \E a \in {"refused", "crash", "ok", answer[t]} : answer' = [answer EXCEPT ![t] = a]
    BY DEF Looking, CheckFile, ReadFile, CopyRead, RunLaunch, EmitEvent, Answers
  <2> QED BY <1>1, <2>1 DEF LocalOK, Replies
<1>5. /\ data' \in [Threads -> Contents] /\ \A u \in Threads \ {t} : data'[u] = data[u]
  <2>1. \/ data' = data
        \/ disk[req[t].file] # Missing /\ data' = [data EXCEPT ![t] = disk[req[t].file]]
    BY DEF Looking, CheckFile, ReadFile, CopyRead, RunLaunch, EmitEvent, Unreadable
  <2>2. disk[req[t].file] \in Contents \union {Missing}
    BY <1>1, <1>2, FileOf DEF DiskOK
  <2> QED BY <1>1, <2>1, <2>2 DEF LocalOK
<1>6. /\ saw' \in [Threads -> Contents] /\ \A u \in Threads \ {t} : saw'[u] = saw[u]
  <2>1. \/ saw' = saw
        \/ RunLaunch(t) /\ tmp[req[t].file] # Missing
           /\ saw' = [saw EXCEPT ![t] = tmp[req[t].file]]
    BY DEF Looking, CheckFile, ReadFile, CopyRead, RunLaunch, EmitEvent, history
  <2>2. RunLaunch(t) => tmp[req[t].file] \in Contents \union {Missing}
    BY <1>1, <1>2, FileOf DEF DiskOK, RunLaunch, BaseInv, Places, PlaceOf
  <2> QED BY <1>1, <2>1, <2>2 DEF LocalOK
<1> QED BY <1>2, <1>3, <1>4, <1>5, <1>6 DEF Quiet

LEMMA LookingPlace ==
  ASSUME BaseInv, NEW t \in Threads, Looking(t)
  PROVE  PlaceOf(t)'
<1>1. PlaceOf(t) /\ LocalOK
  BY DEF BaseInv, Places
<1>2. req' = req /\ linked' = linked /\ req[t] \in Requests /\ pc[t] # "idle"
  BY <1>1, LookingQuiet DEF Quiet, PlaceOf, Busy
<1>3. ASSUME NEW a \in Replies, Answers(t, a), pc[t] \notin {"write", "copywrite"}
     PROVE  PlaceOf(t)'
  BY <1>1, <1>2, <1>3, AnswersOnly DEF PlaceOf, Busy
<1>4. CASE CheckFile(t)
  <2>1. CASE Answers(t, "refused")
    BY <1>3, <1>4, <2>1 DEF CheckFile, Replies
  <2>2. CASE Goto(t, "unlink") /\ answer' = answer
    BY <1>1, <1>2, <1>4, <2>2, GotoOnly DEF CheckFile, PlaceOf, Busy, Labels
  <2> QED BY <1>4, <2>1, <2>2 DEF CheckFile
<1>5. CASE ReadFile(t)
  BY <1>3, <1>5 DEF ReadFile, Replies
<1>6. CASE CopyRead(t)
  <2>1. CASE Answers(t, "crash")
    BY <1>3, <1>6, <2>1 DEF CopyRead, Replies
  <2>2. CASE Goto(t, "copyopen") /\ answer' = answer
    BY <1>1, <1>2, <1>6, <2>2, GotoOnly DEF CopyRead, PlaceOf, Busy, Labels
  <2> QED BY <1>6, <2>1, <2>2 DEF CopyRead
<1>7. CASE RunLaunch(t)
  <2>1. pc[t] = "run" /\ pc'[t] = "clean" /\ answer'[t] \in {"ok", "refused"}
    BY <1>1, <1>7 DEF RunLaunch, Goto, LocalOK
  <2> QED BY <1>1, <1>2, <2>1 DEF PlaceOf, Busy
<1>8. CASE EmitEvent(t)
  <2>1. answer[t] \in Replies
    BY <1>1 DEF LocalOK
  <2>2. \E a \in Replies : Answers(t, a)
    BY <1>8, <2>1 DEF EmitEvent, Replies
  <2> QED BY <1>3, <1>8, <2>2 DEF EmitEvent
<1> QED BY <1>4, <1>5, <1>6, <1>7, <1>8 DEF Looking

\* A request that comes in is refused, or its name and content were accepted.
LEMMA ReceiveEffect ==
  ASSUME BaseInv, NEW t \in Threads, NEW r \in Requests, Receive(t, r)
  PROVE  /\ pc[t] = "idle" /\ answer[t] = "none" /\ ~ linked[t]
         /\ UNCHANGED <<disk, tmp, linked, data, saw, touched, spoiled, leaked>>
         /\ req'[t] = r /\ Alone(t) /\ LocalOK'
         /\ \/ pc'[t] = "answer" /\ answer'[t] \in {"refused", "crash"}
            \/ pc'[t] = FirstStep(r) /\ answer'[t] = "none" /\ ContentOK(r)
<1>1. /\ pc[t] = "idle"
      /\ UNCHANGED <<disk, tmp, linked, data, saw, touched, spoiled, leaked>>
      /\ req' = [req EXCEPT ![t] = r]
  BY DEF Receive, history
<1>2. LocalOK /\ answer[t] = "none" /\ ~ linked[t]
  BY <1>1 DEF BaseInv, Places, PlaceOf
<1>3. FirstStep(r) \in {"open", "check", "read", "copy"}
  BY RequestFields DEF FirstStep
<1>4. CASE \E a \in Refusals(r) : Answers(t, a)
  <2>1. PICK a \in {"refused", "crash"} : Answers(t, a)
    BY <1>4 DEF Refusals
  <2> QED BY <1>1, <1>2, <2>1, AnswersOnly DEF LocalOK, Alone, Replies
<1>5. CASE Refusals(r) = {} /\ Goto(t, FirstStep(r)) /\ UNCHANGED answer
  <2>1. ContentOK(r)
    BY <1>5 DEF Refusals
  <2> DEFINE l == FirstStep(r)
  <2>2. l \in Labels /\ Goto(t, l)
    BY <1>3, <1>5 DEF Labels
  <2> HIDE DEF l
  <2>3. /\ pc' \in [Threads -> Labels] /\ pc'[t] = l
        /\ \A u \in Threads \ {t} : pc'[u] = pc[u]
    BY <1>2, <2>2, GotoOnly
  <2> QED BY <1>1, <1>2, <1>5, <2>1, <2>3 DEF l, LocalOK, Alone
<1> QED BY <1>4, <1>5 DEF Receive

\* Requests that end are forgotten; the others go on as they were.
LEMMA FreedEffect ==
  ASSUME BaseInv, NEW S \in SUBSET Threads, Freed(S)
  PROVE  /\ LocalOK'
         /\ \A u \in S : pc'[u] = "idle" /\ answer'[u] = "none" /\ linked'[u] = FALSE
         /\ \A u \in Threads \ S :
              /\ pc'[u] = pc[u] /\ req'[u] = req[u] /\ data'[u] = data[u]
              /\ answer'[u] = answer[u] /\ saw'[u] = saw[u]
              /\ linked'[u] = linked[u] /\ touched'[u] = touched[u]
<1>1. LocalOK
  BY DEF BaseInv
<1>2. /\ linked' \in [Threads -> BOOLEAN]
      /\ \A u \in Threads : linked'[u] <=> linked[u] /\ u \notin S
  BY UnlinkedOnly DEF Freed
<1>3. /\ touched' \in [Threads -> BOOLEAN]
      /\ \A u \in Threads \ S : touched'[u] = touched[u]
  <2>1. \A u \in Threads : (touched[u] /\ u \notin S) \in BOOLEAN
    OBVIOUS
  <2> QED BY <1>1, <2>1 DEF Freed, LocalOK
<1>4. /\ pc' = [t \in Threads |-> IF t \in S THEN "idle" ELSE pc[t]]
      /\ req' = [t \in Threads |-> IF t \in S THEN None ELSE req[t]]
      /\ data' = [t \in Threads |-> IF t \in S THEN Empty ELSE data[t]]
      /\ answer' = [t \in Threads |-> IF t \in S THEN "none" ELSE answer[t]]
      /\ saw' = [t \in Threads |-> IF t \in S THEN Empty ELSE saw[t]]
  BY DEF Freed
<1>5. LocalOK'
  BY <1>1, <1>2, <1>3, <1>4 DEF LocalOK, Labels, Replies, Contents
<1> QED BY <1>1, <1>2, <1>3, <1>4, <1>5 DEF LocalOK

\* The place of a request whose thread is free.
LEMMA IdlePlace ==
  ASSUME NEW t \in Threads, pc[t] = "idle", answer[t] = "none", linked[t] = FALSE
  PROVE  PlaceOf(t)
BY DEF PlaceOf, Busy

LEMMA BaseStep ==
  ASSUME BaseInv, [Next]_vars
  PROVE  BaseInv'
<1>1. ASSUME NEW t \in Threads, Serve(t) PROVE BaseInv'
  <2>1. PlaceOf(t) /\ LocalOK /\ DiskOK
    BY DEF BaseInv, Places
  <2>2. ASSUME NEW l, Steps(t, l), PlaceOf(t)' PROVE BaseInv'
    BY <2>2, BaseFromStep DEF Steps
  <2>3. ASSUME Quiet(t), pc'[t] = "answer", answer'[t] = "crash",
               pc[t] \notin {"write", "copywrite"}
        PROVE  BaseInv'
    <3>1. PlaceOf(t)'
      BY <2>1, <2>3 DEF Quiet, PlaceOf, Busy
    <3> QED BY <2>2, <2>3, <3>1, QuietSteps
  <2>4. CASE Looking(t)
    BY <2>2, <2>4, LookingQuiet, LookingPlace, QuietSteps
  <2>5. CASE OpenFile(t)
    <3>1. CASE Steps(t, "write") /\ answer' = answer
      <4>1. PlaceOf(t)'
        BY <2>1, <2>5, <3>1, OpenEffect DEF Steps, PlaceOf, Busy
      <4> QED BY <2>2, <3>1, <4>1
    <3> QED BY <2>3, <2>5, <3>1, OpenEffect
  <2>6. CASE WriteFile(t)
    <3>1. linked'[t] = FALSE /\ pc[t] = "write" /\ req' = req
      BY <2>1, <2>6, WriteEffect DEF LocalOK
    <3>2. CASE Steps(t, "emit") /\ answer' = answer
      <4>1. PlaceOf(t)'
        BY <2>1, <3>1, <3>2 DEF Steps, PlaceOf, Busy
      <4> QED BY <2>2, <3>2, <4>1
    <3>3. CASE Steps(t, "answer")
      <4>1. PlaceOf(t)'
        BY <2>1, <3>1, <3>3 DEF Steps, PlaceOf, Busy
      <4> QED BY <2>2, <3>3, <4>1
    <3> QED BY <2>6, <3>2, <3>3, WriteEffect
  <2>7. CASE DeleteFile(t)
    <3>1. CASE Steps(t, "emit") /\ answer' = answer /\ linked' = UnlinkedFrom(Writers(req[t].file))
      <4>1. pc[t] = "unlink" /\ ~ linked[t]
        BY <2>1, <2>7, DeleteEffect DEF PlaceOf
      <4>2. linked'[t] => linked[t]
        BY <3>1, UnlinkedOnly
      <4>3. PlaceOf(t)'
        BY <2>1, <3>1, <4>1, <4>2 DEF Steps, PlaceOf, Busy
      <4> QED BY <2>2, <3>1, <4>3
    <3> QED BY <2>3, <2>7, <3>1, DeleteEffect
  <2>8. CASE CopyOpen(t)
    <3>1. CASE Steps(t, "copywrite") /\ answer' = answer
      <4>1. PlaceOf(t)'
        BY <2>1, <2>8, <3>1, CopyOpenEffect DEF Steps, PlaceOf, Busy
      <4> QED BY <2>2, <3>1, <4>1
    <3> QED BY <2>3, <2>8, <3>1, CopyOpenEffect
  <2>9. CASE CopyWrite(t)
    <3>1. linked'[t] = FALSE /\ pc[t] = "copywrite" /\ req' = req
      BY <2>1, <2>9, CopyWriteEffect DEF LocalOK
    <3>2. CASE Steps(t, "run") /\ answer' = answer
      <4>1. PlaceOf(t)'
        BY <2>1, <3>1, <3>2 DEF Steps, PlaceOf, Busy
      <4> QED BY <2>2, <3>2, <4>1
    <3>3. CASE Steps(t, "answer")
      <4>1. PlaceOf(t)'
        BY <2>1, <3>1, <3>3 DEF Steps, PlaceOf, Busy
      <4> QED BY <2>2, <3>3, <4>1
    <3> QED BY <2>9, <3>2, <3>3, CopyWriteEffect
  <2>10. CASE CleanUp(t)
    <3>1. Steps(t, "emit") /\ answer' = answer /\ pc[t] = "clean" /\ ~ linked[t]
      BY <2>1, <2>10, CleanEffect DEF PlaceOf
    <3>2. linked'[t] => linked[t]
      BY <2>10, CleanEffect, UnlinkedOnly
    <3>3. PlaceOf(t)'
      BY <2>1, <3>1, <3>2 DEF Steps, PlaceOf, Busy
    <3> QED BY <2>2, <3>1, <3>3
  <2>11. CASE Respond(t)
    <3>1. Freed({t}) /\ UNCHANGED <<disk, tmp, spoiled, leaked>>
      BY <2>11 DEF Respond
    <3>2. /\ LocalOK' /\ Alone(t)
          /\ pc'[t] = "idle" /\ answer'[t] = "none" /\ linked'[t] = FALSE
      BY <3>1, FreedEffect DEF Alone
    <3>3. DiskOK' /\ PlaceOf(t)'
      BY <2>1, <3>1, <3>2, IdlePlace DEF DiskOK, PlaceOf, Busy
    <3> QED BY <3>2, <3>3, BaseFromStep
  <2> QED BY <1>1, <2>4, <2>5, <2>6, <2>7, <2>8, <2>9, <2>10, <2>11 DEF Serve, Looking
<1>2. ASSUME NEW t \in Threads, NEW r \in Requests, Receive(t, r) PROVE BaseInv'
  <2>1. /\ UNCHANGED <<disk, tmp, linked, spoiled, leaked>> /\ ~ linked[t]
        /\ Alone(t) /\ LocalOK' /\ req'[t] = r
        /\ \/ pc'[t] = "answer"
           \/ pc'[t] = FirstStep(r) /\ answer'[t] = "none" /\ ContentOK(r)
    BY <1>2, ReceiveEffect
  <2>2. DiskOK'
    BY <2>1 DEF BaseInv, DiskOK
  <2>3. PlaceOf(t)'
    BY <2>1, RequestFields DEF PlaceOf, Busy, FirstStep, ContentOK
  <2> QED BY <2>1, <2>2, <2>3, BaseFromStep
<1>3. CASE PumaRestarts
  <2>1. /\ Freed(Threads) /\ disk' = disk /\ tmp' = tmp
        /\ spoiled' \subseteq spoiled \union Files /\ leaked' \subseteq Templates
    BY <1>3 DEF PumaRestarts
  <2>2. LocalOK' /\ \A t \in Threads : /\ pc'[t] = "idle" /\ answer'[t] = "none"
                                       /\ linked'[t] = FALSE
    BY <2>1, FreedEffect
  <2>3. DiskOK' /\ Places'
    BY <2>1, <2>2 DEF BaseInv, DiskOK, Places, PlaceOf, Busy
  <2> QED BY <2>2, <2>3 DEF BaseInv
<1>4. CASE UNCHANGED vars
  BY <1>4 DEF vars, local, history, BaseInv, DiskOK, LocalOK, Places, PlaceOf, Busy
<1> QED BY <1>1, <1>2, <1>3, <1>4 DEF Next

\* Every variable keeps its type.
THEOREM TypeCorrect == Spec => []TypeOK
BY BaseIsTyped, BaseInit, BaseStep, PTL DEF Spec

-----------------------------------------------------------------------------
(* The steps of a request as the others see them.                          *)

Moves(t) == Alone(t) /\ \A u \in Threads \ {t} : Undisturbed(u)

LEMMA ServeMoves ==
  ASSUME BaseInv, NEW t \in Threads, Serve(t)
  PROVE  Moves(t)
<1>1. ASSUME NEW l, Steps(t, l) PROVE Moves(t)
  BY <1>1 DEF Steps, Moves
<1>2. CASE Quiet(t)
  BY <1>1, <1>2, QuietSteps
<1>3. CASE Looking(t)
  BY <1>2, <1>3, LookingQuiet
<1>4. CASE OpenFile(t) \/ WriteFile(t) \/ DeleteFile(t)
  BY <1>1, <1>2, <1>4, OpenEffect, WriteEffect, DeleteEffect
<1>5. CASE CopyOpen(t) \/ CopyWrite(t) \/ CleanUp(t)
  BY <1>1, <1>2, <1>5, CopyOpenEffect, CopyWriteEffect, CleanEffect
<1>6. CASE Respond(t)
  BY <1>6, FreedEffect DEF Respond, Moves, Alone, Undisturbed
<1> QED BY <1>3, <1>4, <1>5, <1>6 DEF Serve, Looking

LEMMA ReceiveMoves ==
  ASSUME BaseInv, NEW t \in Threads, NEW r \in Requests, Receive(t, r)
  PROVE  Moves(t)
BY ReceiveEffect DEF Moves, Undisturbed

-----------------------------------------------------------------------------
(* The copy of a template is cleaned up.                                   *)

\* A launch that still has its copy in the directory, or will remove it
HasCopy(t, f) ==
  /\ req[t].op = "launch" /\ req[t].file = f
  /\ \/ pc[t] \in {"run", "clean"}
     \/ pc[t] = "copywrite" /\ linked[t]

CopyOf(f) ==
  tmp[f] # Missing =>
    \/ f \in leaked
    \/ \E t \in Threads : HasCopy(t, f)

CopyInv == \A f \in Templates : CopyOf(f)

LEMMA CopyInit == Init => CopyInv
BY DEF Init, CopyInv, CopyOf

\* A step of t that does not take a file's copy from whoever has it.
LEMMA CopyFrame ==
  ASSUME CopyInv, NEW t \in Threads, Alone(t), NEW f \in Templates,
         tmp'[f] # Missing => tmp[f] # Missing,
         f \in leaked => f \in leaked',
         HasCopy(t, f) => HasCopy(t, f)',
         \A u \in Threads \ {t} : pc[u] = "copywrite" /\ req[u].file = f =>
           linked'[u] = linked[u]
  PROVE  CopyOf(f)'
<1> SUFFICES ASSUME tmp[f] # Missing, f \notin leaked
             PROVE  \E u \in Threads : HasCopy(u, f)'
  BY DEF CopyOf
<1>1. PICK u \in Threads : HasCopy(u, f)
  BY DEF CopyInv, CopyOf
<1>2. CASE u = t
  BY <1>1, <1>2
<1>3. CASE u # t
  <2>1. pc'[u] = pc[u] /\ req'[u] = req[u]
    BY <1>3 DEF Alone
  <2>2. HasCopy(u, f)'
    BY <1>1, <1>3, <2>1 DEF HasCopy
  <2> QED BY <2>2
<1> QED BY <1>2, <1>3

LEMMA CopyStep ==
  ASSUME BaseInv, CopyInv, [Next]_vars
  PROVE  CopyInv'
<1>1. ASSUME NEW t \in Threads, Alone(t), UNCHANGED <<tmp, leaked>>,
             pc[t] \notin {"copywrite", "run", "clean"},
             \A u \in Threads \ {t} : pc[u] = "copywrite" => linked'[u] = linked[u]
     PROVE  CopyInv'
  <2>1. \A f \in Templates : ~ HasCopy(t, f)
    BY <1>1 DEF HasCopy
  <2> QED BY <1>1, <2>1, CopyFrame DEF CopyInv
<1>2. ASSUME NEW t \in Threads, NEW r \in Requests, Receive(t, r) PROVE CopyInv'
  BY <1>1, <1>2, ReceiveEffect
<1>3. CASE PumaRestarts
  BY <1>3 DEF PumaRestarts, CopyInv, CopyOf
<1>4. CASE UNCHANGED vars
  BY <1>4 DEF vars, local, history, CopyInv, CopyOf, HasCopy
<1>5. ASSUME NEW t \in Threads, Serve(t) PROVE CopyInv'
  <2>0. PICK g : g = req[t].file
    OBVIOUS
  <2>1. Alone(t) /\ PlaceOf(t) /\ LocalOK /\ DiskOK
    BY <1>5, ServeMoves DEF Moves, BaseInv, Places
  <2>2. ASSUME Quiet(t), pc[t] \notin {"copywrite", "run", "clean"} PROVE CopyInv'
    BY <1>1, <2>1, <2>2 DEF Quiet
  <2>3. CASE Looking(t)
    <3>1. Quiet(t)
      BY <2>3, LookingQuiet
    <3>2. CASE RunLaunch(t)
      <4>1. pc[t] = "run" /\ pc'[t] = "clean"
        BY <2>1, <3>2 DEF RunLaunch, Goto, LocalOK
      <4>2. \A f \in Templates : HasCopy(t, f) => HasCopy(t, f)'
        BY <3>1, <4>1 DEF HasCopy, Quiet
      <4> QED BY <2>1, <3>1, <4>2, CopyFrame DEF Quiet, CopyInv
    <3>3. CASE ~ RunLaunch(t)
      BY <2>2, <2>3, <3>1, <3>3 DEF Looking, CheckFile, ReadFile, CopyRead, EmitEvent
    <3> QED BY <3>2, <3>3
  <2>4. CASE OpenFile(t) \/ WriteFile(t)
    <3>1. pc[t] \in {"open", "write"} /\ UNCHANGED <<tmp, leaked>>
      BY <2>4 DEF OpenFile, WriteFile
    <3>2. \/ linked' = linked
          \/ \E b \in BOOLEAN : linked' = [linked EXCEPT ![t] = b]
      BY <2>4 DEF OpenFile, WriteFile
    <3>3. \A u \in Threads \ {t} : linked'[u] = linked[u]
      BY <2>1, <3>2 DEF LocalOK
    <3> QED BY <1>1, <2>1, <3>1, <3>3
  <2>5. CASE DeleteFile(t)
    <3>1. pc[t] = "unlink" /\ UNCHANGED <<tmp, leaked>>
      BY <2>5 DEF DeleteFile
    <3>2. linked' = linked \/ linked' = UnlinkedFrom(Writers(g))
      BY <2>0, <2>5 DEF DeleteFile
    <3>3. \A u \in Threads : pc[u] = "copywrite" => linked'[u] = linked[u]
      BY <2>1, <3>2, UnlinkedOnly DEF Writers, LocalOK
    <3> QED BY <1>1, <2>1, <3>1, <3>3
  <2>6. CASE CopyOpen(t)
    <3>1. CASE Quiet(t) /\ pc[t] = "copyopen"
      BY <2>2, <3>1
    <3>2. CASE Steps(t, "copywrite") /\ pc[t] = "copyopen"
      <4>1. /\ tmp' = [tmp EXCEPT ![g] = Empty] /\ linked' = [linked EXCEPT ![t] = TRUE]
            /\ req' = req /\ leaked' = leaked /\ pc'[t] = "copywrite" /\ g \in Templates
            /\ req[t].op = "launch"
        <5>1. pc'[t] = "copywrite"
          BY <3>2 DEF Steps
        <5> QED BY <2>0, <2>1, <2>6, <3>2, <5>1, CopyOpenEffect DEF PlaceOf
      <4>2. linked'[t] /\ \A u \in Threads \ {t} : linked'[u] = linked[u]
        BY <2>1, <4>1 DEF LocalOK
      <4>3. HasCopy(t, g)'
        BY <2>0, <4>1, <4>2 DEF HasCopy
      <4>4. \A f \in Templates : f # g => tmp'[f] = tmp[f] /\ ~ HasCopy(t, f)
        BY <2>0, <2>1, <4>1 DEF DiskOK, HasCopy
      <4>5. CopyOf(g)'
        BY <4>3 DEF CopyOf
      <4>6. ASSUME NEW f \in Templates, f # g PROVE CopyOf(f)'
        BY <2>1, <4>1, <4>2, <4>4, <4>6, CopyFrame
      <4> QED BY <4>5, <4>6 DEF CopyInv
    <3> QED BY <2>6, <3>1, <3>2, CopyOpenEffect
  <2>7. CASE CopyWrite(t)
    <3>1. /\ pc[t] = "copywrite" /\ g \in Templates /\ req' = req
          /\ linked' = [linked EXCEPT ![t] = FALSE]
          /\ ~ linked[t] => tmp' = tmp
          /\ \A f \in Templates : f # g => tmp'[f] = tmp[f]
          /\ \/ pc'[t] = "run" /\ leaked' = leaked
             \/ leaked' = IF linked[t] THEN leaked \union {g} ELSE leaked
      BY <2>0, <2>7, CopyWriteEffect DEF Steps
    <3>2. req[t].op = "launch" /\ \A u \in Threads \ {t} : linked'[u] = linked[u]
      BY <2>1, <3>1 DEF PlaceOf, LocalOK
    <3>3. \A f \in Templates : f # g => CopyOf(f)'
      <4>1. \A f \in Templates : f # g => ~ HasCopy(t, f)
        BY <2>0 DEF HasCopy
      <4> QED BY <2>1, <3>1, <3>2, <4>1, CopyFrame
    <3>4. CASE pc'[t] = "run"
      <4>1. HasCopy(t, g)'
        BY <2>0, <3>1, <3>2, <3>4 DEF HasCopy
      <4>2. CopyOf(g)'
        BY <4>1 DEF CopyOf
      <4> QED BY <3>3, <4>2 DEF CopyInv
    <3>5. CASE pc'[t] # "run" /\ linked[t]
      <4>1. CopyOf(g)'
        BY <3>1, <3>5 DEF CopyOf
      <4> QED BY <3>3, <4>1 DEF CopyInv
    <3>6. CASE pc'[t] # "run" /\ ~ linked[t]
      <4>1. ~ HasCopy(t, g) /\ tmp' = tmp /\ leaked' = leaked
        BY <3>1, <3>6 DEF HasCopy
      <4>2. CopyOf(g)'
        BY <2>1, <3>1, <3>2, <4>1, CopyFrame
      <4> QED BY <3>3, <4>2 DEF CopyInv
    <3> QED BY <3>4, <3>5, <3>6
  <2>8. CASE CleanUp(t)
    <3>1. /\ g \in Templates /\ tmp' = [tmp EXCEPT ![g] = Missing]
          /\ linked' = UnlinkedFrom(Copiers(g)) /\ leaked' = leaked \ {g}
      BY <2>0, <2>8, CleanEffect
    <3>2. CopyOf(g)'
      BY <2>1, <3>1 DEF CopyOf, DiskOK
    <3>3. ASSUME NEW f \in Templates, f # g PROVE CopyOf(f)'
      <4>1. ~ HasCopy(t, f) /\ tmp'[f] = tmp[f] /\ (f \in leaked => f \in leaked')
        BY <2>0, <2>1, <3>1, <3>3 DEF HasCopy, DiskOK
      <4>2. \A u \in Threads : req[u].file = f => linked'[u] = linked[u]
        BY <2>1, <3>1, <3>3, UnlinkedOnly DEF Copiers, LocalOK
      <4> QED BY <2>1, <4>1, <4>2, CopyFrame
    <3> QED BY <3>2, <3>3 DEF CopyInv
  <2>9. CASE Respond(t)
    <3>1. pc[t] = "answer" /\ UNCHANGED <<tmp, leaked>>
          /\ \A u \in Threads \ {t} : linked'[u] = linked[u]
      BY <2>9, FreedEffect DEF Respond
    <3> QED BY <1>1, <2>1, <3>1
  <2> QED BY <1>5, <2>3, <2>4, <2>5, <2>6, <2>7, <2>8, <2>9 DEF Serve, Looking
<1> QED BY <1>2, <1>3, <1>4, <1>5 DEF Next

\* A copy that is there belongs to a launch under way, unless a launch could
\* not finish writing it or the server was restarted.
THEOREM CopyIsCleanedUpAlways == Spec => []CopyIsCleanedUp
<1>1. CopyInv => CopyIsCleanedUp
  BY DEF CopyInv, CopyOf, HasCopy, CopyIsCleanedUp
<1> QED BY <1>1, BaseInit, CopyInit, BaseStep, CopyStep, PTL DEF Spec

-----------------------------------------------------------------------------
(* Who is told that a file is saved or deleted finds it so.                *)

\* A request that nobody touched has its file as its last step left it.
SavedOf(t) ==
  Busy(t) /\ ~ touched[t] =>
    /\ pc[t] = "write" => linked[t] /\ disk[req[t].file] = Empty
    /\ pc[t] = "emit" \/ (pc[t] = "answer" /\ answer[t] = "ok") =>
         /\ req[t].op \in {"create", "update"} => disk[req[t].file] = req[t].content
         /\ req[t].op = "destroy" => disk[req[t].file] = Missing

SavedInv == \A t \in Threads : SavedOf(t)

LEMMA SavedInit == Init => SavedInv
BY DEF Init, SavedInv, SavedOf, Busy

LEMMA SavedOthers ==
  ASSUME BaseInv, SavedInv, NEW t \in Threads, Moves(t), SavedOf(t)'
  PROVE  SavedInv'
<1> SUFFICES ASSUME NEW u \in Threads, u # t PROVE SavedOf(u)'
  BY DEF SavedInv
<1>1. SavedOf(u) /\ Undisturbed(u) /\ PlaceOf(u)
  BY DEF SavedInv, Moves, BaseInv, Places
<1>2. pc'[u] = pc[u] /\ req'[u] = req[u] /\ answer'[u] = answer[u]
  BY DEF Moves, Alone
<1> QED BY <1>1, <1>2 DEF SavedOf, Undisturbed, PlaceOf, Busy

LEMMA SavedStep ==
  ASSUME BaseInv, SavedInv, [Next]_vars
  PROVE  SavedInv'
<1>1. ASSUME NEW t \in Threads, NEW r \in Requests, Receive(t, r) PROVE SavedInv'
  <2>1. /\ pc'[t] \in {"answer", "open", "check", "read", "copy"}
        /\ pc'[t] = "answer" => answer'[t] # "ok"
    BY <1>1, ReceiveEffect, RequestFields DEF FirstStep
  <2>2. SavedOf(t)'
    BY <2>1 DEF SavedOf
  <2> QED BY <1>1, <2>2, ReceiveMoves, SavedOthers
<1>2. CASE PumaRestarts
  BY <1>2, FreedEffect DEF PumaRestarts, SavedInv, SavedOf, Busy
<1>3. CASE UNCHANGED vars
  BY <1>3 DEF vars, local, history, SavedInv, SavedOf, Busy
<1>4. ASSUME NEW t \in Threads, Serve(t) PROVE SavedInv'
  <2>1. SavedOf(t) /\ PlaceOf(t) /\ LocalOK /\ DiskOK /\ Moves(t)
    BY <1>4, ServeMoves DEF SavedInv, BaseInv, Places
  <2>2. SUFFICES SavedOf(t)'
    BY <2>1, SavedOthers
  <2>3. CASE Quiet(t) /\ pc'[t] = "answer" /\ answer'[t] = "crash"
    BY <2>3 DEF SavedOf
  <2>4. CASE Looking(t)
    <3>1. Quiet(t)
      BY <2>4, LookingQuiet
    <3>2. CASE EmitEvent(t)
      <4>1. pc[t] = "emit"
        BY <3>2 DEF EmitEvent
      <4>2. pc'[t] = "answer"
        BY <2>1, <3>2 DEF EmitEvent, Answers, Goto, LocalOK
      <4> QED BY <2>1, <3>1, <4>1, <4>2 DEF SavedOf, Quiet, Busy
    <3>3. CASE CheckFile(t)
      <4>1. \/ pc'[t] = "answer" /\ answer'[t] = "refused"
            \/ pc'[t] = "unlink"
        BY <2>1, <3>3 DEF CheckFile, Answers, Goto, LocalOK
      <4> QED BY <4>1 DEF SavedOf
    <3>4. CASE ReadFile(t) \/ CopyRead(t) \/ RunLaunch(t)
      <4>1. req'[t].op \in {"show", "launch"}
        BY <2>1, <3>1, <3>4 DEF ReadFile, CopyRead, RunLaunch, PlaceOf, Quiet
      <4>2. pc'[t] # "write"
        BY <2>1, <3>4 DEF ReadFile, CopyRead, RunLaunch, Answers, Goto, LocalOK
      <4> QED BY <4>1, <4>2 DEF SavedOf
    <3> QED BY <2>4, <3>2, <3>3, <3>4 DEF Looking
  <2>5. CASE OpenFile(t) /\ Steps(t, "write")
    <3>1. pc'[t] = "write" /\ req' = req
      BY <2>5 DEF Steps
    <3>2. /\ req[t].file \in Files /\ disk' = [disk EXCEPT ![req[t].file] = Empty]
          /\ linked' = [linked EXCEPT ![t] = TRUE]
      BY <2>5, <3>1, OpenEffect
    <3>3. linked'[t] /\ disk'[req[t].file] = Empty
      BY <2>1, <3>2 DEF LocalOK, DiskOK
    <3> QED BY <3>1, <3>3 DEF SavedOf
  <2>6. CASE WriteFile(t)
    <3>1. pc[t] = "write" /\ req' = req /\ touched'[t] = touched[t]
      BY <2>6, WriteEffect
    <3>2. CASE pc'[t] = "emit"
      <4>1. linked[t] => disk'[req[t].file] \in Over(disk[req[t].file], req[t].content)
        BY <2>6, <3>2, WriteEffect DEF Steps
      <4>2. ~ touched[t] => disk'[req[t].file] = req[t].content
        BY <2>1, <3>1, <4>1, OverEmpty DEF SavedOf, Busy
      <4>3. req[t].op \in {"create", "update"}
        BY <2>1, <3>1 DEF PlaceOf
      <4> QED BY <3>1, <3>2, <4>2, <4>3 DEF SavedOf
    <3>3. CASE pc'[t] = "answer" /\ answer'[t] = "crash"
      BY <3>3 DEF SavedOf
    <3> QED BY <2>6, <3>2, <3>3, WriteEffect DEF Steps
  <2>7. CASE DeleteFile(t) /\ Steps(t, "emit")
    <3>1. pc'[t] = "emit" /\ req' = req
      BY <2>7 DEF Steps
    <3>2. /\ req[t].file \in Files /\ disk' = [disk EXCEPT ![req[t].file] = Missing]
          /\ pc[t] = "unlink"
      BY <2>7, <3>1, DeleteEffect
    <3>3. req[t].op = "destroy" /\ disk'[req[t].file] = Missing
      BY <2>1, <3>2 DEF PlaceOf, DiskOK
    <3> QED BY <3>1, <3>3 DEF SavedOf
  <2>8. CASE CopyOpen(t) \/ CopyWrite(t) \/ CleanUp(t)
    <3>1. req'[t].op = "launch"
      BY <2>1, <2>8 DEF CopyOpen, CopyWrite, CleanUp, PlaceOf
    <3>2. pc'[t] # "write"
      BY <2>1, <2>8 DEF CopyOpen, CopyWrite, CleanUp, Answers, Goto, LocalOK
    <3> QED BY <3>1, <3>2 DEF SavedOf
  <2>9. CASE Respond(t)
    BY <2>9, FreedEffect DEF Respond, SavedOf, Busy
  <2> QED BY <1>4, <2>3, <2>4, <2>5, <2>6, <2>7, <2>8, <2>9, OpenEffect, DeleteEffect
          DEF Serve, Looking
<1> QED BY <1>1, <1>2, <1>3, <1>4 DEF Next

\* Who is told that a file is saved, or deleted, finds it so on the disk, unless
\* another request changed the same file meanwhile.
THEOREM SavedIsOnDiskAlways == Spec => []SavedIsOnDisk
<1>1. SavedInv => SavedIsOnDisk
  BY DEF SavedInv, SavedOf, SavedIsOnDisk, Busy
<1> QED BY <1>1, BaseInit, SavedInit, BaseStep, SavedStep, PTL DEF Spec

-----------------------------------------------------------------------------
(* A VM is launched with what its template held.                           *)

\* A launch whose copy nobody else used finds there what it read.
LaunchOf(t) ==
  Busy(t) /\ req[t].op = "launch" /\ ~ touched[t] =>
    /\ pc[t] = "copywrite" => linked[t] /\ tmp[req[t].file] = Empty
    /\ pc[t] = "run" => tmp[req[t].file] = data[t]
    /\ answer[t] = "ok" => saw[t] = data[t]

LaunchInv == \A t \in Threads : LaunchOf(t)

LEMMA LaunchInit == Init => LaunchInv
BY DEF Init, LaunchInv, LaunchOf, Busy

LEMMA LaunchOthers ==
  ASSUME LaunchInv, NEW t \in Threads, Moves(t), LaunchOf(t)'
  PROVE  LaunchInv'
<1> SUFFICES ASSUME NEW u \in Threads, u # t PROVE LaunchOf(u)'
  BY DEF LaunchInv
<1>1. LaunchOf(u) /\ Undisturbed(u)
  BY DEF LaunchInv, Moves
<1>2. /\ pc'[u] = pc[u] /\ req'[u] = req[u] /\ answer'[u] = answer[u]
      /\ data'[u] = data[u] /\ saw'[u] = saw[u]
  BY DEF Moves, Alone
<1> QED BY <1>1, <1>2 DEF LaunchOf, Undisturbed, Busy

LEMMA LaunchStep ==
  ASSUME BaseInv, LaunchInv, [Next]_vars
  PROVE  LaunchInv'
<1>1. ASSUME NEW t \in Threads, NEW r \in Requests, Receive(t, r) PROVE LaunchInv'
  <2>1. pc'[t] \in {"answer", "open", "check", "read", "copy"} /\ answer'[t] # "ok"
    BY <1>1, ReceiveEffect, RequestFields DEF FirstStep
  <2>2. LaunchOf(t)'
    BY <2>1 DEF LaunchOf
  <2> QED BY <1>1, <2>2, ReceiveMoves, LaunchOthers
<1>2. CASE PumaRestarts
  BY <1>2, FreedEffect DEF PumaRestarts, LaunchInv, LaunchOf, Busy
<1>3. CASE UNCHANGED vars
  BY <1>3 DEF vars, local, history, LaunchInv, LaunchOf, Busy
<1>4. ASSUME NEW t \in Threads, Serve(t) PROVE LaunchInv'
  <2>1. LaunchOf(t) /\ PlaceOf(t) /\ LocalOK /\ DiskOK /\ Moves(t)
    BY <1>4, ServeMoves DEF LaunchInv, BaseInv, Places
  <2>2. SUFFICES LaunchOf(t)'
    BY <2>1, LaunchOthers
  <2>3. CASE pc'[t] = "answer" /\ answer'[t] # "ok"
    BY <2>3 DEF LaunchOf
  <2>4. CASE EmitEvent(t)
    <3>1. pc[t] = "emit" /\ UNCHANGED <<req, data, saw, touched>>
      BY <2>4 DEF EmitEvent, history
    <3>2. /\ pc'[t] = "answer"
          /\ answer'[t] = "ok" /\ req[t].op = "launch" => answer[t] = "ok"
      BY <2>1, <2>4, <3>1 DEF EmitEvent, Answers, Goto, LocalOK, PlaceOf
    <3> QED BY <2>1, <3>1, <3>2 DEF LaunchOf, Busy
  <2>5. CASE RunLaunch(t)
    <3>1. pc[t] = "run" /\ UNCHANGED <<tmp, req, data, touched>> /\ pc'[t] = "clean"
      BY <2>1, <2>5 DEF RunLaunch, Goto, LocalOK
    <3>2. \/ saw'[t] = tmp[req[t].file]
          \/ answer'[t] = "refused"
      BY <2>1, <2>5 DEF RunLaunch, LocalOK
    <3> QED BY <2>1, <3>1, <3>2 DEF LaunchOf, Busy
  <2>6. CASE CopyRead(t) \/ CheckFile(t) \/ ReadFile(t)
    <3>1. CASE CopyRead(t)
      <4>1. answer[t] = "none"
        BY <2>1, <3>1 DEF CopyRead, PlaceOf
      <4>2. \/ pc'[t] = "answer" /\ answer'[t] = "crash"
            \/ pc'[t] = "copyopen" /\ answer'[t] = "none"
        BY <2>1, <3>1, <4>1 DEF CopyRead, Answers, Goto, LocalOK
      <4> QED BY <4>2 DEF LaunchOf
    <3>2. CASE CheckFile(t) \/ ReadFile(t)
      <4>1. req'[t].op # "launch"
        BY <2>1, <3>2 DEF CheckFile, ReadFile, PlaceOf
      <4> QED BY <4>1 DEF LaunchOf
    <3> QED BY <2>6, <3>1, <3>2
  <2>7. CASE OpenFile(t) \/ WriteFile(t) \/ DeleteFile(t)
    <3>1. req'[t].op # "launch"
      BY <2>1, <2>7 DEF OpenFile, WriteFile, DeleteFile, PlaceOf
    <3> QED BY <3>1 DEF LaunchOf
  <2>8. CASE CopyOpen(t) /\ Steps(t, "copywrite")
    <3>1. pc'[t] = "copywrite" /\ req' = req
      BY <2>8 DEF Steps
    <3>2. /\ req[t].file \in Templates /\ tmp' = [tmp EXCEPT ![req[t].file] = Empty]
          /\ linked' = [linked EXCEPT ![t] = TRUE]
          /\ pc[t] = "copyopen" /\ answer' = answer
      BY <2>8, <3>1, CopyOpenEffect
    <3>3. linked'[t] /\ tmp'[req[t].file] = Empty /\ answer'[t] = "none"
      BY <2>1, <3>2 DEF LocalOK, DiskOK, PlaceOf
    <3> QED BY <3>1, <3>3 DEF LaunchOf
  <2>9. CASE CopyWrite(t)
    <3>1. /\ pc[t] = "copywrite" /\ UNCHANGED <<req, data>> /\ touched'[t] = touched[t]
      BY <2>9, CopyWriteEffect
    <3>2. CASE pc'[t] = "run"
      <4>1. /\ linked[t] => tmp'[req[t].file] \in Over(tmp[req[t].file], data[t])
            /\ answer' = answer
        BY <2>9, <3>2, CopyWriteEffect DEF Steps
      <4>2. ~ touched[t] /\ req[t].op = "launch" => tmp'[req[t].file] = data[t]
        BY <2>1, <3>1, <4>1, OverEmpty DEF LaunchOf, Busy
      <4>3. answer'[t] = "none"
        BY <2>1, <3>1, <4>1 DEF PlaceOf
      <4> QED BY <3>1, <3>2, <4>2, <4>3 DEF LaunchOf
    <3> QED BY <2>3, <2>9, <3>2, CopyWriteEffect DEF Steps
  <2>10. CASE CleanUp(t)
    <3>1. /\ pc[t] = "clean" /\ pc'[t] = "emit" /\ touched'[t] = touched[t]
          /\ UNCHANGED <<req, data, answer, saw>>
      BY <2>10, CleanEffect DEF Steps
    <3> QED BY <2>1, <3>1 DEF LaunchOf, Busy
  <2>11. CASE Respond(t)
    BY <2>11, FreedEffect DEF Respond, LaunchOf, Busy
  <2> QED BY <1>4, <2>3, <2>4, <2>5, <2>6, <2>7, <2>8, <2>9, <2>10, <2>11, CopyOpenEffect
          DEF Serve
<1> QED BY <1>1, <1>2, <1>3, <1>4 DEF Next

\* A VM is launched with what its template held when the launch read it, unless
\* another launch used the shared copy meanwhile.
THEOREM LaunchGetsTemplateAlways == Spec => []LaunchGetsTemplate
<1>1. LaunchInv => LaunchGetsTemplate
  BY DEF LaunchInv, LaunchOf, LaunchGetsTemplate, Busy
<1> QED BY <1>1, BaseInit, LaunchInit, BaseStep, LaunchStep, PTL DEF Spec

-----------------------------------------------------------------------------
(* A file is whole, but for a save under way.                              *)

Whole(f) == disk[f] \in Versions /\ (f \in Templates => disk[f] \in Valid)

\* A file is whole when nobody has it open, and empty when one request has;
\* nobody has a file open that is not there.
WholeOf(f) ==
  /\ disk[f] = Missing => Writers(f) = {}
  /\ f \notin spoiled =>
       \/ Writers(f) = {} /\ (disk[f] = Missing \/ Whole(f))
       \/ disk[f] = Empty /\ \E t \in Threads : Writers(f) = {t}

WholeInv == \A f \in Files : WholeOf(f)

LEMMA WholeInit == Init => WholeInv
BY DEF Init, WholeInv, WholeOf, Writers

\* A step of t leaves the other writers of a file alone.
LEMMA OtherWriters ==
  ASSUME NEW t \in Threads, Alone(t), NEW f,
         \A u \in Threads \ {t} : pc[u] = "write" /\ req[u].file = f =>
           linked'[u] = linked[u]
  PROVE  \A u \in Threads \ {t} : u \in Writers(f)' <=> u \in Writers(f)
BY DEF Alone, Writers

\* A step that leaves a file and its writers alone.
LEMMA WholeFrame ==
  ASSUME WholeInv, NEW t \in Threads, Alone(t), NEW f \in Files,
         disk'[f] = disk[f], f \in spoiled <=> f \in spoiled',
         t \in Writers(f)' <=> t \in Writers(f),
         \A u \in Threads \ {t} : pc[u] = "write" /\ req[u].file = f =>
           linked'[u] = linked[u]
  PROVE  WholeOf(f)'
<1>1. Writers(f)' = Writers(f)
  <2>1. Writers(f)' \subseteq Threads /\ Writers(f) \subseteq Threads
    BY DEF Writers
  <2> QED BY <2>1, OtherWriters
<1>2. Whole(f)' = Whole(f)
  BY DEF Whole
<1> QED BY <1>1, <1>2 DEF WholeInv, WholeOf

LEMMA WholeQuiet ==
  ASSUME WholeInv, NEW t \in Threads, Alone(t), disk' = disk, spoiled' = spoiled,
         pc[t] # "write", pc'[t] # "write",
         \A u \in Threads \ {t} : pc[u] = "write" => linked'[u] = linked[u]
  PROVE  WholeInv'
<1>1. \A f \in Files : t \notin Writers(f) /\ t \notin Writers(f)'
  BY DEF Writers
<1> QED BY <1>1, WholeFrame DEF WholeInv

LEMMA WholeStep ==
  ASSUME BaseInv, WholeInv, [Next]_vars
  PROVE  WholeInv'
<1>1. ASSUME NEW t \in Threads, NEW r \in Requests, Receive(t, r) PROVE WholeInv'
  <2>1. CASE pc'[t] # "write"
    BY <1>1, <2>1, ReceiveEffect, WholeQuiet
  <2>2. pc'[t] # "write"
    BY <1>1, ReceiveEffect, RequestFields DEF FirstStep
  <2> QED BY <2>1, <2>2
<1>2. CASE PumaRestarts
  <2>1. /\ disk' = disk /\ spoiled' = spoiled \union {f \in Files : Writers(f) # {}}
        /\ \A t \in Threads : pc'[t] = "idle"
    BY <1>2, FreedEffect DEF PumaRestarts
  <2>2. ASSUME NEW f \in Files PROVE WholeOf(f)'
    <3>1. Writers(f)' = {}
      BY <2>1 DEF Writers
    <3>2. Whole(f)' = Whole(f)
      BY <2>1 DEF Whole
    <3>3. f \notin spoiled' => f \notin spoiled /\ Writers(f) = {}
      BY <2>1
    <3> QED BY <2>1, <3>1, <3>2, <3>3 DEF WholeInv, WholeOf
  <2> QED BY <2>2 DEF WholeInv
<1>3. CASE UNCHANGED vars
  BY <1>3 DEF vars, local, history, WholeInv, WholeOf, Whole, Writers
<1>4. ASSUME NEW t \in Threads, Serve(t) PROVE WholeInv'
  <2>0. PICK g : g = req[t].file
    OBVIOUS
  <2>1. Alone(t) /\ PlaceOf(t) /\ LocalOK /\ DiskOK
    BY <1>4, ServeMoves DEF Moves, BaseInv, Places
  <2>2. CASE Quiet(t) /\ pc[t] # "write" /\ pc'[t] # "write"
    BY <2>1, <2>2, WholeQuiet DEF Quiet
  <2>3. CASE Looking(t)
    <3>1. pc[t] # "write" /\ pc'[t] # "write"
      BY <2>1, <2>3 DEF Looking, CheckFile, ReadFile, CopyRead, RunLaunch, EmitEvent,
                       Answers, Goto, LocalOK
    <3> QED BY <2>2, <2>3, <3>1, LookingQuiet
  <2>4. CASE OpenFile(t) /\ Steps(t, "write")
    <3>1. pc'[t] = "write" /\ pc[t] = "open"
      BY <2>4, OpenEffect DEF Steps
    <3>2. /\ g \in Files /\ disk' = [disk EXCEPT ![g] = Empty] /\ req' = req
          /\ linked' = [linked EXCEPT ![t] = TRUE]
          /\ spoiled' = IF Writers(g) = {} THEN spoiled \ {g} ELSE spoiled \union {g}
      BY <2>0, <2>4, <3>1, OpenEffect
    <3>3. linked'[t] = TRUE /\ \A u \in Threads \ {t} : linked'[u] = linked[u]
      BY <2>1, <3>2 DEF LocalOK
    <3>4. WholeOf(g)'
      <4>1. disk'[g] = Empty /\ Empty # Missing
        BY <2>1, <3>2, ConstantsOK DEF DiskOK
      <4>2. Writers(g) = {} => Writers(g)' = {t}
        <5>1. t \in Writers(g)'
          BY <2>0, <3>1, <3>2, <3>3 DEF Writers
        <5>2. Writers(g)' \subseteq Threads
          BY DEF Writers
        <5> QED BY <2>1, <3>3, <5>1, <5>2, OtherWriters
      <4> QED BY <3>2, <4>1, <4>2 DEF WholeOf
    <3>5. ASSUME NEW f \in Files, f # g PROVE WholeOf(f)'
      <4>1. disk'[f] = disk[f] /\ (f \in spoiled <=> f \in spoiled')
        BY <2>1, <3>2, <3>5 DEF DiskOK
      <4>2. t \notin Writers(f) /\ t \notin Writers(f)'
        BY <2>0, <3>2, <3>5 DEF Writers
      <4> QED BY <2>1, <3>3, <4>1, <4>2, WholeFrame
    <3> QED BY <3>4, <3>5 DEF WholeInv
  <2>5. CASE WriteFile(t)
    <3>1. /\ pc[t] = "write" /\ g \in Files /\ req' = req /\ pc'[t] # "write"
          /\ linked' = [linked EXCEPT ![t] = FALSE]
          /\ ~ linked[t] => disk' = disk
          /\ \A f \in Files : f # g => disk'[f] = disk[f]
          /\ \/ spoiled' = spoiled /\ (linked[t] => disk'[g] \in Over(disk[g], req[t].content))
             \/ spoiled' = IF linked[t] THEN spoiled \union {g} ELSE spoiled
      BY <2>0, <2>5, WriteEffect DEF Steps
    <3>2. linked'[t] = FALSE /\ \A u \in Threads \ {t} : linked'[u] = linked[u]
      BY <2>1, <3>1 DEF LocalOK
    <3>3. ASSUME NEW f \in Files, f # g \/ ~ linked[t] PROVE WholeOf(f)'
      <4>1. disk'[f] = disk[f] /\ (f \in spoiled <=> f \in spoiled')
        BY <3>1, <3>3
      <4>2. t \notin Writers(f) /\ t \notin Writers(f)'
        BY <2>0, <3>1, <3>3 DEF Writers
      <4> QED BY <2>1, <3>2, <4>1, <4>2, WholeFrame
    <3>4. CASE linked[t]
      <4>1. t \in Writers(g) /\ t \notin Writers(g)'
        BY <2>0, <3>1, <3>4 DEF Writers
      <4>2. disk[g] # Missing
        BY <3>1, <4>1 DEF WholeInv, WholeOf
      <4>3. req[t].content \in Versions /\ (g \in Templates => req[t].content \in Valid)
        BY <2>0, <2>1, <3>1, RequestFields DEF PlaceOf, Busy, ValidFor
      <4>4. disk'[g] # Missing
        <5>1. disk'[g] \in Over(disk[g], req[t].content) \/ disk'[g] \in {disk[g], Broken}
          BY <2>0, <2>1, <2>5, <3>1, <3>4 DEF WriteFile, DiskOK
        <5>2. Over(disk[g], req[t].content) \subseteq {disk[g], req[t].content, Broken}
          BY OverContents
        <5> QED BY <4>2, <4>3, <5>1, <5>2, ConstantsOK
      <4>5. g \notin spoiled' => Writers(g)' = {} /\ Whole(g)'
        <5>1. SUFFICES ASSUME g \notin spoiled' PROVE Writers(g)' = {} /\ Whole(g)'
          OBVIOUS
        <5>2. g \notin spoiled /\ disk'[g] \in Over(disk[g], req[t].content)
          BY <3>1, <3>4, <5>1
        <5>3. disk[g] = Empty /\ Writers(g) = {t}
          BY <3>1, <4>1, <5>2 DEF WholeInv, WholeOf
        <5>4. disk'[g] = req[t].content
          BY <5>2, <5>3, OverEmpty
        <5>5. Writers(g)' \subseteq Threads
          BY DEF Writers
        <5>6. Writers(g)' = {}
          BY <2>1, <3>2, <4>1, <5>3, <5>5, OtherWriters
        <5> QED BY <4>3, <5>4, <5>6 DEF Whole
      <4>6. WholeOf(g)'
        BY <4>4, <4>5 DEF WholeOf
      <4> QED BY <3>3, <4>6 DEF WholeInv
    <3> QED BY <3>3, <3>4 DEF WholeInv
  <2>6. CASE DeleteFile(t) /\ Steps(t, "emit")
    <3>1. pc'[t] = "emit" /\ pc[t] = "unlink"
      BY <2>6, DeleteEffect DEF Steps
    <3>2. /\ g \in Files /\ disk' = [disk EXCEPT ![g] = Missing]
          /\ linked' = UnlinkedFrom(Writers(g)) /\ spoiled' = spoiled \ {g}
          /\ req' = req
      BY <2>0, <2>6, <3>1, DeleteEffect
    <3>3. \A u \in Threads : linked'[u] <=> linked[u] /\ u \notin Writers(g)
      BY <3>2, UnlinkedOnly
    <3>4. WholeOf(g)'
      <4>1. Writers(g)' = {}
        <5>1. ASSUME NEW u \in Threads, pc'[u] = "write", linked'[u], req'[u].file = g
             PROVE  FALSE
          <6>1. u # t
            BY <3>1, <5>1
          <6>2. pc[u] = "write" /\ linked[u] /\ req[u].file = g
            BY <2>1, <3>3, <5>1, <6>1 DEF Alone
          <6>3. u \in Writers(g)
            BY <6>2 DEF Writers
          <6> QED BY <3>3, <5>1, <6>3
        <5> QED BY <5>1 DEF Writers
      <4>2. disk'[g] = Missing
        BY <2>1, <3>2 DEF DiskOK
      <4> QED BY <4>1, <4>2 DEF WholeOf
    <3>5. ASSUME NEW f \in Files, f # g PROVE WholeOf(f)'
      <4>1. disk'[f] = disk[f] /\ (f \in spoiled <=> f \in spoiled')
        BY <2>1, <3>2, <3>5 DEF DiskOK
      <4>2. t \notin Writers(f) /\ t \notin Writers(f)'
        BY <3>1 DEF Writers
      <4>3. \A u \in Threads \ {t} : req[u].file = f => linked'[u] = linked[u]
        <5>1. \A u \in Threads : linked'[u] \in BOOLEAN /\ linked[u] \in BOOLEAN
          BY <2>1, <3>2, UnlinkedOnly DEF LocalOK
        <5> QED BY <3>3, <3>5, <5>1 DEF Writers
      <4> QED BY <2>1, <4>1, <4>2, <4>3, WholeFrame
    <3> QED BY <3>4, <3>5 DEF WholeInv
  <2>7. CASE CopyOpen(t) \/ CopyWrite(t) \/ CleanUp(t)
    <3>1. disk' = disk /\ spoiled' = spoiled
      BY <2>7 DEF CopyOpen, CopyWrite, CleanUp
    <3>2. pc[t] # "write" /\ pc'[t] # "write"
      BY <2>1, <2>7 DEF CopyOpen, CopyWrite, CleanUp, Answers, Goto, LocalOK
    <3>3. \A u \in Threads \ {t} : pc[u] = "write" => linked'[u] = linked[u]
      <4>1. CASE CleanUp(t)
        <5>1. linked' = UnlinkedFrom(Copiers(g))
          BY <2>0, <4>1, CleanEffect
        <5>2. \A u \in Threads : pc[u] = "write" => u \notin Copiers(g)
          BY DEF Copiers
        <5> QED BY <2>1, <5>1, <5>2, UnlinkedOnly DEF LocalOK
      <4>2. CASE CopyOpen(t) \/ CopyWrite(t)
        BY <2>1, <4>2 DEF CopyOpen, CopyWrite, LocalOK
      <4> QED BY <2>7, <4>1, <4>2
    <3> QED BY <2>1, <3>1, <3>2, <3>3, WholeQuiet
  <2>8. CASE Respond(t)
    <3>1. /\ disk' = disk /\ spoiled' = spoiled /\ pc[t] = "answer" /\ pc'[t] = "idle"
          /\ \A u \in Threads \ {t} : linked'[u] = linked[u]
      BY <2>8, FreedEffect DEF Respond
    <3> QED BY <2>1, <3>1, WholeQuiet
  <2>9. CASE (OpenFile(t) \/ DeleteFile(t)) /\ Quiet(t) /\ pc'[t] = "answer"
    BY <2>2, <2>9 DEF OpenFile, DeleteFile
  <2> QED BY <1>4, <2>3, <2>4, <2>5, <2>6, <2>7, <2>8, <2>9, OpenEffect, DeleteEffect
          DEF Serve, Looking
<1> QED BY <1>1, <1>2, <1>3, <1>4 DEF Next

\* Apart from the moment between the two halves of a save, and from saves that
\* overlapped or failed, a file holds one whole version, valid if it is a
\* template, or does not exist.
THEOREM WholeUnlessSpoiledAlways == Spec => []WholeUnlessSpoiled
<1>1. \A t : Cardinality({t}) = 1
  BY FS_Singleton
<1>2. WholeInv => WholeUnlessSpoiled
  BY <1>1 DEF WholeInv, WholeOf, Whole, WholeUnlessSpoiled
<1> QED BY <1>2, BaseInit, WholeInit, BaseStep, WholeStep, PTL DEF Spec
=============================================================================
