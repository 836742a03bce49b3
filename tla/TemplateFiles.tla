---------------------------- MODULE TemplateFiles ----------------------------
(***************************************************************************)
(* The YAML files the application keeps on disk, cloud-init templates and  *)
(* Ansible playbooks: the requests of CloudInitTemplatesController and     *)
(* PlaybooksController that save, delete and show one, and the launch of a *)
(* VM with a template, which copies it to a temporary file that the        *)
(* confined multipass can read.  Nothing locks a file, and File.write is   *)
(* two steps: open, which truncates, and write.                            *)
(***************************************************************************)
EXTENDS Naturals, FiniteSets

CONSTANTS
  Templates,  \* file names in cloud_init_dir
  Playbooks,  \* file names in playbooks_dir
  Versions,   \* what a user may save in a file
  Valid,      \* those that validate_cloud_init_yaml! accepts
  Missing,    \* there is no such file
  Empty,      \* a file of no bytes
  Broken,     \* a file that holds no version: bytes of two, or the half of one
  Threads,
  None        \* no request

Files == Templates \union Playbooks
Contents == Versions \union {Empty, Broken}

ASSUME ConstantsOK ==
  /\ Templates \intersect Playbooks = {}
  /\ Valid \subseteq Versions
  /\ Missing # Empty /\ Empty # Broken /\ Missing # Broken
  /\ Versions \intersect {Missing, Empty, Broken} = {}

\* A new file's name comes in the form; the others in the path, where the
\* router ends it at its dot unless the client escaped the dot.
Requests ==
  [op : {"create"}, file : Files, content : Versions]
    \union [op : {"update"}, file : Files, content : Versions, escaped : BOOLEAN]
    \union [op : {"destroy", "show"}, file : Files, escaped : BOOLEAN]
    \union [op : {"launch"}, file : Templates]

VARIABLES
  disk,     \* the files
  tmp,      \* of each template, passgo-cloud-init-<name> in the directory that
            \* multipass can read
  pc,       \* where each thread is
  req,      \* the request it serves
  linked,   \* the file it has open is still the one in the directory
  data,     \* what it has read
  answer,   \* "none", "ok", "refused" (rescued) or "crash" (a 500)
  saw,      \* history: the user data multipass launched its VM with
  touched,  \* history: another request changed its file since it began
  spoiled,  \* history: files whose last saves overlapped or failed
  leaked    \* history: temporary files whose launch could not remove them

local == <<pc, req, linked, data, answer>>
history == <<saw, touched, spoiled, leaked>>
vars == <<disk, tmp, local, history>>

TypeOK ==
  /\ disk \in [Files -> Contents \union {Missing}]
  /\ tmp \in [Templates -> Contents \union {Missing}]
  /\ pc \in [Threads -> {"idle", "open", "write", "check", "unlink", "read", "copy",
                         "copyopen", "copywrite", "run", "clean", "emit", "answer"}]
  /\ req \in [Threads -> Requests \union {None}]
  /\ \A t \in Threads : pc[t] # "idle" => req[t] \in Requests
  /\ linked \in [Threads -> BOOLEAN]
  /\ data \in [Threads -> Contents]
  /\ answer \in [Threads -> {"none", "ok", "refused", "crash"}]
  /\ saw \in [Threads -> Contents]
  /\ touched \in [Threads -> BOOLEAN]
  /\ spoiled \subseteq Files /\ leaked \subseteq Templates

Init ==
  /\ disk = [f \in Files |-> Missing]
  /\ tmp = [f \in Templates |-> Missing]
  /\ pc = [t \in Threads |-> "idle"]
  /\ req = [t \in Threads |-> None]
  /\ linked = [t \in Threads |-> FALSE]
  /\ data = [t \in Threads |-> Empty]
  /\ answer = [t \in Threads |-> "none"]
  /\ saw = [t \in Threads |-> Empty]
  /\ touched = [t \in Threads |-> FALSE]
  /\ spoiled = {} /\ leaked = {}

-----------------------------------------------------------------------------
(* Files.                                                                  *)

\* Mutant: the file is opened for writing without truncating it.
Opened_Kept(c) == IF c = Missing THEN Empty ELSE c

\* open(O_CREAT | O_TRUNC)
Opened(c) == Empty

\* write(new) at offset 0 of a file that holds old
Over(old, new) ==
  CASE new = Empty -> {old}
    [] old \in {Empty, new} /\ new # Empty -> {new}
    [] OTHER -> {new, Broken}

\* Requests on file f that have it open for writing, or (launches) its copy
Writers(f) == {t \in Threads : pc[t] = "write" /\ linked[t] /\ req[t].file = f}
Copiers(f) == {t \in Threads : pc[t] = "copywrite" /\ linked[t] /\ req[t].file = f}

\* The file of t goes from the directory: others write to what they have open.
UnlinkedFrom(S) == [t \in Threads |-> linked[t] /\ t \notin S]

\* t changes its file: the requests whose business it is take note.
Touches(t) ==
  touched' = [u \in Threads |->
               \/ touched[u]
               \/ /\ u # t /\ pc[u] # "idle"
                  /\ req[u].file = req[t].file
                  /\ (req[u].op = "launch") = (req[t].op = "launch")]

-----------------------------------------------------------------------------
(* Names and contents.                                                     *)

\* Mutant: templates, too, are saved as they come.
ValidFor_Any(f, c) == TRUE

\* Playbooks are saved as they come.
ValidFor(f, c) == f \in Templates => c \in Valid

\* sanitize_template_name! refuses a name without its extension.
NameOK(r) == r.op \in {"update", "destroy", "show"} => r.escaped

ContentOK(r) == r.op \in {"create", "update"} => ValidFor(r.file, r.content)

\* How a request that fails validation ends.  The content is looked at first,
\* and YAML that does not parse raises Psych::SyntaxError, which nobody
\* rescues; the ArgumentErrors are rescued everywhere but in show.
Refusals(r) ==
  CASE ~ ContentOK(r) -> {"refused", "crash"}
    [] ContentOK(r) /\ ~ NameOK(r) -> {IF r.op = "show" THEN "crash" ELSE "refused"}
    [] OTHER -> {}

FirstStep(r) ==
  CASE r.op \in {"create", "update"} -> "open"
    [] r.op = "destroy" -> "check"
    [] r.op = "show" -> "read"
    [] r.op = "launch" -> "copy"

Goto(t, l) == pc' = [pc EXCEPT ![t] = l]
Answers(t, a) == Goto(t, "answer") /\ answer' = [answer EXCEPT ![t] = a]

Receive(t, r) ==
  /\ pc[t] = "idle"
  /\ req' = [req EXCEPT ![t] = r]
  /\ \/ \E a \in Refusals(r) : Answers(t, a)
     \/ /\ Refusals(r) = {}
        /\ Goto(t, FirstStep(r))
        /\ UNCHANGED answer
  /\ UNCHANGED <<disk, tmp, linked, data, history>>

-----------------------------------------------------------------------------
(* Saving, deleting and showing a file.                                    *)

\* mkdir_p and the first half of File.write.  Its failure is no ArgumentError.
OpenFile(t) ==
  LET f == req[t].file
  IN /\ pc[t] = "open"
     /\ \/ /\ disk' = [disk EXCEPT ![f] = Opened(@)]
           /\ linked' = [linked EXCEPT ![t] = TRUE]
           /\ spoiled' = IF Writers(f) = {} THEN spoiled \ {f}
                                            ELSE spoiled \union {f}
           /\ Touches(t)
           /\ Goto(t, "write")
           /\ UNCHANGED answer
        \/ /\ Answers(t, "crash")
           /\ UNCHANGED <<disk, linked, spoiled, touched>>
     /\ UNCHANGED <<tmp, req, data, saw, leaked>>

\* The second half; a full disk cuts it short.
WriteFile(t) ==
  LET f == req[t].file
  IN /\ pc[t] = "write"
     /\ \/ /\ IF linked[t]
                THEN \E c \in Over(disk[f], req[t].content) :
                       disk' = [disk EXCEPT ![f] = c]
                ELSE UNCHANGED disk
           /\ Goto(t, "emit")
           /\ UNCHANGED <<answer, spoiled>>
        \/ /\ IF linked[t]
                THEN \E c \in {disk[f], Broken} : disk' = [disk EXCEPT ![f] = c]
                ELSE UNCHANGED disk
           /\ spoiled' = IF linked[t] THEN spoiled \union {f} ELSE spoiled
           /\ Answers(t, "crash")
     /\ linked' = [linked EXCEPT ![t] = FALSE]
     /\ IF linked[t] THEN Touches(t) ELSE UNCHANGED touched
     /\ UNCHANGED <<tmp, req, data, saw, leaked>>

\* raise ArgumentError, "template not found" unless File.exist?(path)
CheckFile(t) ==
  /\ pc[t] = "check"
  /\ IF disk[req[t].file] = Missing THEN Answers(t, "refused")
                                    ELSE Goto(t, "unlink") /\ UNCHANGED answer
  /\ UNCHANGED <<disk, tmp, req, linked, data, history>>

\* File.delete; that the file is gone meanwhile is no ArgumentError.
DeleteFile(t) ==
  LET f == req[t].file
  IN /\ pc[t] = "unlink"
     /\ IF disk[f] = Missing
          THEN Answers(t, "crash") /\ UNCHANGED <<disk, linked, touched, spoiled>>
          ELSE /\ disk' = [disk EXCEPT ![f] = Missing]
               /\ linked' = UnlinkedFrom(Writers(f))
               /\ spoiled' = spoiled \ {f}
               /\ Touches(t)
               /\ Goto(t, "emit")
               /\ UNCHANGED answer
     /\ UNCHANGED <<tmp, req, data, saw, leaked>>

\* Mutant: a file that is not there is read all the same.
Unreadable_Never(f) == FALSE

\* Errno::ENOENT
Unreadable(f) == disk[f] = Missing

\* read_cloud_init_template, read_playbook
ReadFile(t) ==
  LET f == req[t].file
  IN /\ pc[t] = "read"
     /\ IF Unreadable(f)
          THEN Answers(t, "crash") /\ UNCHANGED data
          ELSE Answers(t, "ok") /\ data' = [data EXCEPT ![t] = disk[f]]
     /\ UNCHANGED <<disk, tmp, req, linked, history>>

-----------------------------------------------------------------------------
(* launch_vm with a cloud_init_file.                                       *)

\* copy_for_snap: File.binread.  Its errors are not rescued.
CopyRead(t) ==
  LET f == req[t].file
  IN /\ pc[t] = "copy"
     /\ IF Unreadable(f)
          THEN Answers(t, "crash") /\ UNCHANGED data
          ELSE /\ data' = [data EXCEPT ![t] = disk[f]]
               /\ Goto(t, "copyopen")
               /\ UNCHANGED answer
     /\ UNCHANGED <<disk, tmp, req, linked, history>>

\* File.binwrite under a name made of the template's: launches share it.
CopyOpen(t) ==
  LET f == req[t].file
  IN /\ pc[t] = "copyopen"
     /\ \/ /\ tmp' = [tmp EXCEPT ![f] = Opened(@)]
           /\ linked' = [linked EXCEPT ![t] = TRUE]
           /\ Touches(t)
           /\ Goto(t, "copywrite")
           /\ UNCHANGED answer
        \/ /\ Answers(t, "crash")
           /\ UNCHANGED <<tmp, linked, touched>>
     /\ UNCHANGED <<disk, req, data, saw, spoiled, leaked>>

\* A full disk cuts it short before @last_cloud_init_tmp is set.
CopyWrite(t) ==
  LET f == req[t].file
  IN /\ pc[t] = "copywrite"
     /\ \/ /\ IF linked[t]
                THEN \E c \in Over(tmp[f], data[t]) : tmp' = [tmp EXCEPT ![f] = c]
                ELSE UNCHANGED tmp
           /\ Goto(t, "run")
           /\ UNCHANGED <<answer, leaked>>
        \/ /\ IF linked[t]
                THEN \E c \in {tmp[f], Broken} : tmp' = [tmp EXCEPT ![f] = c]
                ELSE UNCHANGED tmp
           /\ leaked' = IF linked[t] THEN leaked \union {f} ELSE leaked
           /\ Answers(t, "crash")
     /\ linked' = [linked EXCEPT ![t] = FALSE]
     /\ IF linked[t] THEN Touches(t) ELSE UNCHANGED touched
     /\ UNCHANGED <<disk, req, data, saw, spoiled>>

\* multipass launch --cloud-init reads the copy, or refuses for some reason.
RunLaunch(t) ==
  LET f == req[t].file
  IN /\ pc[t] = "run"
     /\ \/ /\ tmp[f] # Missing
           /\ saw' = [saw EXCEPT ![t] = tmp[f]]
           /\ answer' = [answer EXCEPT ![t] = "ok"]
        \/ /\ answer' = [answer EXCEPT ![t] = "refused"]
           /\ UNCHANGED saw
     /\ Goto(t, "clean")
     /\ UNCHANGED <<disk, tmp, req, linked, data, touched, spoiled, leaked>>

\* Mutant: the copy is removed after a launch, not in an ensure.
CleansAfter_Ok(a) == a = "ok"

CleansAfter(a) == a \in {"ok", "refused"}

\* ensure FileUtils.rm_f(@last_cloud_init_tmp)
CleanUp(t) ==
  LET f == req[t].file
  IN /\ pc[t] = "clean"
     /\ IF CleansAfter(answer[t])
          THEN /\ tmp' = [tmp EXCEPT ![f] = Missing]
               /\ linked' = UnlinkedFrom(Copiers(f))
               /\ leaked' = leaked \ {f}
               /\ Touches(t)
          ELSE UNCHANGED <<tmp, linked, leaked, touched>>
     /\ Goto(t, "emit")
     /\ UNCHANGED <<disk, req, data, answer, saw, spoiled>>

-----------------------------------------------------------------------------
\* The Event (which may fail: see VmOperations), and the answer.
EmitEvent(t) ==
  /\ pc[t] = "emit"
  /\ \/ Answers(t, IF answer[t] = "none" THEN "ok" ELSE answer[t])
     \/ Answers(t, "crash")
  /\ UNCHANGED <<disk, tmp, req, linked, data, history>>

Freed(S) ==
  /\ pc' = [t \in Threads |-> IF t \in S THEN "idle" ELSE pc[t]]
  /\ req' = [t \in Threads |-> IF t \in S THEN None ELSE req[t]]
  /\ linked' = UnlinkedFrom(S)
  /\ data' = [t \in Threads |-> IF t \in S THEN Empty ELSE data[t]]
  /\ answer' = [t \in Threads |-> IF t \in S THEN "none" ELSE answer[t]]
  /\ saw' = [t \in Threads |-> IF t \in S THEN Empty ELSE saw[t]]
  /\ touched' = [t \in Threads |-> touched[t] /\ t \notin S]

Respond(t) ==
  /\ pc[t] = "answer"
  /\ Freed({t})
  /\ UNCHANGED <<disk, tmp, spoiled, leaked>>

\* systemd restarts Puma: what is half written stays so.
PumaRestarts ==
  /\ \E t \in Threads : pc[t] # "idle"
  /\ Freed(Threads)
  /\ spoiled' = spoiled \union {f \in Files : Writers(f) # {}}
  /\ leaked' = {f \in Templates : tmp[f] # Missing}
  /\ UNCHANGED <<disk, tmp>>

Serve(t) ==
  \/ OpenFile(t) \/ WriteFile(t)
  \/ CheckFile(t) \/ DeleteFile(t)
  \/ ReadFile(t)
  \/ CopyRead(t) \/ CopyOpen(t) \/ CopyWrite(t) \/ RunLaunch(t) \/ CleanUp(t)
  \/ EmitEvent(t)
  \/ Respond(t)

Next ==
  \/ \E t \in Threads : Serve(t) \/ \E r \in Requests : Receive(t, r)
  \/ PumaRestarts

Spec == Init /\ [][Next]_vars

-----------------------------------------------------------------------------
(* Properties that hold.                                                   *)

\* Who is told that a file is saved, or deleted, finds it so on the disk,
\* unless another request changed the same file meanwhile.
SavedIsOnDisk ==
  \A t \in Threads : pc[t] = "answer" /\ answer[t] = "ok" /\ ~ touched[t] =>
    /\ req[t].op \in {"create", "update"} => disk[req[t].file] = req[t].content
    /\ req[t].op = "destroy" => disk[req[t].file] = Missing

\* Apart from the moment between the two halves of a save, and from saves that
\* overlapped or failed, a file holds one whole version (a valid one, if it is
\* a template) or does not exist.
WholeUnlessSpoiled ==
  \A f \in Files \ spoiled :
    \/ disk[f] = Missing
    \/ disk[f] \in Versions /\ (f \in Templates => disk[f] \in Valid)
    \/ disk[f] = Empty /\ Cardinality(Writers(f)) = 1

\* The VM is launched with what the template held when the launch read it,
\* unless another launch used the shared copy meanwhile: a copy left behind by
\* a failed launch does no harm.
LaunchGetsTemplate ==
  \A t \in Threads :
    /\ pc[t] = "answer" /\ req[t].op = "launch"
    /\ answer[t] = "ok" /\ ~ touched[t]
    => saw[t] = data[t]

\* "cloud-init temp file is cleaned up regardless of launch outcome": a copy
\* that is there belongs to a launch under way, unless a launch could not
\* finish writing it or the server was restarted.
CopyIsCleanedUp ==
  \A f \in Templates : tmp[f] # Missing =>
    \/ f \in leaked
    \/ \E t \in Threads : /\ pc[t] \in {"copywrite", "run", "clean"}
                          /\ req[t].op = "launch" /\ req[t].file = f
=============================================================================
