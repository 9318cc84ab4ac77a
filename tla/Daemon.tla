------------------------------- MODULE Daemon -------------------------------
(***************************************************************************)
(* lemas -daemon: handleSubmit of pkg/integration/api.go, composed with    *)
(* the orchestrator.  An upload is written to temp_uploads/<base name>,    *)
(* submitted by that path and removed five seconds later; the worker runs  *)
(* whatever lies at the path when it comes to the job.  Each request runs  *)
(* on a goroutine of its own.                                              *)
(*                                                                         *)
(* A file is named after the request that made it; creating a path that    *)
(* exists empties the file that is there.                                  *)
(***************************************************************************)
EXTENDS Orchestrator

CONSTANTS
    BaseName,  \* the base names a client may send
    Local,     \* a file named by ?path=, which the daemon neither writes nor removes
    NoFile

ASSUME DaemonAssumption == NoFile \notin Job

VARIABLES
    http,      \* where the request of each job is
    origin,    \* the base name it sent, or Local
    dir,       \* temp_uploads: the file at each name
    content,   \* what each file holds: an upload, "empty", or "mixed"
    fd,        \* the file each request has open for writing
    removal,   \* the goroutine that sleeps and removes is pending
    image,     \* the file each sample was started from
    ran,       \* history: what it held then
    disturbed  \* history: a request with the same base name wrote in between

uploadVars == <<dir, content, fd>>
httpVars == <<http, origin, uploadVars, removal, image, ran, disturbed>>

DaemonInit ==
    /\ Init
    /\ http = [j \in Job |-> "idle"] /\ origin = [j \in Job |-> NoFile]
    /\ dir = [n \in BaseName |-> NoFile] /\ content = [j \in Job |-> "empty"]
    /\ fd = [j \in Job |-> NoFile] /\ removal = [j \in Job |-> FALSE]
    /\ image = [j \in Job |-> NoFile] /\ ran = [j \in Job |-> "nothing"]
    /\ disturbed = [j \in Job |-> FALSE]

\* What lies at the path of j.
Source(j) == IF origin[j] = Local THEN j
             ELSE IF dir[origin[j]] = NoFile THEN NoFile ELSE content[dir[origin[j]]]

Executing(f) == \E k \in Job : proc[k] \in {"alive", "adrift"} /\ image[k] = f

Written(j, n) ==
    disturbed' = [k \in Job |-> disturbed[k] \/ (k # j /\ origin[k] = n /\ ran[k] = "nothing")]

\* Mutant: every upload goes to one file.
CreateShared(j) ==
    /\ up /\ http[j] = "idle"
    /\ \E n \in BaseName, p \in BaseName :
        LET f == IF dir[p] = NoFile THEN j ELSE dir[p]
        IN  /\ p = CHOOSE q \in BaseName : TRUE
            /\ ~Executing(f)
            /\ dir' = [dir EXCEPT ![p] = f] /\ content' = [content EXCEPT ![f] = "empty"]
            /\ fd' = [fd EXCEPT ![j] = f] /\ http' = [http EXCEPT ![j] = "created"]
            /\ origin' = [origin EXCEPT ![j] = p]
            /\ Written(j, n)
    /\ UNCHANGED <<vars, removal, image, ran>>

\* os.Create of the base name fails while a sample runs from the file there.
Create(j) ==
    /\ up /\ http[j] = "idle"
    /\ \E n \in BaseName :
        LET f == IF dir[n] = NoFile THEN j ELSE dir[n]
        IN  \/ /\ ~Executing(f)
               /\ dir' = [dir EXCEPT ![n] = f] /\ content' = [content EXCEPT ![f] = "empty"]
               /\ fd' = [fd EXCEPT ![j] = f] /\ http' = [http EXCEPT ![j] = "created"]
               /\ origin' = [origin EXCEPT ![j] = n]
               /\ Written(j, n)
            \/ /\ Executing(f)
               /\ http' = [http EXCEPT ![j] = "refused"]
               /\ UNCHANGED <<origin, uploadVars, disturbed>>
    /\ UNCHANGED <<vars, removal, image, ran>>

\* io.Copy: over what another request has already written, all or part of which
\* may remain.  When it fails the file stays behind.
Copy(j) ==
    /\ up /\ http[j] = "created"
    /\ \/ /\ \E c \in IF content[fd[j]] = "empty" THEN {j} ELSE {j, "mixed"} :
                content' = [content EXCEPT ![fd[j]] = c]
          /\ http' = [http EXCEPT ![j] = "submit"]
          /\ Written(j, origin[j])
          /\ UNCHANGED fd
       \/ /\ http' = [http EXCEPT ![j] = "refused"] /\ fd' = [fd EXCEPT ![j] = NoFile]
          /\ UNCHANGED <<content, disturbed>>
    /\ UNCHANGED <<vars, origin, dir, removal, image, ran>>

NamePath(j) ==
    /\ up /\ http[j] = "idle"
    /\ http' = [http EXCEPT ![j] = "submit"] /\ origin' = [origin EXCEPT ![j] = Local]
    /\ UNCHANGED <<vars, uploadVars, removal, image, ran, disturbed>>

\* os.Remove, whose error is ignored: an open file may stay.
RemoveUpload(j) == \E left \in {dir[origin[j]], NoFile} : dir' = [dir EXCEPT ![origin[j]] = left]

\* SubmitJob, in its three steps; a file that is gone is an error.
Submit(j) ==
    /\ http[j] = "submit" /\ submit[j] # "rejected"
    /\ \/ AnalyzeFileStatic(j) /\ (submit'[j] = "analysed" => Source(j) # NoFile)
       \/ SaveQueued(j)
       \/ Push(j)
    /\ IF submit'[j] = "accepted"
       THEN http' = [http EXCEPT ![j] = "answer"] /\ removal' = [removal EXCEPT ![j] = origin[j] # Local]
       ELSE UNCHANGED <<http, removal>>
    /\ UNCHANGED <<origin, uploadVars, image, ran, disturbed>>

Refuse(j) ==
    /\ up /\ http[j] = "submit" /\ submit[j] = "rejected"
    /\ IF origin[j] = Local THEN UNCHANGED dir ELSE RemoveUpload(j)
    /\ http' = [http EXCEPT ![j] = "refused"] /\ fd' = [fd EXCEPT ![j] = NoFile]
    /\ UNCHANGED <<vars, origin, content, removal, image, ran, disturbed>>

\* The answer is written; only now does the deferred Close run.
Answer(j) ==
    /\ up /\ http[j] = "answer"
    /\ http' = [http EXCEPT ![j] = "answered"] /\ fd' = [fd EXCEPT ![j] = NoFile]
    /\ UNCHANGED <<vars, origin, dir, content, removal, image, ran, disturbed>>

FiveSecondsLater(j) ==
    /\ up /\ removal[j]
    /\ RemoveUpload(j) /\ removal' = [removal EXCEPT ![j] = FALSE]
    /\ UNCHANGED <<vars, http, origin, content, fd, image, ran, disturbed>>

\* CreateProcess starts the file at the path of the job, which fails when there
\* is none or a request still has it open for writing.
Launch ==
    /\ CreateProcess
    /\ IF pc' = "monitor"
       THEN /\ Source(cur) # NoFile
            /\ origin[cur] # Local => \A k \in Job : fd[k] # dir[origin[cur]]
            /\ ran' = [ran EXCEPT ![cur] = Source(cur)]
            /\ image' = [image EXCEPT ![cur] = IF origin[cur] = Local THEN NoFile ELSE dir[origin[cur]]]
       ELSE UNCHANGED <<ran, image>>
    /\ UNCHANGED <<http, origin, uploadVars, removal, disturbed>>

Request(j) == \/ Create(j) \/ Copy(j) \/ NamePath(j) \/ Submit(j) \/ Refuse(j) \/ Answer(j)
              \/ FiveSecondsLater(j)

\* main returns on a signal: cancel, Close, and the process is gone.
Stop == ctxDone /\ ~storeOpen /\ ProcessEnds /\ UNCHANGED httpVars

Beside == /\ \/ Worker /\ pc # "launch"
             \/ WatcherKills \/ WaitReturns \/ WaitFails \/ Deadline \/ \E j \in Job : SampleExits(j)
             \/ Cancel \/ Close
          /\ UNCHANGED httpVars

DaemonNext == (\E j \in Job : Request(j)) \/ Launch \/ Beside \/ Stop

DaemonSpec == DaemonInit /\ [][DaemonNext]_<<vars, httpVars>>

-----------------------------------------------------------------------------
(* Properties.                                                             *)

\* A job runs another upload, a mixture or nothing of its own file only if a
\* request with the same base name wrote between its own upload and its launch:
\* no removal, refusal or leftover of an earlier upload brings it about
\* (handleSubmit, executeJob).
OwnUpload == \A j \in Job : ran[j] \in {"nothing", j} \/ disturbed[j]
=============================================================================
