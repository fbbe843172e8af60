-------------------------------- MODULE Build --------------------------------
(***************************************************************************)
(* The incremental build of build.sh: parallel compiles into bin/, the     *)
(* link, the ISO.  A developer edits while it runs or between builds and   *)
(* may stop it; a compiler that an ended build has left running is an      *)
(* orphan and still writes its object file.                                *)
(*                                                                         *)
(* What an object was compiled from is "now", the source and the headers   *)
(* as they are, or "old"; an image is "now" if it is one of all sources as *)
(* they are.  An edit makes what is there old, so that any number of edits *)
(* may occur.  compile_commands.json is left out.                          *)
(***************************************************************************)
EXTENDS Integers, Sequences, FiniteSets

CONSTANTS
  Files,     \* the .c files there may be
  maxJobs

ASSUME BuildConstants == IsFiniteSet(Files) /\ Files # {} /\ maxJobs \in Nat \ {0}

VARIABLES
  Sources,   \* the files there are
  object,    \* file |-> what its .o was compiled from, or "none"
  newer,     \* file |-> [[ -f fileOut && fileOut -nt file ]]
  raw,       \* the linked image
  iso,       \* the image in the ISO, and whether limine bios-install was run
  pc, todo,  \* where the script is, and the files find has still to name
  job,       \* file |-> "none", or the state of the script's job that compiles it
  reading,   \* file |-> what its compiler started from
  taskPids,  \* the jobs still to be waited for one by one
  reported,  \* the ended jobs that wait -n has reported
  orphans,   \* compilers left behind: [file, reading]
  unfinished,  \* history: objects may have changed since an ISO was last made of them
  suspects     \* history: files whose object may be newer and yet old

script == <<pc, todo, job, reading, taskPids, reported>>
vars == <<Sources, object, newer, raw, iso, script, orphans, unfinished, suspects>>

-----------------------------------------------------------------------------
Running == {f \in Files : job[f] = "running"}
Compiled == {f \in Files : job[f] # "none"}  \* compiledFilesCount

Init ==
  /\ Sources = Files
  /\ object = [f \in Files |-> "none"] /\ newer = [f \in Files |-> FALSE]
  /\ raw = "none" /\ iso = [image |-> "none", installed |-> FALSE]
  /\ pc = "idle" /\ todo = {} /\ job = [f \in Files |-> "none"]
  /\ reading = [f \in Files |-> "none"] /\ taskPids = <<>> /\ reported = {}
  /\ orphans = {} /\ unfinished = FALSE /\ suspects = {}

-----------------------------------------------------------------------------
(* The developer edits at any time, adds and removes files between builds. *)
(* A header has no rule of its own: no object depends on it.               *)
Aged(content) == IF content = "now" THEN "old" ELSE content
AgedIn(contents, edited) ==
  [f \in Files |-> IF f \in edited THEN Aged(contents[f]) ELSE contents[f]]

ImagesAge == raw' = Aged(raw) /\ iso' = [iso EXCEPT !.image = Aged(@)]

Edit(edited) ==
  /\ ImagesAge
  /\ object' = AgedIn(object, edited) /\ reading' = AgedIn(reading, edited)
  /\ orphans' = {[o EXCEPT !.reading = IF o.file \in edited THEN "old" ELSE @] : o \in orphans}
  /\ UNCHANGED <<pc, todo, job, taskPids, reported, unfinished>>

EditSource(f) ==
  /\ f \in Sources \/ pc \in {"idle", "done"}
  /\ Sources' = Sources \cup {f}
  /\ Edit({f})
  /\ newer' = [newer EXCEPT ![f] = FALSE]
  /\ suspects' = IF pc = "idle" THEN suspects ELSE suspects \cup {f}

EditHeader ==
  /\ Edit(Files)
  /\ suspects' = Files
  /\ UNCHANGED <<Sources, newer>>

RemoveSource(f) ==
  /\ pc \in {"idle", "done"} /\ f \in Sources /\ Sources # {f}
  /\ Sources' = Sources \ {f}
  /\ ImagesAge /\ unfinished' = TRUE
  /\ UNCHANGED <<object, newer, script, orphans, suspects>>

-----------------------------------------------------------------------------
(* A compiler ends.  It has read the file as it was when it started, or as *)
(* it is now, and the object is newer than either.  One that fails keeps   *)
(* the old object or removes it.                                           *)
Writes(f, content) ==
  /\ object' = [object EXCEPT ![f] = content]
  /\ newer' = [newer EXCEPT ![f] = TRUE]
  /\ suspects' = IF content = "now" THEN suspects \ {f} ELSE suspects \cup {f}

WritesNothing(f) ==
  /\ \/ object' = [object EXCEPT ![f] = "none"] /\ newer' = [newer EXCEPT ![f] = FALSE]
     \/ UNCHANGED <<object, newer>>
  /\ UNCHANGED suspects

JobEnds(f) ==
  /\ job[f] = "running"
  /\ \/ /\ \E content \in {reading[f], "now"} : Writes(f, content)
        /\ job' = [job EXCEPT ![f] = "ok"]
     \/ WritesNothing(f) /\ job' = [job EXCEPT ![f] = "failed"]
  /\ reading' = [reading EXCEPT ![f] = "none"]
  /\ UNCHANGED <<Sources, raw, iso, pc, todo, taskPids, reported, orphans, unfinished>>

OrphanEnds(o) ==
  /\ o \in orphans /\ orphans' = orphans \ {o}
  /\ \/ \E content \in {o.reading, "now"} : Writes(o.file, content)
     \/ WritesNothing(o.file)
  /\ unfinished' = TRUE
  /\ UNCHANGED <<Sources, raw, iso, script>>

-----------------------------------------------------------------------------
(* The script, up to its end or to the command that makes set -e end it.   *)
End(at) ==
  /\ pc' = at
  /\ todo' = {} /\ job' = [f \in Files |-> "none"]
  /\ reading' = [f \in Files |-> "none"] /\ taskPids' = <<>> /\ reported' = {}

Exit ==
  /\ End("idle")
  /\ orphans' = orphans \cup {[file |-> f, reading |-> reading[f]] : f \in Running}

Start ==
  /\ pc \in {"idle", "done"}
  /\ pc' = "process" /\ todo' = Sources
  /\ UNCHANGED <<Sources, object, newer, raw, iso, job, reading, taskPids, reported, orphans,
                 unfinished, suspects>>

(* processFiles skips a file whose object is there and newer.              *)
UpToDate(f) == newer[f]

Skip_Again(f) ==
  /\ pc = "process" /\ f \in todo /\ UpToDate(f)
  /\ UNCHANGED vars

Skip(f) ==
  /\ pc = "process" /\ f \in todo /\ UpToDate(f)
  /\ todo' = todo \ {f}
  /\ UNCHANGED <<Sources, object, newer, raw, iso, pc, job, reading, taskPids, reported,
                 orphans, unfinished, suspects>>

Compile(f) ==
  /\ pc = "process" /\ f \in todo /\ ~UpToDate(f)
  /\ todo' = todo \ {f}
  /\ job' = [job EXCEPT ![f] = "running"]
  /\ reading' = [reading EXCEPT ![f] = "now"]
  /\ taskPids' = Append(taskPids, f)
  /\ pc' = "jobs"
  /\ UNCHANGED <<Sources, object, newer, raw, iso, reported, orphans, unfinished, suspects>>

(* jobs -rp counts those that still run by then, the new one among them or *)
(* not; more of them may end before wait -n looks.                         *)
CountJobs ==
  /\ pc = "jobs"
  /\ pc' = IF Cardinality(Running) >= maxJobs THEN "wait -n" ELSE "process"
  /\ UNCHANGED <<Sources, object, newer, raw, iso, todo, job, reading, taskPids, reported,
                 orphans, unfinished, suspects>>

(* wait -n reports any job that has ended and was not reported yet, one    *)
(* that ended before too.                                                  *)
WaitAny ==
  /\ pc = "wait -n"
  /\ \E f \in Compiled \ (Running \cup reported) :
       IF job[f] = "ok"
       THEN /\ reported' = reported \cup {f} /\ pc' = "process"
            /\ UNCHANGED <<todo, job, reading, taskPids, orphans>>
       ELSE Exit
  /\ UNCHANGED <<Sources, object, newer, raw, iso, unfinished, suspects>>

AllNamed ==
  /\ pc = "process" /\ todo = {}
  /\ pc' = IF taskPids = <<>> THEN "link" ELSE "wait"
  /\ UNCHANGED <<Sources, object, newer, raw, iso, todo, job, reading, taskPids, reported,
                 orphans, unfinished, suspects>>

WaitPid_Ignores ==
  /\ pc = "wait" /\ job[Head(taskPids)] # "running"
  /\ taskPids' = Tail(taskPids)
  /\ pc' = IF Len(taskPids) = 1 THEN "link" ELSE "wait"
  /\ UNCHANGED <<Sources, object, newer, raw, iso, todo, job, reading, reported, orphans,
                 unfinished, suspects>>

WaitPid ==
  /\ pc = "wait" /\ job[Head(taskPids)] # "running"
  /\ IF job[Head(taskPids)] = "ok"
     THEN /\ taskPids' = Tail(taskPids)
          /\ pc' = IF Len(taskPids) = 1 THEN "link" ELSE "wait"
          /\ UNCHANGED <<todo, job, reading, reported, orphans>>
     ELSE Exit
  /\ UNCHANGED <<Sources, object, newer, raw, iso, unfinished, suspects>>

ObjectsCurrent == \A f \in Sources : object[f] = "now"

LinkSkipped_RawExists == raw # "none"

LinkSkipped == Compiled = {} /\ raw # "none"

Link ==
  /\ pc = "link"
  /\ \/ LinkSkipped /\ UNCHANGED <<raw, unfinished>>
     \/ /\ ~LinkSkipped /\ \A f \in Sources : object[f] # "none"
        /\ raw' = (IF ObjectsCurrent THEN "now" ELSE "old")
        /\ unfinished' = (unfinished /\ Compiled = {})
  /\ pc' = "iso"
  /\ UNCHANGED <<Sources, object, newer, iso, todo, job, reading, taskPids, reported, orphans,
                 suspects>>

(* A linker that fails keeps the old image (lld) or removes it (GNU ld).   *)
LinkFails ==
  /\ pc = "link" /\ ~LinkSkipped
  /\ raw' \in {raw, "none"} /\ unfinished' = TRUE
  /\ Exit
  /\ UNCHANGED <<Sources, object, newer, iso, suspects>>

(* buildLimine copies the image to iso_root and packs that.                *)
IsoSkipped == Compiled = {} /\ iso.image # "none"

MakeIso ==
  /\ pc = "iso"
  /\ IF IsoSkipped THEN End("done") /\ UNCHANGED iso
     ELSE /\ iso' = [image |-> raw, installed |-> FALSE]
          /\ pc' = "install" /\ UNCHANGED <<todo, job, reading, taskPids, reported>>
  /\ UNCHANGED <<Sources, object, newer, raw, orphans, unfinished, suspects>>

MakeIsoFails ==
  /\ pc = "iso" /\ ~IsoSkipped
  /\ iso' \in {iso, [image |-> "none", installed |-> FALSE]} /\ unfinished' = TRUE
  /\ Exit
  /\ UNCHANGED <<Sources, object, newer, raw, suspects>>

Install ==
  /\ pc = "install"
  /\ iso' = [iso EXCEPT !.installed = TRUE] /\ End("done")
  /\ UNCHANGED <<Sources, object, newer, raw, orphans, unfinished, suspects>>

(* bios-install fails, or the developer stops the script (background jobs  *)
(* ignore the interrupt).                                                  *)
Stopped ==
  /\ pc \notin {"idle", "done"}
  /\ Exit /\ unfinished' = TRUE
  /\ UNCHANGED <<Sources, object, newer, raw, iso, suspects>>

-----------------------------------------------------------------------------
Script ==
  \/ \E f \in Files : Skip(f) \/ Compile(f)
  \/ CountJobs \/ WaitAny \/ AllNamed \/ WaitPid \/ Link \/ LinkFails \/ MakeIso \/ MakeIsoFails \/ Install

Developer ==
  \/ Start \/ Stopped \/ EditHeader
  \/ \E f \in Files : EditSource(f) \/ RemoveSource(f)

Next ==
  \/ Script \/ Developer
  \/ \E f \in Files : JobEnds(f)
  \/ \E o \in orphans : OrphanEnds(o)

Spec == Init /\ [][Next]_vars

(* The script runs on and compilers end; nobody has to edit or to build.   *)
FairSpec == Spec /\ WF_vars(Script) /\ WF_vars(\E f \in Files : JobEnds(f))

-----------------------------------------------------------------------------
(* Every variable has its type, and a job to wait for is one of the script.*)
FilesTyped ==
  /\ Sources \subseteq Files /\ Sources # {} /\ todo \subseteq Sources
  /\ object \in [Files -> {"none", "old", "now"}] /\ newer \in [Files -> BOOLEAN]
  /\ unfinished \in BOOLEAN /\ suspects \subseteq Files

ImagesTyped ==
  /\ raw \in {"none", "old", "now"}
  /\ iso \in [image : {"none", "old", "now"}, installed : BOOLEAN]
  /\ pc \in {"idle", "process", "jobs", "wait -n", "wait", "link", "iso", "install",
             "done"}

JobsTyped ==
  /\ job \in [Files -> {"none", "running", "ok", "failed"}]
  /\ reading \in [Files -> {"none", "old", "now"}]
  /\ orphans \subseteq [file : Files, reading : {"old", "now"}]

WaitsTyped ==
  /\ taskPids \in Seq(Files) /\ \A k \in 1 .. Len(taskPids) : job[taskPids[k]] # "none"
  /\ \A f \in reported : f \in Files /\ job[f] \in {"ok", "failed"}

TypeOK == FilesTyped /\ ImagesTyped /\ JobsTyped /\ WaitsTyped

(* A build that ends well has made an ISO of the sources as they are,      *)
(* whatever compiles failed before and in whatever order jobs ended.  The  *)
(* exceptions: a file edited while it was compiled, a header edited, and a *)
(* link, ISO or clean end missing since objects last changed.              *)
ImageCurrent ==
  pc = "done" /\ ~unfinished /\ suspects \cap Sources = {} =>
    iso = [image |-> "now", installed |-> TRUE]

(* Nothing is linked while a compiler of this build runs or after one of   *)
(* them has failed.                                                        *)
LinkComplete ==
  pc \in {"link", "iso", "install"} => \A f \in Files : job[f] \in {"none", "ok"}

(* Why these hold.  A job is one of a source that is there and was named,  *)
(* and reads it.                                                           *)
JobsOfSources ==
  \A f \in Files : /\ job[f] # "none" => f \in Sources \ todo
                   /\ job[f] = "running" => reading[f] # "none"
                   /\ pc \in {"idle", "done"} => job[f] = "none"

(* Until all are waited for, a job that runs or has failed is waited for.  *)
JobsAwaited ==
  /\ pc \in {"process", "jobs", "wait -n", "wait"} =>
       \A f \in Files : job[f] \in {"running", "failed"} =>
                         \E k \in 1 .. Len(taskPids) : taskPids[k] = f
  /\ pc = "wait" => taskPids # <<>>

(* What -nt says of an object, but for the suspects.                       *)
ObjectsNewer ==
  \A f \in Files : /\ newer[f] => object[f] # "none" /\ (f \in suspects \/ object[f] = "now")
                   /\ object[f] = "now" => newer[f]

(* What a build has passed is newer, being compiled, edited or an orphan's;*)
(* no file that is being compiled, or could not be, is current.            *)
Passed(f) ==
  \/ f \in todo \/ job[f] \in {"running", "failed"}
  \/ newer[f] \/ f \in suspects \/ (object[f] = "none" /\ unfinished)
BuildProgress ==
  /\ pc # "idle" => \A f \in Sources : Passed(f)
  /\ pc \notin {"process", "jobs", "wait -n"} => todo = {}
  /\ \A f \in Files : job[f] \in {"running", "failed"} /\ ~unfinished => object[f] # "now"

(* As long as nothing is recompiled, current objects are in the ISO; from  *)
(* then on they come into the image and with it into the ISO.              *)
ImagesFollow ==
  ~unfinished /\ ObjectsCurrent =>
    /\ Compiled = {} => raw = "now" /\ iso = [image |-> "now", installed |-> TRUE]
    /\ pc \in {"iso", "install"} => raw = "now"
    /\ pc = "install" => iso.image = "now"

IInv ==
  /\ TypeOK /\ LinkComplete /\ JobsOfSources /\ JobsAwaited
  /\ ObjectsNewer /\ BuildProgress /\ ImagesFollow

(* Every build ends: no job is waited for that has been waited for.        *)
BuildEnds == pc = "process" ~> pc \in {"idle", "done"}

(* build.sh:342, "Skipping linking, files are up to date.": when the link  *)
(* is skipped and the objects are up to date, so is the image.             *)
FilesUpToDate == pc = "link" /\ LinkSkipped /\ ObjectsCurrent => raw = "now"
==============================================================================
