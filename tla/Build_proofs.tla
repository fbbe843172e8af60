---------------------------- MODULE Build_proofs ----------------------------
(***************************************************************************)
(* Proofs about Build, for any number of files and of jobs.                *)
(***************************************************************************)
EXTENDS Build, SequenceTheorems, TLAPS

-----------------------------------------------------------------------------
(* What the actions have in common.                                        *)

(* The end of the script leaves no job behind in its own tables.           *)
LEMMA Ended ==
  ASSUME NEW at, End(at)
  PROVE  /\ pc' = at /\ todo' = {} /\ reported' = {}
         /\ job' \in [Files -> {"none", "running", "ok", "failed"}]
         /\ reading' \in [Files -> {"none", "old", "now"}]
         /\ \A f \in Files : job'[f] = "none"
         /\ taskPids' \in Seq(Files) /\ Len(taskPids') = 0
  BY DEF End

(* What it leaves running is an orphan that still knows what it has read.  *)
LEMMA Exited ==
  ASSUME IInv, Exit
  PROVE  orphans' \subseteq [file : Files, reading : {"old", "now"}]
<1>1. \A f \in Running : f \in Files /\ reading[f] \in {"old", "now"}
  BY DEF IInv, TypeOK, JobsTyped, JobsOfSources, Running
<1>2. {[file |-> f, reading |-> reading[f]] : f \in Running}
        \subseteq [file : Files, reading : {"old", "now"}]
  BY <1>1
<1>3. orphans \subseteq [file : Files, reading : {"old", "now"}]
  BY DEF IInv, TypeOK, JobsTyped
<1> QED
  BY <1>2, <1>3 DEF Exit

(* A job that is started is waited for after all the others.               *)
LEMMA Queued ==
  ASSUME WaitsTyped, NEW f \in Files, taskPids' = Append(taskPids, f)
  PROVE  /\ taskPids' \in Seq(Files)
         /\ \A k \in 1 .. Len(taskPids') :
              taskPids'[k] = f \/ \E l \in 1 .. Len(taskPids) : taskPids'[k] = taskPids[l]
         /\ \A k \in 1 .. Len(taskPids) : \E l \in 1 .. Len(taskPids') : taskPids'[l] = taskPids[k]
         /\ \E l \in 1 .. Len(taskPids') : taskPids'[l] = f
<1>1. taskPids \in Seq(Files) /\ Len(taskPids) \in Nat
  BY LenProperties DEF WaitsTyped
<1>2. /\ taskPids' \in Seq(Files) /\ Len(taskPids') = Len(taskPids) + 1
      /\ \A k \in 1 .. Len(taskPids) : taskPids'[k] = taskPids[k]
      /\ taskPids'[Len(taskPids) + 1] = f
  BY <1>1, AppendProperties
<1> QED
  BY <1>1, <1>2

(* A job that is waited for leaves the queue, and it alone.                *)
LEMMA Dequeued ==
  ASSUME WaitsTyped, taskPids # <<>>, taskPids' = Tail(taskPids)
  PROVE  /\ taskPids' \in Seq(Files) /\ Head(taskPids) \in Files
         /\ job[Head(taskPids)] # "none"
         /\ Len(taskPids) \in Nat /\ Len(taskPids') = Len(taskPids) - 1
         /\ \A k \in 1 .. Len(taskPids') : \E l \in 1 .. Len(taskPids) : taskPids'[k] = taskPids[l]
         /\ \A k \in 1 .. Len(taskPids) :
              taskPids[k] = Head(taskPids) \/ \E l \in 1 .. Len(taskPids') : taskPids'[l] = taskPids[k]
<1>1. taskPids \in Seq(Files) /\ Len(taskPids) \in Nat \ {0}
  BY EmptySeq DEF WaitsTyped
<1>2. /\ Head(taskPids) = taskPids[1]
      /\ taskPids' \in Seq(Files) /\ Len(taskPids') = Len(taskPids) - 1
      /\ \A k \in 1 .. Len(taskPids') : taskPids'[k] = taskPids[k + 1]
  BY <1>1, HeadTailProperties
<1>3. Head(taskPids) \in Files /\ job[Head(taskPids)] # "none"
  BY <1>1, <1>2, HeadTailProperties DEF WaitsTyped
<1>4. ASSUME NEW k \in 1 .. Len(taskPids), k # 1
      PROVE  k - 1 \in 1 .. Len(taskPids') /\ taskPids'[k - 1] = taskPids[k]
  BY <1>1, <1>2, <1>4
<1>5. ASSUME NEW k \in 1 .. Len(taskPids')
      PROVE  k + 1 \in 1 .. Len(taskPids) /\ taskPids'[k] = taskPids[k + 1]
  BY <1>1, <1>2
<1> QED
  BY <1>1, <1>2, <1>3, <1>4, <1>5

(* A compiler that writes leaves an object that is newer, one that fails   *)
(* leaves what was there or nothing.                                       *)
LEMMA Written ==
  ASSUME IInv, NEW f \in Files,
         (\E content \in {"old", "now"} : Writes(f, content)) \/ WritesNothing(f)
  PROVE  /\ object' \in [Files -> {"none", "old", "now"}] /\ newer' \in [Files -> BOOLEAN]
         /\ suspects' \subseteq Files
         /\ \A g \in Files \ {f} : /\ object'[g] = object[g] /\ newer'[g] = newer[g]
                                   /\ g \in suspects' <=> g \in suspects
         /\ newer'[f] => object'[f] # "none" /\ (f \in suspects' \/ object'[f] = "now")
         /\ object'[f] = "now" => newer'[f]
<1>1. /\ object \in [Files -> {"none", "old", "now"}] /\ newer \in [Files -> BOOLEAN]
      /\ suspects \subseteq Files
      /\ newer[f] => object[f] # "none" /\ (f \in suspects \/ object[f] = "now")
      /\ object[f] = "now" => newer[f]
  BY DEF IInv, TypeOK, FilesTyped, ObjectsNewer
<1>2. ASSUME NEW content \in {"old", "now"}, Writes(f, content)
      PROVE  /\ object' = [object EXCEPT ![f] = content] /\ newer' = [newer EXCEPT ![f] = TRUE]
             /\ suspects' = IF content = "now" THEN suspects \ {f} ELSE suspects \cup {f}
  BY <1>2 DEF Writes
<1>3. CASE \E content \in {"old", "now"} : Writes(f, content)
  <2>1. PICK content \in {"old", "now"} : Writes(f, content)
    BY <1>3
  <2> QED
    BY <1>1, <1>2, <2>1
<1>4. CASE WritesNothing(f)
  BY <1>1, <1>4 DEF WritesNothing
<1> QED
  BY <1>3, <1>4

-----------------------------------------------------------------------------
(* Every action keeps the invariant.                                       *)

(* A build starts with every source still to name and no job.              *)
LEMMA StartKeeps == ASSUME IInv, Start PROVE IInv'
<1>1. FilesTyped'
  BY DEF IInv, TypeOK, FilesTyped, Start
<1>2. ImagesTyped'
  BY DEF IInv, TypeOK, ImagesTyped, Start
<1>3. JobsTyped'
  BY DEF IInv, TypeOK, JobsTyped, Start
<1>4. WaitsTyped'
  BY DEF IInv, TypeOK, WaitsTyped, Start
<1>5. LinkComplete'
  BY DEF IInv, LinkComplete, Start
<1>6. JobsOfSources'
  BY DEF IInv, JobsOfSources, Start
<1>7. JobsAwaited'
  BY DEF IInv, JobsAwaited, JobsOfSources, Start
<1>8. ObjectsNewer'
  BY DEF IInv, ObjectsNewer, Start
<1>9. BuildProgress'
  BY DEF IInv, BuildProgress, Passed, Start
<1>10. ImagesFollow'
  BY DEF IInv, ImagesFollow, ObjectsCurrent, Compiled, Start
<1> QED
  BY <1>1, <1>2, <1>3, <1>4, <1>5, <1>6, <1>7, <1>8, <1>9, <1>10 DEF IInv, TypeOK

(* A file that is skipped has a newer object.                              *)
LEMMA SkipKeeps == ASSUME IInv, NEW f \in Files, Skip(f) PROVE IInv'
<1>1. FilesTyped'
  BY DEF IInv, TypeOK, FilesTyped, Skip, UpToDate
<1>2. ImagesTyped'
  BY DEF IInv, TypeOK, ImagesTyped, Skip, UpToDate
<1>3. JobsTyped'
  BY DEF IInv, TypeOK, JobsTyped, Skip, UpToDate
<1>4. WaitsTyped'
  BY DEF IInv, TypeOK, WaitsTyped, Skip, UpToDate
<1>5. LinkComplete'
  BY DEF IInv, LinkComplete, Skip, UpToDate
<1>6. JobsOfSources'
  BY DEF IInv, JobsOfSources, Skip, UpToDate
<1>7. JobsAwaited'
  BY DEF IInv, JobsAwaited, Skip, UpToDate
<1>8. ObjectsNewer'
  BY DEF IInv, ObjectsNewer, Skip, UpToDate
<1>9. BuildProgress'
  BY DEF IInv, BuildProgress, Passed, Skip, UpToDate
<1>10. ImagesFollow'
  BY DEF IInv, ImagesFollow, ObjectsCurrent, Compiled, Skip, UpToDate
<1> QED
  BY <1>1, <1>2, <1>3, <1>4, <1>5, <1>6, <1>7, <1>8, <1>9, <1>10 DEF IInv, TypeOK

(* A job is started for a file that had none and joins those to wait for.  *)
LEMMA CompileKeeps == ASSUME IInv, NEW f \in Files, Compile(f) PROVE IInv'
<1>1. FilesTyped'
  BY DEF IInv, TypeOK, FilesTyped, Compile, UpToDate
<1>2. ImagesTyped'
  BY DEF IInv, TypeOK, ImagesTyped, Compile, UpToDate
<1>3. JobsTyped'
  BY DEF IInv, TypeOK, JobsTyped, Compile, UpToDate
<1>4. WaitsTyped'
  <2>1. /\ taskPids' = Append(taskPids, f) /\ reported' = reported
        /\ job' = [job EXCEPT ![f] = "running"] /\ f \in todo
    BY DEF Compile
  <2>2. job[f] = "none"
    BY <2>1 DEF IInv, JobsOfSources
  <2> QED
    BY <2>1, <2>2, Queued DEF IInv, TypeOK, JobsTyped, WaitsTyped
<1>5. LinkComplete'
  BY DEF IInv, LinkComplete, Compile, UpToDate
<1>6. JobsOfSources'
  BY DEF IInv, TypeOK, JobsOfSources, FilesTyped, JobsTyped, Compile, UpToDate
<1>7. JobsAwaited'
  <2>1. /\ taskPids' = Append(taskPids, f) /\ job' = [job EXCEPT ![f] = "running"]
        /\ pc = "process" /\ pc' = "jobs"
    BY DEF Compile
  <2>2. WaitsTyped /\ job \in [Files -> {"none", "running", "ok", "failed"}]
    BY DEF IInv, TypeOK, JobsTyped
  <2>3. ASSUME NEW g \in Files, job'[g] \in {"running", "failed"}
        PROVE  \E k \in 1 .. Len(taskPids') : taskPids'[k] = g
    <3>1. CASE g = f
      BY <2>1, <2>2, <3>1, Queued
    <3>2. CASE g # f
      <4>1. PICK k \in 1 .. Len(taskPids) : taskPids[k] = g
        BY <2>1, <2>2, <2>3, <3>2 DEF IInv, JobsAwaited
      <4> QED
        BY <2>1, <2>2, <4>1, Queued
    <3> QED
      BY <3>1, <3>2
  <2> QED
    BY <2>1, <2>3 DEF JobsAwaited
<1>8. ObjectsNewer'
  BY DEF IInv, ObjectsNewer, Compile, UpToDate
<1>9. BuildProgress'
  BY DEF IInv, TypeOK, BuildProgress, Passed, FilesTyped, JobsTyped, ObjectsNewer, Compile,
         UpToDate
<1>10. ImagesFollow'
  BY DEF IInv, TypeOK, ImagesFollow, ObjectsCurrent, Compiled, JobsTyped, Compile, UpToDate
<1> QED
  BY <1>1, <1>2, <1>3, <1>4, <1>5, <1>6, <1>7, <1>8, <1>9, <1>10 DEF IInv, TypeOK

(* Counting the jobs decides only what the script does next.               *)
LEMMA CountJobsKeeps == ASSUME IInv, CountJobs PROVE IInv'
<1>1. FilesTyped' /\ JobsTyped' /\ WaitsTyped'
  BY DEF IInv, TypeOK, FilesTyped, JobsTyped, WaitsTyped, CountJobs
<1>2. ImagesTyped'
  BY DEF IInv, TypeOK, ImagesTyped, CountJobs
<1>3. LinkComplete' /\ JobsOfSources' /\ JobsAwaited'
  BY DEF IInv, LinkComplete, JobsOfSources, JobsAwaited, CountJobs
<1>4. ObjectsNewer' /\ BuildProgress'
  BY DEF IInv, ObjectsNewer, BuildProgress, Passed, CountJobs
<1>5. ImagesFollow'
  BY DEF IInv, ImagesFollow, ObjectsCurrent, Compiled, CountJobs
<1> QED
  BY <1>1, <1>2, <1>3, <1>4, <1>5 DEF IInv, TypeOK

(* A job that wait -n reports stays in taskPids; a failed one ends the     *)
(* build.                                                                  *)
LEMMA WaitAnyKeeps == ASSUME IInv, WaitAny PROVE IInv'
<1>1. FilesTyped'
  BY DEF IInv, TypeOK, FilesTyped, WaitAny, Exit, End, Compiled, Running
<1>2. ImagesTyped'
  BY DEF IInv, TypeOK, ImagesTyped, WaitAny, Exit, End, Compiled, Running
<1>3. JobsTyped'
  <2>1. CASE Exit
    BY <2>1, Ended, Exited DEF JobsTyped, Exit
  <2>2. CASE ~Exit
    BY <2>2 DEF IInv, TypeOK, JobsTyped, WaitAny
  <2> QED
    BY <2>1, <2>2
<1>4. WaitsTyped'
  <2>1. CASE Exit
    BY <2>1, Ended DEF WaitsTyped, Exit
  <2>2. CASE ~Exit
    <3>1. PICK f \in Files : /\ job[f] = "ok" /\ reported' = reported \cup {f}
                             /\ UNCHANGED <<job, taskPids>>
      BY <2>2 DEF WaitAny, Compiled
    <3> QED
      BY <3>1 DEF IInv, TypeOK, WaitsTyped
  <2> QED
    BY <2>1, <2>2
<1>5. LinkComplete'
  BY DEF IInv, LinkComplete, WaitAny, Exit, End, Compiled, Running
<1>6. JobsOfSources'
  BY DEF IInv, JobsOfSources, WaitAny, Exit, End, Compiled, Running
<1>7. JobsAwaited'
  BY DEF IInv, JobsAwaited, WaitAny, Exit, End, Compiled, Running
<1>8. ObjectsNewer'
  BY DEF IInv, ObjectsNewer, WaitAny, Exit, End, Compiled, Running
<1>9. BuildProgress'
  BY DEF IInv, BuildProgress, Passed, WaitAny, Exit, End, Compiled, Running
<1>10. ImagesFollow'
  BY DEF IInv, TypeOK, ImagesFollow, ObjectsCurrent, Compiled, FilesTyped, JobsTyped,
         JobsOfSources, WaitsTyped, BuildProgress, Passed, WaitAny, Exit, End, Running
<1> QED
  BY <1>1, <1>2, <1>3, <1>4, <1>5, <1>6, <1>7, <1>8, <1>9, <1>10 DEF IInv, TypeOK

(* Once all files are named, the jobs in taskPids are all there are.       *)
LEMMA AllNamedKeeps == ASSUME IInv, AllNamed PROVE IInv'
<1>1. FilesTyped'
  BY DEF IInv, TypeOK, FilesTyped, AllNamed
<1>2. ImagesTyped'
  BY DEF IInv, TypeOK, ImagesTyped, AllNamed
<1>3. JobsTyped'
  BY DEF IInv, TypeOK, JobsTyped, AllNamed
<1>4. WaitsTyped'
  BY DEF IInv, TypeOK, WaitsTyped, AllNamed
<1>5. LinkComplete'
  <2>1. taskPids = <<>> => Len(taskPids) = 0
    BY EmptySeq
  <2> QED
    BY <2>1 DEF IInv, TypeOK, JobsTyped, JobsAwaited, LinkComplete, AllNamed
<1>6. JobsOfSources'
  BY DEF IInv, JobsOfSources, AllNamed
<1>7. JobsAwaited'
  BY DEF IInv, JobsAwaited, AllNamed
<1>8. ObjectsNewer'
  BY DEF IInv, ObjectsNewer, AllNamed
<1>9. BuildProgress'
  BY DEF IInv, BuildProgress, Passed, AllNamed
<1>10. ImagesFollow'
  BY DEF IInv, ImagesFollow, ObjectsCurrent, Compiled, AllNamed
<1> QED
  BY <1>1, <1>2, <1>3, <1>4, <1>5, <1>6, <1>7, <1>8, <1>9, <1>10 DEF IInv, TypeOK

(* A job that is waited for has ended well, or its failure ends the build; *)
(* the last one opens the link.                                            *)
LEMMA WaitPidKeeps == ASSUME IInv, WaitPid PROVE IInv'
<1>1. FilesTyped'
  BY DEF IInv, TypeOK, FilesTyped, WaitPid, Exit, End
<1>2. ImagesTyped'
  BY DEF IInv, TypeOK, ImagesTyped, WaitPid, Exit, End
<1>3. JobsTyped'
  <2>1. CASE Exit
    BY <2>1, Ended, Exited DEF JobsTyped, Exit
  <2>2. CASE ~Exit
    BY <2>2 DEF IInv, TypeOK, JobsTyped, WaitPid
  <2> QED
    BY <2>1, <2>2
<1>4. WaitsTyped'
  <2>1. CASE Exit
    BY <2>1, Ended DEF WaitsTyped, Exit
  <2>2. CASE ~Exit
    <3>1. /\ taskPids' = Tail(taskPids) /\ taskPids # <<>> /\ job' = job /\ reported' = reported
      BY <2>2 DEF IInv, JobsAwaited, WaitPid
    <3> QED
      BY <3>1, Dequeued DEF IInv, TypeOK, WaitsTyped
  <2> QED
    BY <2>1, <2>2
<1>5. LinkComplete'
  <2>1. CASE Exit
    BY <2>1, Ended DEF LinkComplete, Exit
  <2>2. CASE ~Exit
    <3>1. /\ taskPids' = Tail(taskPids) /\ taskPids # <<>> /\ pc = "wait"
          /\ job' = job /\ job[Head(taskPids)] = "ok"
          /\ pc' = IF Len(taskPids) = 1 THEN "link" ELSE "wait"
      BY <2>2 DEF IInv, JobsAwaited, WaitPid
    <3>2. ASSUME pc' = "link", NEW f \in Files, job[f] \in {"running", "failed"} PROVE FALSE
      <4>1. Len(taskPids) = 1
        BY <3>1, <3>2
      <4>2. \A k \in 1 .. Len(taskPids) : taskPids[k] = Head(taskPids)
        BY <4>1
      <4> QED
        BY <3>1, <3>2, <4>2 DEF IInv, JobsAwaited
    <3> QED
      BY <3>1, <3>2 DEF IInv, TypeOK, JobsTyped, LinkComplete
  <2> QED
    BY <2>1, <2>2
<1>6. JobsOfSources'
  BY DEF IInv, JobsOfSources, WaitPid, Exit, End
<1>7. JobsAwaited'
  <2>1. CASE Exit
    <3>1. pc' = "idle"
      BY <2>1, Ended DEF Exit
    <3> QED
      BY <3>1 DEF JobsAwaited
  <2>2. CASE ~Exit
    <3>1. /\ taskPids' = Tail(taskPids) /\ taskPids # <<>> /\ pc = "wait"
          /\ job' = job /\ job[Head(taskPids)] = "ok"
          /\ pc' = IF Len(taskPids) = 1 THEN "link" ELSE "wait"
      BY <2>2 DEF IInv, JobsAwaited, WaitPid
    <3>2. WaitsTyped
      BY DEF IInv, TypeOK
    <3>3. pc' = "wait" => taskPids' # <<>>
      <4>1. ASSUME pc' = "wait" PROVE Len(taskPids') # 0
        BY <3>1, <3>2, <4>1, Dequeued
      <4> QED
        BY <4>1, EmptySeq
    <3>4. ASSUME NEW f \in Files, job[f] \in {"running", "failed"}
          PROVE  \E k \in 1 .. Len(taskPids') : taskPids'[k] = f
      <4>1. PICK k \in 1 .. Len(taskPids) : taskPids[k] = f
        BY <3>1, <3>4 DEF IInv, JobsAwaited
      <4>2. taskPids[k] # Head(taskPids)
        BY <3>1, <3>4, <4>1
      <4> QED
        BY <3>1, <3>2, <4>1, <4>2, Dequeued
    <3>5. \A f \in Files : job'[f] \in {"running", "failed"} =>
                            \E k \in 1 .. Len(taskPids') : taskPids'[k] = f
      BY <3>1, <3>4
    <3> QED
      BY <3>3, <3>5 DEF JobsAwaited
  <2> QED
    BY <2>1, <2>2
<1>8. ObjectsNewer'
  BY DEF IInv, ObjectsNewer, WaitPid, Exit, End
<1>9. BuildProgress'
  BY DEF IInv, BuildProgress, Passed, WaitPid, Exit, End
<1>10. ImagesFollow'
  <2>1. CASE Exit
    <3>1. Head(taskPids) \in Files /\ job[Head(taskPids)] = "failed"
      <4>1. /\ taskPids # <<>> /\ taskPids \in Seq(Files)
            /\ job[Head(taskPids)] \notin {"running", "ok"} /\ 1 \in 1 .. Len(taskPids)
            /\ Head(taskPids) = taskPids[1]
        BY <2>1, EmptySeq DEF IInv, TypeOK, WaitsTyped, JobsAwaited, WaitPid, Exit, End
      <4>2. Head(taskPids) \in Files /\ job[Head(taskPids)] # "none"
        BY <4>1, HeadTailProperties DEF IInv, TypeOK, WaitsTyped
      <4> QED
        BY <4>1, <4>2 DEF IInv, TypeOK, JobsTyped
    <3>2. Head(taskPids) \in Sources /\ (~unfinished => object[Head(taskPids)] # "now")
      BY <3>1 DEF IInv, JobsOfSources, BuildProgress
    <3> QED
      BY <2>1, <3>2, Ended DEF ImagesFollow, ObjectsCurrent, WaitPid, Exit
  <2>2. CASE ~Exit
    BY <2>2 DEF IInv, ImagesFollow, ObjectsCurrent, Compiled, WaitPid
  <2> QED
    BY <2>1, <2>2
<1> QED
  BY <1>1, <1>2, <1>3, <1>4, <1>5, <1>6, <1>7, <1>8, <1>9, <1>10 DEF IInv, TypeOK

(* After the link the image is one of the objects, or none was recompiled. *)
LEMMA LinkKeeps == ASSUME IInv, Link PROVE IInv'
<1>1. FilesTyped'
  BY DEF IInv, TypeOK, FilesTyped, Link, LinkSkipped, ObjectsCurrent, Compiled
<1>2. ImagesTyped'
  BY DEF IInv, TypeOK, ImagesTyped, Link, LinkSkipped, ObjectsCurrent, Compiled
<1>3. JobsTyped'
  BY DEF IInv, TypeOK, JobsTyped, Link, LinkSkipped, ObjectsCurrent, Compiled
<1>4. WaitsTyped'
  BY DEF IInv, TypeOK, WaitsTyped, Link, LinkSkipped, ObjectsCurrent, Compiled
<1>5. LinkComplete'
  BY DEF IInv, LinkComplete, Link, LinkSkipped, ObjectsCurrent, Compiled
<1>6. JobsOfSources'
  BY DEF IInv, JobsOfSources, Link, LinkSkipped, ObjectsCurrent, Compiled
<1>7. JobsAwaited'
  BY DEF IInv, JobsAwaited, Link, LinkSkipped, ObjectsCurrent, Compiled
<1>8. ObjectsNewer'
  BY DEF IInv, ObjectsNewer, Link, LinkSkipped, ObjectsCurrent, Compiled
<1>9. BuildProgress'
  BY DEF IInv, BuildProgress, Passed, LinkComplete, Link, LinkSkipped, ObjectsCurrent,
         Compiled
<1>10. ImagesFollow'
  BY DEF IInv, ImagesFollow, ObjectsCurrent, Compiled, Link, LinkSkipped
<1> QED
  BY <1>1, <1>2, <1>3, <1>4, <1>5, <1>6, <1>7, <1>8, <1>9, <1>10 DEF IInv, TypeOK

(* A link that fails leaves the build unfinished.                          *)
LEMMA LinkFailsKeeps == ASSUME IInv, LinkFails PROVE IInv'
<1>1. FilesTyped'
  BY DEF IInv, TypeOK, FilesTyped, LinkFails, LinkSkipped, Exit, End, Compiled
<1>2. ImagesTyped'
  BY DEF IInv, TypeOK, ImagesTyped, LinkFails, LinkSkipped, Exit, End, Compiled
<1>3. JobsTyped'
  BY Ended, Exited DEF JobsTyped, LinkFails, Exit
<1>4. WaitsTyped'
  BY DEF IInv, TypeOK, WaitsTyped, LinkFails, LinkSkipped, Exit, End, Compiled
<1>5. LinkComplete'
  BY DEF IInv, LinkComplete, LinkFails, LinkSkipped, Exit, End, Compiled
<1>6. JobsOfSources'
  BY DEF IInv, JobsOfSources, LinkFails, LinkSkipped, Exit, End, Compiled
<1>7. JobsAwaited'
  BY DEF IInv, JobsAwaited, LinkFails, LinkSkipped, Exit, End, Compiled
<1>8. ObjectsNewer'
  BY DEF IInv, ObjectsNewer, LinkFails, LinkSkipped, Exit, End, Compiled
<1>9. BuildProgress'
  BY DEF IInv, BuildProgress, Passed, LinkFails, LinkSkipped, Exit, End, Compiled
<1>10. ImagesFollow'
  BY DEF IInv, ImagesFollow, ObjectsCurrent, Compiled, LinkFails, LinkSkipped, Exit, End
<1> QED
  BY <1>1, <1>2, <1>3, <1>4, <1>5, <1>6, <1>7, <1>8, <1>9, <1>10 DEF IInv, TypeOK

(* The ISO takes the image, or nothing was recompiled and it has it.       *)
LEMMA MakeIsoKeeps == ASSUME IInv, MakeIso PROVE IInv'
<1>1. FilesTyped'
  BY DEF IInv, TypeOK, FilesTyped, MakeIso, IsoSkipped, End, Compiled
<1>2. ImagesTyped'
  <2>1. CASE IsoSkipped
    BY <2>1, Ended DEF IInv, TypeOK, ImagesTyped, MakeIso
  <2>2. CASE ~IsoSkipped
    <3>1. raw \in {"none", "old", "now"}
      BY DEF IInv, TypeOK, ImagesTyped
    <3>2. [image |-> raw, installed |-> FALSE]
            \in [image : {"none", "old", "now"}, installed : BOOLEAN]
      BY <3>1
    <3>3. iso' = [image |-> raw, installed |-> FALSE] /\ raw' = raw /\ pc' = "install"
      BY <2>2 DEF MakeIso
    <3>4. iso' \in [image : {"none", "old", "now"}, installed : BOOLEAN]
      BY <3>2, <3>3, Zenon
    <3> QED
      BY <3>1, <3>3, <3>4, Zenon DEF ImagesTyped
  <2> QED
    BY <2>1, <2>2
<1>3. JobsTyped'
  BY DEF IInv, TypeOK, JobsTyped, MakeIso, IsoSkipped, End, Compiled
<1>4. WaitsTyped'
  BY DEF IInv, TypeOK, WaitsTyped, MakeIso, IsoSkipped, End, Compiled
<1>5. LinkComplete'
  BY DEF IInv, LinkComplete, MakeIso, IsoSkipped, End, Compiled
<1>6. JobsOfSources'
  BY DEF IInv, JobsOfSources, MakeIso, IsoSkipped, End, Compiled
<1>7. JobsAwaited'
  BY DEF IInv, JobsAwaited, MakeIso, IsoSkipped, End, Compiled
<1>8. ObjectsNewer'
  BY DEF IInv, ObjectsNewer, MakeIso, IsoSkipped, End, Compiled
<1>9. BuildProgress'
  BY DEF IInv, TypeOK, BuildProgress, Passed, FilesTyped, MakeIso, IsoSkipped, End, Compiled
<1>10. ImagesFollow'
  BY DEF IInv, ImagesFollow, ObjectsCurrent, Compiled, MakeIso, IsoSkipped, End
<1> QED
  BY <1>1, <1>2, <1>3, <1>4, <1>5, <1>6, <1>7, <1>8, <1>9, <1>10 DEF IInv, TypeOK

(* An ISO that fails leaves the build unfinished.                          *)
LEMMA MakeIsoFailsKeeps == ASSUME IInv, MakeIsoFails PROVE IInv'
<1>1. FilesTyped'
  BY DEF IInv, TypeOK, FilesTyped, MakeIsoFails, IsoSkipped, Exit, End, Compiled
<1>2. ImagesTyped'
  <2>1. iso \in [image : {"none", "old", "now"}, installed : BOOLEAN]
    BY DEF IInv, TypeOK, ImagesTyped
  <2>2. [image |-> "none", installed |-> FALSE]
          \in [image : {"none", "old", "now"}, installed : BOOLEAN]
    OBVIOUS
  <2>3. iso' \in [image : {"none", "old", "now"}, installed : BOOLEAN]
    BY <2>1, <2>2, Zenon DEF MakeIsoFails
  <2> QED
    BY <2>3, Ended DEF IInv, TypeOK, ImagesTyped, MakeIsoFails, Exit
<1>3. JobsTyped'
  BY Ended, Exited DEF JobsTyped, MakeIsoFails, Exit
<1>4. WaitsTyped'
  BY DEF IInv, TypeOK, WaitsTyped, MakeIsoFails, IsoSkipped, Exit, End, Compiled
<1>5. LinkComplete'
  BY DEF IInv, LinkComplete, MakeIsoFails, IsoSkipped, Exit, End, Compiled
<1>6. JobsOfSources'
  BY DEF IInv, JobsOfSources, MakeIsoFails, IsoSkipped, Exit, End, Compiled
<1>7. JobsAwaited'
  BY DEF IInv, JobsAwaited, MakeIsoFails, IsoSkipped, Exit, End, Compiled
<1>8. ObjectsNewer'
  BY DEF IInv, ObjectsNewer, MakeIsoFails, IsoSkipped, Exit, End, Compiled
<1>9. BuildProgress'
  BY DEF IInv, BuildProgress, Passed, MakeIsoFails, IsoSkipped, Exit, End, Compiled
<1>10. ImagesFollow'
  BY DEF IInv, ImagesFollow, ObjectsCurrent, Compiled, MakeIsoFails, IsoSkipped, Exit, End
<1> QED
  BY <1>1, <1>2, <1>3, <1>4, <1>5, <1>6, <1>7, <1>8, <1>9, <1>10 DEF IInv, TypeOK

(* bios-install ends a build whose ISO has the image.                      *)
LEMMA InstallKeeps == ASSUME IInv, Install PROVE IInv'
<1>1. FilesTyped'
  BY DEF IInv, TypeOK, FilesTyped, Install, End
<1>2. ImagesTyped'
  BY DEF IInv, TypeOK, ImagesTyped, Install, End
<1>3. JobsTyped'
  BY DEF IInv, TypeOK, JobsTyped, Install, End
<1>4. WaitsTyped'
  BY DEF IInv, TypeOK, WaitsTyped, Install, End
<1>5. LinkComplete'
  BY DEF IInv, LinkComplete, Install, End
<1>6. JobsOfSources'
  BY DEF IInv, JobsOfSources, Install, End
<1>7. JobsAwaited'
  BY DEF IInv, JobsAwaited, Install, End
<1>8. ObjectsNewer'
  BY DEF IInv, ObjectsNewer, Install, End
<1>9. BuildProgress'
  <2>1. \A f \in Sources : Passed(f) => Passed(f)'
    BY Ended DEF IInv, TypeOK, FilesTyped, LinkComplete, Passed, BuildProgress, Install
  <2> QED
    BY <2>1, Ended DEF IInv, TypeOK, FilesTyped, BuildProgress, Install
<1>10. ImagesFollow'
  <2>1. iso.image = "now" => iso' = [image |-> "now", installed |-> TRUE]
    BY DEF IInv, TypeOK, ImagesTyped, Install
  <2> QED
    BY <2>1, Ended DEF IInv, ImagesFollow, ObjectsCurrent, Install
<1> QED
  BY <1>1, <1>2, <1>3, <1>4, <1>5, <1>6, <1>7, <1>8, <1>9, <1>10 DEF IInv, TypeOK

(* A stopped script leaves orphans and an unfinished build.                *)
LEMMA StoppedKeeps == ASSUME IInv, Stopped PROVE IInv'
<1>1. FilesTyped'
  BY DEF IInv, TypeOK, FilesTyped, Stopped, Exit, End
<1>2. ImagesTyped'
  BY DEF IInv, TypeOK, ImagesTyped, Stopped, Exit, End
<1>3. JobsTyped'
  BY Ended, Exited DEF JobsTyped, Stopped, Exit
<1>4. WaitsTyped'
  BY DEF IInv, TypeOK, WaitsTyped, Stopped, Exit, End
<1>5. LinkComplete'
  BY DEF IInv, LinkComplete, Stopped, Exit, End
<1>6. JobsOfSources'
  BY DEF IInv, JobsOfSources, Stopped, Exit, End
<1>7. JobsAwaited'
  BY DEF IInv, JobsAwaited, Stopped, Exit, End
<1>8. ObjectsNewer'
  BY DEF IInv, ObjectsNewer, Stopped, Exit, End
<1>9. BuildProgress'
  BY DEF IInv, BuildProgress, Passed, Stopped, Exit, End
<1>10. ImagesFollow'
  BY DEF IInv, ImagesFollow, ObjectsCurrent, Compiled, Stopped, Exit, End
<1> QED
  BY <1>1, <1>2, <1>3, <1>4, <1>5, <1>6, <1>7, <1>8, <1>9, <1>10 DEF IInv, TypeOK

(* A compiler writes an object that is newer, and current unless suspect;  *)
(* or it fails and its job says so.                                        *)
LEMMA JobEndsKeeps == ASSUME IInv, NEW f \in Files, JobEnds(f) PROVE IInv'
<1>1. FilesTyped'
  <2>1. (\E content \in {"old", "now"} : Writes(f, content)) \/ WritesNothing(f)
    <3>1. reading[f] \in {"old", "now"}
      BY DEF IInv, TypeOK, JobsTyped, JobsOfSources, JobEnds
    <3> QED
      BY <3>1 DEF JobEnds
  <2> QED
    BY <2>1, Written DEF IInv, TypeOK, FilesTyped, JobEnds
<1>2. ImagesTyped'
  BY DEF IInv, TypeOK, ImagesTyped, JobEnds, Writes, WritesNothing
<1>3. JobsTyped'
  BY DEF IInv, TypeOK, JobsTyped, JobEnds, Writes, WritesNothing
<1>4. WaitsTyped'
  BY DEF IInv, TypeOK, WaitsTyped, JobsTyped, JobEnds, Writes, WritesNothing
<1>5. LinkComplete'
  BY DEF IInv, LinkComplete, JobEnds, Writes, WritesNothing
<1>6. JobsOfSources'
  BY DEF IInv, TypeOK, JobsOfSources, JobsTyped, JobEnds, Writes, WritesNothing
<1>7. JobsAwaited'
  BY DEF IInv, TypeOK, JobsAwaited, JobsTyped, JobEnds, Writes, WritesNothing
<1>8. ObjectsNewer'
  BY DEF IInv, TypeOK, ObjectsNewer, FilesTyped, JobsTyped, JobsOfSources, JobEnds, Writes,
         WritesNothing
<1>9. BuildProgress'
  <2>1. \A g \in Files \ {f} : /\ job'[g] = job[g] /\ newer'[g] = newer[g] /\ object'[g] = object[g]
                               /\ g \in suspects => g \in suspects'
    BY DEF IInv, TypeOK, FilesTyped, JobsTyped, JobEnds, Writes, WritesNothing
  <2>2. newer'[f] \/ job'[f] = "failed"
    BY DEF IInv, TypeOK, FilesTyped, JobsTyped, JobEnds, Writes, WritesNothing
  <2>3. job'[f] # "running" /\ (job'[f] = "failed" => object'[f] \in {object[f], "none"})
    BY DEF IInv, TypeOK, FilesTyped, JobsTyped, JobEnds, Writes, WritesNothing
  <2>4. job[f] = "running" /\ UNCHANGED <<Sources, pc, todo, unfinished>>
    BY DEF JobEnds
  <2>5. \A g \in Sources : Passed(g) => Passed(g)'
    BY <2>1, <2>2, <2>4 DEF IInv, TypeOK, FilesTyped, Passed
  <2> QED
    BY <2>1, <2>3, <2>4, <2>5 DEF IInv, BuildProgress
<1>10. ImagesFollow'
  <2>1. /\ f \in Compiled' /\ pc \notin {"iso", "install"} /\ pc' = pc
    BY DEF IInv, TypeOK, JobsTyped, LinkComplete, JobEnds, Compiled
  <2> QED
    BY <2>1 DEF ImagesFollow
<1> QED
  BY <1>1, <1>2, <1>3, <1>4, <1>5, <1>6, <1>7, <1>8, <1>9, <1>10 DEF IInv, TypeOK

(* An orphan writes while no record of it is left: the build is            *)
(* unfinished.                                                             *)
LEMMA OrphanEndsKeeps == ASSUME IInv, NEW o \in orphans, OrphanEnds(o) PROVE IInv'
<1>1. FilesTyped'
  <2>1. /\ o.file \in Files
        /\ (\E content \in {"old", "now"} : Writes(o.file, content)) \/ WritesNothing(o.file)
    BY DEF IInv, TypeOK, JobsTyped, OrphanEnds
  <2> QED
    BY <2>1, Written DEF IInv, TypeOK, FilesTyped, OrphanEnds, script
<1>2. ImagesTyped'
  BY DEF IInv, TypeOK, ImagesTyped, OrphanEnds, Writes, WritesNothing, script
<1>3. JobsTyped'
  BY DEF IInv, TypeOK, JobsTyped, OrphanEnds, Writes, WritesNothing, script
<1>4. WaitsTyped'
  BY DEF IInv, TypeOK, WaitsTyped, OrphanEnds, Writes, WritesNothing, script
<1>5. LinkComplete'
  BY DEF IInv, LinkComplete, OrphanEnds, Writes, WritesNothing, script
<1>6. JobsOfSources'
  BY DEF IInv, JobsOfSources, OrphanEnds, Writes, WritesNothing, script
<1>7. JobsAwaited'
  BY DEF IInv, JobsAwaited, OrphanEnds, Writes, WritesNothing, script
<1>8. ObjectsNewer'
  BY DEF IInv, TypeOK, ObjectsNewer, FilesTyped, JobsTyped, OrphanEnds, Writes,
         WritesNothing, script
<1>9. BuildProgress'
  BY DEF IInv, TypeOK, BuildProgress, Passed, FilesTyped, OrphanEnds, Writes, WritesNothing,
         script
<1>10. ImagesFollow'
  BY DEF IInv, ImagesFollow, ObjectsCurrent, Compiled, OrphanEnds, Writes, WritesNothing,
         script
<1> QED
  BY <1>1, <1>2, <1>3, <1>4, <1>5, <1>6, <1>7, <1>8, <1>9, <1>10 DEF IInv, TypeOK

(* An edit makes the object old and no longer newer, and the file suspect  *)
(* while a build runs.                                                     *)
LEMMA EditSourceKeeps == ASSUME IInv, NEW f \in Files, EditSource(f) PROVE IInv'
<1>1. FilesTyped'
  BY DEF IInv, TypeOK, FilesTyped, EditSource, Edit, ImagesAge, AgedIn, Aged
<1>2. ImagesTyped'
  BY DEF IInv, TypeOK, ImagesTyped, EditSource, Edit, ImagesAge, AgedIn, Aged
<1>3. JobsTyped'
  BY DEF IInv, TypeOK, JobsTyped, EditSource, Edit, ImagesAge, AgedIn, Aged
<1>4. WaitsTyped'
  BY DEF IInv, TypeOK, WaitsTyped, EditSource, Edit, ImagesAge, AgedIn, Aged
<1>5. LinkComplete'
  BY DEF IInv, LinkComplete, EditSource, Edit, ImagesAge, AgedIn, Aged
<1>6. JobsOfSources'
  BY DEF IInv, JobsOfSources, EditSource, Edit, ImagesAge, AgedIn, Aged
<1>7. JobsAwaited'
  BY DEF IInv, JobsAwaited, EditSource, Edit, ImagesAge, AgedIn, Aged
<1>8. ObjectsNewer'
  BY DEF IInv, TypeOK, ObjectsNewer, FilesTyped, EditSource, Edit, ImagesAge, AgedIn, Aged
<1>9. BuildProgress'
  BY DEF IInv, TypeOK, BuildProgress, Passed, FilesTyped, EditSource, Edit, ImagesAge,
         AgedIn, Aged
<1>10. ImagesFollow'
  BY DEF IInv, ImagesFollow, ObjectsCurrent, Compiled, EditSource, Edit, ImagesAge, AgedIn,
         Aged
<1> QED
  BY <1>1, <1>2, <1>3, <1>4, <1>5, <1>6, <1>7, <1>8, <1>9, <1>10 DEF IInv, TypeOK

(* A header makes everything old that was made before, and every file      *)
(* suspect.                                                                *)
LEMMA EditHeaderKeeps == ASSUME IInv, EditHeader PROVE IInv'
<1>1. FilesTyped'
  BY DEF IInv, TypeOK, FilesTyped, EditHeader, Edit, ImagesAge, AgedIn, Aged
<1>2. ImagesTyped'
  BY DEF IInv, TypeOK, ImagesTyped, EditHeader, Edit, ImagesAge, AgedIn, Aged
<1>3. JobsTyped'
  BY DEF IInv, TypeOK, JobsTyped, EditHeader, Edit, ImagesAge, AgedIn, Aged
<1>4. WaitsTyped'
  BY DEF IInv, TypeOK, WaitsTyped, EditHeader, Edit, ImagesAge, AgedIn, Aged
<1>5. LinkComplete'
  BY DEF IInv, LinkComplete, EditHeader, Edit, ImagesAge, AgedIn, Aged
<1>6. JobsOfSources'
  BY DEF IInv, JobsOfSources, EditHeader, Edit, ImagesAge, AgedIn, Aged
<1>7. JobsAwaited'
  BY DEF IInv, JobsAwaited, EditHeader, Edit, ImagesAge, AgedIn, Aged
<1>8. ObjectsNewer'
  BY DEF IInv, ObjectsNewer, EditHeader, Edit, ImagesAge, AgedIn, Aged
<1>9. BuildProgress'
  BY DEF IInv, TypeOK, BuildProgress, Passed, FilesTyped, EditHeader, Edit, ImagesAge,
         AgedIn, Aged
<1>10. ImagesFollow'
  BY DEF IInv, TypeOK, ImagesFollow, ObjectsCurrent, Compiled, FilesTyped, EditHeader, Edit,
         ImagesAge, AgedIn, Aged
<1> QED
  BY <1>1, <1>2, <1>3, <1>4, <1>5, <1>6, <1>7, <1>8, <1>9, <1>10 DEF IInv, TypeOK

(* A source is removed between builds and has no job.                      *)
LEMMA RemoveSourceKeeps == ASSUME IInv, NEW f \in Files, RemoveSource(f) PROVE IInv'
<1>1. FilesTyped'
  BY DEF IInv, TypeOK, FilesTyped, BuildProgress, Passed, RemoveSource, ImagesAge, Aged,
         script
<1>2. ImagesTyped'
  BY DEF IInv, TypeOK, ImagesTyped, RemoveSource, ImagesAge, Aged, script
<1>3. JobsTyped'
  BY DEF IInv, TypeOK, JobsTyped, RemoveSource, ImagesAge, Aged, script
<1>4. WaitsTyped'
  BY DEF IInv, TypeOK, WaitsTyped, RemoveSource, ImagesAge, Aged, script
<1>5. LinkComplete'
  BY DEF IInv, LinkComplete, RemoveSource, ImagesAge, Aged, script
<1>6. JobsOfSources'
  BY DEF IInv, JobsOfSources, RemoveSource, ImagesAge, Aged, script
<1>7. JobsAwaited'
  BY DEF IInv, JobsAwaited, RemoveSource, ImagesAge, Aged, script
<1>8. ObjectsNewer'
  BY DEF IInv, ObjectsNewer, RemoveSource, ImagesAge, Aged, script
<1>9. BuildProgress'
  BY DEF IInv, BuildProgress, Passed, RemoveSource, ImagesAge, Aged, script
<1>10. ImagesFollow'
  BY DEF IInv, ImagesFollow, ObjectsCurrent, Compiled, RemoveSource, ImagesAge, Aged, script
<1> QED
  BY <1>1, <1>2, <1>3, <1>4, <1>5, <1>6, <1>7, <1>8, <1>9, <1>10 DEF IInv, TypeOK

(* A stutter changes nothing.                                              *)
LEMMA UnchangedKeeps == IInv /\ UNCHANGED vars => IInv'
<1> SUFFICES ASSUME IInv, UNCHANGED vars PROVE IInv'
  OBVIOUS
<1>1. TypeOK'
  BY DEF IInv, TypeOK, FilesTyped, ImagesTyped, JobsTyped, WaitsTyped, vars, script
<1>2. LinkComplete' /\ JobsOfSources' /\ JobsAwaited' /\ ObjectsNewer'
  BY DEF IInv, LinkComplete, JobsOfSources, JobsAwaited, ObjectsNewer, vars, script
<1>3. BuildProgress' /\ ImagesFollow'
  BY DEF IInv, BuildProgress, Passed, ImagesFollow, ObjectsCurrent, Compiled, vars, script
<1> QED
  BY <1>1, <1>2, <1>3 DEF IInv

(* Every step is one of these.                                             *)
LEMMA NextKeeps == IInv /\ [Next]_vars => IInv'
<1> SUFFICES ASSUME IInv, [Next]_vars PROVE IInv'
  OBVIOUS
<1>1. CASE Script
  BY <1>1, SkipKeeps, CompileKeeps, CountJobsKeeps, WaitAnyKeeps, AllNamedKeeps, WaitPidKeeps,
     LinkKeeps, LinkFailsKeeps, MakeIsoKeeps, MakeIsoFailsKeeps, InstallKeeps DEF Script
<1>2. CASE Developer
  BY <1>2, StartKeeps, StoppedKeeps, EditHeaderKeeps, EditSourceKeeps, RemoveSourceKeeps
  DEF Developer
<1>3. CASE \E f \in Files : JobEnds(f)
  BY <1>3, JobEndsKeeps
<1>4. CASE \E o \in orphans : OrphanEnds(o)
  BY <1>4, OrphanEndsKeeps
<1>5. CASE UNCHANGED vars
  BY <1>5, UnchangedKeeps
<1> QED
  BY <1>1, <1>2, <1>3, <1>4, <1>5 DEF Next

-----------------------------------------------------------------------------
(* processFiles, the waits, link and buildLimine keep the invariant of the *)
(* incremental build, whatever the developer and the compilers do.         *)
THEOREM Invariance == Spec => []IInv
<1>1. Init => IInv
  <2> SUFFICES ASSUME Init PROVE IInv
    OBVIOUS
  <2>1. FilesTyped /\ JobsTyped
    BY BuildConstants DEF Init, FilesTyped, JobsTyped
  <2>2. ImagesTyped
    BY DEF Init, ImagesTyped
  <2>3. WaitsTyped
    BY EmptySeq DEF Init, WaitsTyped
  <2>4. LinkComplete /\ JobsOfSources /\ JobsAwaited /\ ObjectsNewer /\ BuildProgress
    BY DEF Init, LinkComplete, JobsOfSources, JobsAwaited, ObjectsNewer, BuildProgress
  <2>5. ~ObjectsCurrent
    BY BuildConstants DEF Init, ObjectsCurrent
  <2> QED
    BY <2>1, <2>2, <2>3, <2>4, <2>5 DEF IInv, TypeOK, ImagesFollow
<1> QED
  BY <1>1, NextKeeps, PTL DEF Spec

(* The variables of the script keep their types, and it waits for its own  *)
(* jobs only.                                                              *)
THEOREM TypeCorrect == Spec => []TypeOK
<1>1. IInv => TypeOK
  BY DEF IInv
<1> QED
  BY <1>1, Invariance, PTL

(* link comes after every compiler of the build, and not after a failed one.*)
THEOREM AlwaysLinkComplete == Spec => []LinkComplete
<1>1. IInv => LinkComplete
  BY DEF IInv
<1> QED
  BY <1>1, Invariance, PTL

(* A build that ends well leaves an ISO of the sources as they are.        *)
THEOREM AlwaysImageCurrent == Spec => []ImageCurrent
<1>1. IInv => ImageCurrent
  <2> SUFFICES ASSUME IInv, pc = "done", ~unfinished, suspects \cap Sources = {}
               PROVE  iso = [image |-> "now", installed |-> TRUE]
    BY DEF ImageCurrent
  <2>1. todo = {} /\ \A f \in Files : job[f] = "none"
    BY DEF IInv, BuildProgress, JobsOfSources
  <2>2. \A f \in Sources : f \in Files /\ newer[f] /\ f \notin suspects
    BY <2>1 DEF IInv, TypeOK, FilesTyped, BuildProgress, Passed
  <2>3. ObjectsCurrent
    BY <2>2 DEF IInv, ObjectsNewer, ObjectsCurrent
  <2>4. Compiled = {}
    BY <2>1 DEF Compiled
  <2> QED
    BY <2>3, <2>4 DEF IInv, ImagesFollow
<1> QED
  BY <1>1, Invariance, PTL
=============================================================================
