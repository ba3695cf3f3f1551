---------------------------- MODULE FilesProofs ----------------------------
(***************************************************************************)
(* Theorems about the files of UserFiles.tla, for any processes, any       *)
(* lineup of models and any windows: what is replaced at once outlives a   *)
(* process that is killed at any step, whole and true, and a key, which is *)
(* written in place, stays private.                                        *)
(*                                                                         *)
(* The invariant says what the disk may hold under the names that are      *)
(* read, and, of each process and the place it is at, what it has in hand  *)
(* (Fits).  All processes are of one job, and of all but the readers of a  *)
(* window only one is at work, so a step that changes the disk meets no    *)
(* other process that depends on it.                                       *)
(***************************************************************************)
EXTENDS UserFiles, TLAPS

-----------------------------------------------------------------------------
(* The invariant.                                                          *)

Entries == [window : Windows, fresh : BOOLEAN]
FirstOnes == {SubSeq(Lineup, 1, n) : n \in 0..Len(Lineup)}
Endings == {"completed", "error", "interrupted", "interrupted error"}

\* What may be read under each name, and that a file is one.
DiskFits(d) ==
    /\ d = [path \in Paths |-> File(d[path].bytes, d[path].private)]
    /\ d[Cache].bytes \in Entries \union {NoFile}
    /\ d[Transcript].bytes \in Endings \union {"running", NoFile}
    /\ d[Checkpoint].bytes \in FirstOnes \union {NoFile}

IsProcess(w) ==
    /\ w \in [job : {w.job}, at : {w.at}, how : {w.how}, holds : {w.holds},
              cancelled : {w.cancelled}, inTurn : {w.inTurn}, attempt : {w.attempt},
              probe : {w.probe}, told : {w.told}]
    /\ w.attempt \in 0..(MaxRequestAttempts - 1) /\ w.probe \in Nat

\* A key is being written where it is, and only its owner reads what follows.
LoginFits(w, d) ==
    w.job = "login" =>
        /\ w.at \in {"secure", "write"} => d[KeyFile].bytes = Torn
        /\ w.at = "write" => d[KeyFile].private

WindowFits(w) ==
    w.job = "window" =>
        /\ w.at = "fetch" => w.holds \in Entries \union {NoFile}
        /\ w.at \in {"cache", "cached"} => w.holds \in Entries

\* An outcome is one, and says so if the run was interrupted.
OneShotFits(w, d) ==
    w.job = "oneshot" =>
        /\ w.at \in {"classify", "final", "publish"} =>
              /\ w.holds \in Endings /\ (~w.cancelled => w.holds \in {"completed", "error"})
              /\ w.inTurn => w.holds = "interrupted"
              /\ w.at # "classify" /\ w.cancelled => w.holds # "error"
        /\ w.at \in {"turn", "checkpoint"} => w.inTurn = w.cancelled
        /\ w.at = "publish" => d[Path("partial", "")].private

\* The models that are finished are the first of the lineup, and at least those
\* of the checkpoint that is resumed.
FingerprintFits(w, d) ==
    w.job = "fingerprint" /\ w.at \in {"store", "stored", "ask"} =>
        /\ w.holds \in FirstOnes
        /\ w.at = "ask" => w.holds # Lineup
        /\ w.how = "resume" =>
              d[Checkpoint].bytes # NoFile /\ IsPrefix(d[Checkpoint].bytes, w.holds)

Fits(w, d) ==
    IsProcess(w) /\ LoginFits(w, d) /\ WindowFits(w) /\ OneShotFits(w, d)
        /\ FingerprintFits(w, d)

OneAtATime ==
    \A p, q \in Processes :
        /\ work[p].job = work[q].job
        /\ p # q /\ work[p].job # "window" => work[p].at = "idle" \/ work[q].at = "idle"

FilesInv ==
    /\ DiskFits(disk) /\ OneAtATime
    /\ DOMAIN work = Processes /\ \A p \in Processes : Fits(work[p], disk)

-----------------------------------------------------------------------------
(* Steps of one process.                                                   *)

\* What the properties ask of a step that makes w of process p and d of the disk.
KeyStep(p, w, d) ==
    /\ d[KeyFile].bytes \notin {disk[KeyFile].bytes, NoFile, Torn} => d[KeyFile].private
    /\ At(p, "login", "idle") /\ w.told \in {"mine", "forged"} /\ w.told # work[p].told =>
          disk[KeyFile].private

FingerprintStep(p, w, d) ==
    /\ disk[Checkpoint].bytes # NoFile /\ (work[p].how = "resume" \/ work[p].at = "idle") =>
          d[Checkpoint].bytes # NoFile /\ IsPrefix(disk[Checkpoint].bytes, d[Checkpoint].bytes)
    /\ work[p].job = "fingerprint" /\ work[p].told # "report" /\ w.told = "report" =>
          d[Checkpoint].bytes = Lineup

OneShotStep(p, w, d) ==
    work[p].job = "oneshot" /\ work[p].at # "idle" /\ w.at = "idle"
        /\ w.told \notin {"nothing", "transcript lost"}
      => /\ d[Transcript].bytes = w.told /\ d[Transcript].private
         /\ work[p].inTurn => w.told = "interrupted"
         /\ work[p].cancelled => w.told # "error"
         /\ ~work[p].cancelled => w.told \in {"completed", "error"}

\* A fetch begins only where the cache is of no more use.
BeginsToFetch(p, w) ==
    work[p].job = "window" /\ work[p].at = "idle" /\ w.at = "fetch" => ~CachedAfresh

WindowStep(p, w) ==
    /\ BeginsToFetch(p, w)
    /\ work[p].job = "window" /\ w.told \notin {"nothing", work[p].told} =>
          /\ work[p].at = "idle" => w.told = disk[Cache].bytes.window
          /\ w.told = BuiltinWindow => work[p].at = "fetch" /\ work[p].holds \in {NoFile, Torn}

Promised(p, w, d) ==
    KeyStep(p, w, d) /\ FingerprintStep(p, w, d) /\ OneShotStep(p, w, d) /\ WindowStep(p, w)

\* A step of a process that keeps the invariant and the promises: it is at work, or
\* begins what is begun by one at a time, or leaves the disk as it is.
GoodStep(p, w, d) ==
    /\ disk' = d /\ work' = [work EXCEPT ![p] = w]
    /\ w.job = work[p].job
    /\ work[p].at # "idle" \/ work[p].job = "window" \/ Alone(p) \/ (d = disk /\ w.at = "idle")
    /\ Fits(w, d) /\ DiskFits(d) /\ Promised(p, w, d)

Promises ==
    /\ PublishedIsWhole' /\ AttemptsAreBounded'
    /\ KeysStayPrivate /\ ResumedIsKept /\ OutcomeIsTold /\ WindowIsKnown

\* What the others do does not depend on what this one leaves on the disk.
LEMMA OthersFit ==
    ASSUME FilesInv, NEW p \in Processes, NEW q \in Processes \ {p}, NEW d,
           work[p].at # "idle" \/ work[p].job = "window" \/ Alone(p)
    PROVE  Fits(work[q], d)
  <1>1. Fits(work[q], disk) /\ work[q].job = work[p].job
    BY DEF FilesInv, OneAtATime
  <1>2. work[q].job = "window" \/ work[q].at = "idle"
    BY DEF FilesInv, OneAtATime, Alone
  <1>. QED
    BY <1>1, <1>2 DEF Fits, LoginFits, WindowFits, OneShotFits, FingerprintFits

\* A published file that fits is whole.
LEMMA FittingIsWhole ==
    ASSUME NEW d, DiskFits(d), NEW file \in Published
    PROVE  d[file].bytes # Torn
  BY FilesAssumption DEF DiskFits, Published, Entries, Endings, FirstOnes

LEMMA GoodStepsKeep ==
    ASSUME FilesInv, NEW p \in Processes, NEW w, NEW d, GoodStep(p, w, d)
    PROVE  FilesInv'
  <1>1. /\ disk' = d /\ work' = [work EXCEPT ![p] = w] /\ w.job = work[p].job
        /\ Fits(w, d) /\ DiskFits(d)
    BY DEF GoodStep
  <1>2. DOMAIN work' = Processes /\ work'[p] = w /\ \A q \in Processes \ {p} : work'[q] = work[q]
    BY <1>1 DEF FilesInv
  <1>3. ASSUME NEW q \in Processes PROVE Fits(work[q], disk)
    BY <1>3 DEF FilesInv
  <1>4. ASSUME NEW q \in Processes \ {p} PROVE Fits(work[q], d)
    BY <1>3, OthersFit DEF GoodStep
  <1>5. \A q \in Processes : Fits(work'[q], d)
    BY <1>1, <1>2, <1>4
  <1>6. OneAtATime'
    BY <1>1, <1>2 DEF FilesInv, OneAtATime, GoodStep, Alone
  <1>7. ASSUME NEW q \in Processes PROVE Fits(work[q], disk)'
    <2>1. /\ IsProcess(work'[q]) /\ LoginFits(work'[q], disk') /\ WindowFits(work'[q])
          /\ OneShotFits(work'[q], disk') /\ FingerprintFits(work'[q], disk')
      BY <1>1, <1>5 DEF Fits
    <2>2. IsProcess(work[q])'
      BY <2>1 DEF IsProcess
    <2>3. LoginFits(work[q], disk)' /\ WindowFits(work[q])'
      BY <2>1 DEF LoginFits, WindowFits
    <2>4. OneShotFits(work[q], disk)'
      BY <2>1 DEF OneShotFits
    <2>5. FingerprintFits(work[q], disk)'
      BY <2>1 DEF FingerprintFits
    <2>. QED
      BY <2>2, <2>3, <2>4, <2>5 DEF Fits
  <1>8. DiskFits(disk)'
    BY <1>1 DEF DiskFits
  <1>. QED
    BY <1>2, <1>6, <1>7, <1>8 DEF FilesInv

LEMMA GoodStepsPromise ==
    ASSUME FilesInv, NEW p \in Processes, NEW w, NEW d, GoodStep(p, w, d)
    PROVE  Promises
  <1>1. /\ disk' = d /\ work' = [work EXCEPT ![p] = w] /\ Promised(p, w, d)
    BY DEF GoodStep
  <1>2. work'[p] = w /\ \A q \in Processes \ {p} : work'[q] = work[q]
    BY <1>1 DEF FilesInv
  <1>3. FilesInv'
    BY GoodStepsKeep
  <1>4. PublishedIsWhole'
    BY <1>3, FittingIsWhole DEF FilesInv, DiskFits, PublishedIsWhole
  <1>5. AttemptsAreBounded'
    BY <1>3 DEF FilesInv, Fits, IsProcess, AttemptsAreBounded, MaxRequestAttempts
  <1>6. KeysStayPrivate
    BY <1>1, <1>2 DEF Promised, KeyStep, KeysStayPrivate
  <1>7. ResumedIsKept
    BY <1>1, <1>2 DEF Promised, FingerprintStep, ResumedIsKept
  <1>8. OutcomeIsTold
    BY <1>1, <1>2 DEF Promised, OneShotStep, OutcomeIsTold
  <1>9. WindowIsKnown
    BY <1>1, <1>2 DEF Promised, WindowStep, BeginsToFetch, WindowIsKnown
  <1>. QED
    BY <1>4, <1>5, <1>6, <1>7, <1>8, <1>9 DEF Promises

-----------------------------------------------------------------------------
(* What the steps are made of.                                             *)

\* The names that are read are not those of temporary files.
LEMMA PathsDiffer ==
    ASSUME NEW file \in Published, NEW p \in Processes
    PROVE  /\ Temporary(file, p) \in Paths \ (Published \union {KeyFile})
           /\ file = Transcript => Temporary(file, p) = Path("partial", "")
           /\ file # Transcript => Temporary(file, p) # Path("partial", "")
           /\ Published \subseteq Paths /\ KeyFile \in Paths \ Published
           /\ Cache # Transcript /\ Cache # Checkpoint /\ Transcript # Checkpoint
  <1>1. Published = {Cache, Transcript, Checkpoint}
    BY DEF Published
  <1>2. \A n, o, m, q : Path(n, o) = Path(m, q) => n = m /\ o = q
    BY DEF Path
  <1>3. Cache # Transcript /\ Cache # Checkpoint /\ Transcript # Checkpoint
        /\ KeyFile \notin Published /\ Path("partial", "") \notin Published \union {KeyFile}
    BY <1>1, <1>2 DEF KeyFile, Cache, Transcript, Checkpoint
  <1>4. Temporary(Cache, p) = Path("window", p) /\ Temporary(Checkpoint, p) = Path("checkpoint", p)
        /\ Temporary(Transcript, p) = Path("partial", "")
    <2>1. Cache.name = "window" /\ Checkpoint.name = "checkpoint"
      BY DEF Cache, Checkpoint, Path
    <2>. QED
      BY <1>3, <2>1 DEF Temporary
  <1>5. Path("window", p) \notin Published \union {KeyFile}
        /\ Path("checkpoint", p) \notin Published \union {KeyFile}
    <2>1. p # ""
      BY FilesAssumption
    <2>. QED
      BY <1>1, <1>2, <2>1 DEF KeyFile, Cache, Transcript, Checkpoint
  <1>6. Temporary(file, p) \in Paths /\ Published \union {KeyFile} \subseteq Paths
    BY DEF Paths
  <1>7. Path("window", p) # Path("partial", "") /\ Path("checkpoint", p) # Path("partial", "")
    BY <1>2
  <1>. QED
    BY <1>1, <1>3, <1>4, <1>5, <1>6, <1>7

\* A temporary file is begun beside what is read.
LEMMA BeginsBeside ==
    ASSUME FilesInv, NEW file \in Published, NEW p \in Processes, Begin(file, p)
    PROVE  /\ DiskFits(disk')
           /\ \A path \in Published \union {KeyFile} : disk'[path] = disk[path]
           /\ file = Transcript => disk'[Path("partial", "")].private
  <1> DEFINE t == Temporary(file, p)
             new == File(Torn, file = Transcript)
  <1>1. t \in Paths \ (Published \union {KeyFile}) /\ Published \union {KeyFile} \subseteq Paths
        /\ (file = Transcript => t = Path("partial", ""))
    BY PathsDiffer
  <1>2. disk' = [disk EXCEPT ![t] = new]
    BY DEF Begin
  <1>3. disk = [path \in Paths |-> File(disk[path].bytes, disk[path].private)] /\ DiskFits(disk)
    BY DEF FilesInv, DiskFits
  <1>4. new = File(new.bytes, new.private) /\ new.private = (file = Transcript)
    BY DEF File
  <1> HIDE DEF t, new
  <1>5. disk' = [path \in Paths |-> File(disk'[path].bytes, disk'[path].private)]
    BY <1>1, <1>2, <1>3, <1>4
  <1>6. disk'[t] = new /\ \A path \in Published \union {KeyFile} : disk'[path] = disk[path]
    BY <1>1, <1>2, <1>3
  <1>7. Cache \in Published /\ Transcript \in Published /\ Checkpoint \in Published
    BY DEF Published
  <1>. QED
    BY <1>1, <1>3, <1>4, <1>5, <1>6, <1>7 DEF DiskFits

\* A temporary file takes the place of the one that is read, or goes.
LEMMA PublishesOne ==
    ASSUME FilesInv, NEW file \in Published, NEW p \in Processes, NEW bytes,
           Publish(file, p, bytes),
           file = Cache => bytes \in Entries,
           file = Transcript => bytes \in Endings \union {"running"},
           file = Checkpoint => bytes \in FirstOnes
    PROVE  /\ DiskFits(disk')
           /\ disk'[file] = File(bytes, disk[Temporary(file, p)].private)
           /\ \A path \in (Published \union {KeyFile}) \ {file} : disk'[path] = disk[path]
  <1> DEFINE t == Temporary(file, p)
             new == File(bytes, disk[Temporary(file, p)].private)
  <1>1. t \in Paths \ (Published \union {KeyFile}) /\ Published \union {KeyFile} \subseteq Paths
        /\ Cache # Transcript /\ Cache # Checkpoint /\ Transcript # Checkpoint
    BY PathsDiffer
  <1>2. disk' = [disk EXCEPT ![file] = new, ![t] = Absent]
    BY DEF Publish
  <1>3. disk = [path \in Paths |-> File(disk[path].bytes, disk[path].private)] /\ DiskFits(disk)
    BY DEF FilesInv, DiskFits
  <1>4. new = File(new.bytes, new.private) /\ new.bytes = bytes
        /\ Absent = File(Absent.bytes, Absent.private)
    BY DEF File, Absent
  <1> HIDE DEF t, new
  <1>5. disk' = [path \in Paths |-> File(disk'[path].bytes, disk'[path].private)]
    BY <1>1, <1>2, <1>3, <1>4
  <1>6. disk'[file] = new
        /\ \A path \in (Published \union {KeyFile}) \ {file} : disk'[path] = disk[path]
    BY <1>1, <1>2, <1>3
  <1>7. Cache \in Published /\ Transcript \in Published /\ Checkpoint \in Published
    BY DEF Published
  <1>8. DiskFits(disk')
    <2>1. disk'[Cache].bytes \in Entries \union {NoFile}
      BY <1>3, <1>4, <1>6, <1>7 DEF DiskFits
    <2>2. disk'[Transcript].bytes \in Endings \union {"running", NoFile}
      BY <1>3, <1>4, <1>6, <1>7 DEF DiskFits
    <2>3. disk'[Checkpoint].bytes \in FirstOnes \union {NoFile}
      BY <1>3, <1>4, <1>6, <1>7 DEF DiskFits
    <2>. QED
      BY <1>5, <2>1, <2>2, <2>3 DEF DiskFits
  <1>. QED
    BY <1>6, <1>8 DEF new, t

LEMMA DiscardsOne ==
    ASSUME FilesInv, NEW file \in Published, NEW p \in Processes,
           disk' = [disk EXCEPT ![Temporary(file, p)] = Absent]
    PROVE  /\ DiskFits(disk')
           /\ \A path \in Published \union {KeyFile} : disk'[path] = disk[path]
  <1> DEFINE t == Temporary(file, p)
  <1>1. t \in Paths \ (Published \union {KeyFile}) /\ Published \union {KeyFile} \subseteq Paths
    BY PathsDiffer
  <1>2. disk' = [disk EXCEPT ![t] = Absent]
    OBVIOUS
  <1>3. disk = [path \in Paths |-> File(disk[path].bytes, disk[path].private)] /\ DiskFits(disk)
    BY DEF FilesInv, DiskFits
  <1>4. Absent = File(Absent.bytes, Absent.private)
    BY DEF File, Absent
  <1> HIDE DEF t
  <1>5. disk' = [path \in Paths |-> File(disk'[path].bytes, disk'[path].private)]
    BY <1>1, <1>2, <1>3, <1>4
  <1>6. \A path \in Published \union {KeyFile} : disk'[path] = disk[path]
    BY <1>1, <1>2, <1>3
  <1>7. Cache \in Published /\ Transcript \in Published /\ Checkpoint \in Published
    BY DEF Published
  <1>. QED
    BY <1>3, <1>5, <1>6, <1>7 DEF DiskFits

\* A process that begins is one.
LEMMA FreshIsProcess ==
    ASSUME NEW w, w.attempt = 0, w.probe = 0,
           w \in [job : {w.job}, at : {w.at}, how : {w.how}, holds : {w.holds},
                  cancelled : {w.cancelled}, inTurn : {w.inTurn}, attempt : {w.attempt},
                  probe : {w.probe}, told : {w.told}]
    PROVE  IsProcess(w)
  <1>1. w.attempt \in 0..(MaxRequestAttempts - 1) /\ w.probe \in Nat
    BY DEF MaxRequestAttempts
  <1>. QED
    BY <1>1, Zenon DEF IsProcess

\* A process that stops fits whatever is on the disk.
LEMMA StoppedFits ==
    ASSUME NEW job, NEW told, NEW d
    PROVE  LET w == [Working(job) EXCEPT !.told = told] IN
           Fits(w, d) /\ w.job = job /\ w.at = "idle" /\ w.told = told
  <1> DEFINE w == [Working(job) EXCEPT !.told = told]
  <1>2. w.job = job /\ w.at = "idle" /\ w.how = "" /\ w.holds = NoFile /\ w.cancelled = FALSE
        /\ w.attempt = 0 /\ w.probe = 0 /\ w.told = told
    BY DEF Working
  <1>3. IsProcess(w)
    <2>1. w \in [job : {w.job}, at : {w.at}, how : {w.how}, holds : {w.holds},
                cancelled : {w.cancelled}, inTurn : {w.inTurn}, attempt : {w.attempt},
                probe : {w.probe}, told : {w.told}]
      BY DEF Working
    <2> HIDE DEF w
    <2>. QED
      BY <1>2, <2>1, FreshIsProcess
  <1> HIDE DEF w
  <1>4. LoginFits(w, d) /\ WindowFits(w) /\ OneShotFits(w, d) /\ FingerprintFits(w, d)
    BY <1>2 DEF LoginFits, WindowFits, OneShotFits, FingerprintFits
  <1>5. Fits(w, d)
    BY <1>3, <1>4 DEF Fits
  <1>. QED
    BY <1>2, <1>5 DEF w

\* A lineup's first models are a sequence that begins with itself.
LEMMA FirstOnesArePrefixes ==
    ASSUME NEW s \in FirstOnes
    PROVE  s \in Seq(ToSet(Lineup)) /\ IsPrefix(s, s) /\ Len(s) <= Len(Lineup)
           /\ s = SubSeq(Lineup, 1, Len(s)) /\ (Len(s) = Len(Lineup) => s = Lineup)
  <1>1. PICK n \in 0..Len(Lineup) : s = SubSeq(Lineup, 1, n)
    BY DEF FirstOnes
  <1>2. Lineup \in Seq(ToSet(Lineup))
    BY LineupAssumption
  <1>3. s \in Seq(ToSet(Lineup)) /\ Len(s) = n
    BY <1>1, <1>2
  <1>4. IsPrefix(s, s)
    BY <1>3 DEF IsPrefix
  <1>. QED
    BY <1>1, <1>2, <1>3, <1>4

\* A process that only goes on, or stops with what no property speaks of, and leaves
\* what is read as it is, keeps every promise.
Quiet(p, w) ==
    \/ w.told = "nothing"
    \/ w.told = work[p].told /\ w.at # "idle"
    \/ work[p].job \in {"login", "fingerprint"} /\ w.told \in {"failed", "timed out", "saved"}
    \/ work[p].job = "oneshot" /\ w.told = "transcript lost"

LEMMA QuietSteps ==
    ASSUME FilesInv, NEW p \in Processes, NEW w, NEW d, Quiet(p, w), BeginsToFetch(p, w),
           d[KeyFile].bytes \notin {disk[KeyFile].bytes, NoFile, Torn} => d[KeyFile].private,
           work[p].at = "idle" \/ work[p].how = "resume" => d[Checkpoint] = disk[Checkpoint]
    PROVE  Promised(p, w, d)
  <1>1. KeyStep(p, w, d)
    BY DEF KeyStep, Quiet, At
  <1>2. disk[Checkpoint].bytes # NoFile => IsPrefix(disk[Checkpoint].bytes, disk[Checkpoint].bytes)
    BY FirstOnesArePrefixes DEF FilesInv, DiskFits
  <1>3. FingerprintStep(p, w, d)
    BY <1>2 DEF FingerprintStep, Quiet
  <1>4. OneShotStep(p, w, d) /\ WindowStep(p, w)
    BY DEF OneShotStep, WindowStep, BeginsToFetch, Quiet
  <1>. QED
    BY <1>1, <1>3, <1>4 DEF Promised

\* What a process does that stops.
Stopped(p, told) == [Working(work[p].job) EXCEPT !.told = told]

\* A process does well, whatever becomes of it.
DoesWell(p) == \E w : GoodStep(p, w, disk')

LEMMA StopsWell ==
    ASSUME FilesInv, NEW p \in Processes, NEW told, Stops(p, told), DiskFits(disk'),
           Promised(p, Stopped(p, told), disk'),
           work[p].at # "idle" \/ Alone(p) \/ disk' = disk
    PROVE  DoesWell(p)
  <1> DEFINE w == Stopped(p, told)
  <1>1. work' = [work EXCEPT ![p] = w]
    BY DEF Stops, Stopped, FilesInv
  <1>2. Fits(w, disk') /\ w.job = work[p].job /\ w.at = "idle"
    BY StoppedFits DEF Stopped
  <1> HIDE DEF w
  <1>3. Promised(p, w, disk')
    BY DEF w
  <1>. QED
    BY <1>1, <1>2, <1>3 DEF DoesWell, GoodStep

LEMMA StopsQuietly ==
    ASSUME FilesInv, NEW p \in Processes, NEW told, Stops(p, told), DiskFits(disk'),
           \/ told = "nothing"
           \/ work[p].job \in {"login", "fingerprint"} /\ told \in {"failed", "timed out", "saved"}
           \/ work[p].job = "oneshot" /\ told = "transcript lost",
           disk'[KeyFile].bytes \notin {disk[KeyFile].bytes, NoFile, Torn} =>
               disk'[KeyFile].private,
           work[p].at = "idle" \/ work[p].how = "resume" => disk'[Checkpoint] = disk[Checkpoint],
           work[p].at # "idle" \/ Alone(p) \/ disk' = disk
    PROVE  DoesWell(p)
  <1>1. Stopped(p, told).told = told /\ Stopped(p, told).at = "idle"
    BY DEF Stopped, Working
  <1>2. Promised(p, Stopped(p, told), disk')
    BY <1>1, QuietSteps DEF Quiet, BeginsToFetch
  <1>. QED
    BY <1>2, StopsWell

LEMMA GoesOnQuietly ==
    ASSUME FilesInv, NEW p \in Processes, NEW w, work' = [work EXCEPT ![p] = w],
           w.job = work[p].job, w.at # "idle", w.told = work[p].told \/ w.told = "nothing",
           BeginsToFetch(p, w), Fits(w, disk'), DiskFits(disk'),
           disk'[KeyFile].bytes \notin {disk[KeyFile].bytes, NoFile, Torn} =>
               disk'[KeyFile].private,
           work[p].at = "idle" \/ work[p].how = "resume" => disk'[Checkpoint] = disk[Checkpoint],
           work[p].at # "idle" \/ work[p].job = "window" \/ Alone(p)
    PROVE  DoesWell(p)
  <1>1. Promised(p, w, disk')
    BY QuietSteps DEF Quiet
  <1>. QED
    BY <1>1 DEF DoesWell, GoodStep

-----------------------------------------------------------------------------
(* The steps.                                                              *)

\* The disk fits, and so does a process, if neither changes.
LEMMA NowFits ==
    ASSUME FilesInv, NEW p \in Processes
    PROVE  /\ DiskFits(disk) /\ IsProcess(work[p]) /\ Fits(work[p], disk)
           /\ UNCHANGED disk => DiskFits(disk')
  BY DEF FilesInv, Fits

\* Between the start of a login and its key a process holds nothing that matters.
LEMMA LoggingInFits ==
    ASSUME NEW w, NEW d, IsProcess(w), w.job = "login", w.at \notin {"secure", "write"}
    PROVE  Fits(w, d)
  BY DEF Fits, LoginFits, WindowFits, OneShotFits, FingerprintFits

LEMMA StartLoginIsGood ==
    ASSUME FilesInv, NEW p \in Processes, NEW how, StartLogin(p, how) PROVE DoesWell(p)
  <1> DEFINE w == [Working("login") EXCEPT !.at = "waiting", !.how = how]
  <1>1. work' = [work EXCEPT ![p] = w] /\ work[p].job = "login" /\ Alone(p) /\ UNCHANGED disk
    BY DEF StartLogin, At
  <1>2. w.job = "login" /\ w.at = "waiting" /\ w.told = "nothing" /\ w.attempt = 0 /\ w.probe = 0
    BY DEF Working
  <1>3. w \in [job : {w.job}, at : {w.at}, how : {w.how}, holds : {w.holds},
              cancelled : {w.cancelled}, inTurn : {w.inTurn}, attempt : {w.attempt},
              probe : {w.probe}, told : {w.told}]
    BY DEF Working
  <1> HIDE DEF w
  <1>5. IsProcess(w)
    BY <1>2, <1>3, FreshIsProcess
  <1>6. Fits(w, disk')
    BY <1>2, <1>5, LoggingInFits
  <1>. QED
    BY <1>1, <1>2, <1>6, NowFits, GoesOnQuietly DEF BeginsToFetch

\* A login that was given something, or nothing, goes on or stops.
LEMMA LoginMovesAreGood ==
    ASSUME FilesInv, NEW p \in Processes, NEW at, NEW holds, work[p].job = "login",
           work[p].at # "idle", at \notin {"idle", "secure", "write"}, UNCHANGED disk,
           \/ work' = [work EXCEPT ![p].at = at, ![p].holds = holds]
           \/ work' = [work EXCEPT ![p].at = at]
    PROVE  DoesWell(p)
  <1>1. ASSUME NEW w, work' = [work EXCEPT ![p] = w], IsProcess(w), w.job = "login", w.at = at,
               w.told = work[p].told
        PROVE  DoesWell(p)
    <2>1. Fits(w, disk')
      BY <1>1, LoggingInFits
    <2>. QED
      BY <1>1, <2>1, NowFits, GoesOnQuietly DEF BeginsToFetch
  <1>2. CASE work' = [work EXCEPT ![p].at = at, ![p].holds = holds]
    <2> DEFINE w == [work[p] EXCEPT !.at = at, !.holds = holds]
    <2>1. work' = [work EXCEPT ![p] = w]
      BY <1>2 DEF FilesInv
    <2>2. IsProcess(w) /\ w.job = "login" /\ w.at = at /\ w.told = work[p].told
      BY NowFits DEF IsProcess
    <2> HIDE DEF w
    <2>. QED
      BY <1>1, <2>1, <2>2
  <1>3. CASE work' = [work EXCEPT ![p].at = at]
    <2> DEFINE w == [work[p] EXCEPT !.at = at]
    <2>1. work' = [work EXCEPT ![p] = w]
      BY <1>3 DEF FilesInv
    <2>2. IsProcess(w) /\ w.job = "login" /\ w.at = at /\ w.told = work[p].told
      BY NowFits DEF IsProcess
    <2> HIDE DEF w
    <2>. QED
      BY <1>1, <2>1, <2>2
  <1>. QED
    BY <1>2, <1>3

LEMMA AnswersAreGood ==
    ASSUME FilesInv, NEW p \in Processes, NEW request, NEW text, NEW answer,
           Callback(p, request) \/ CallbackTimesOut(p) \/ Typed(p, text) \/ Exchange(p, answer)
    PROVE  DoesWell(p)
  <1>1. work[p].job = "login" /\ work[p].at # "idle" /\ UNCHANGED disk
    BY DEF Callback, CallbackTimesOut, Typed, Exchange, At
  <1>2. ASSUME NEW told \in {"failed", "timed out"}, Stops(p, told) PROVE DoesWell(p)
    BY <1>1, <1>2, NowFits, StopsQuietly
  <1>3. CASE Callback(p, request)
    <2>1. CASE CodeOf(request) = ""
      BY <1>2, <1>3, <2>1 DEF Callback
    <2>2. CASE CodeOf(request) # ""
      <3>1. work' = [work EXCEPT ![p].at = "exchange", ![p].holds = CodeOf(request)]
        BY <1>3, <2>2 DEF Callback
      <3>2. "exchange" \notin {"idle", "secure", "write"}
        OBVIOUS
      <3>. QED
        BY <1>1, <3>1, <3>2, LoginMovesAreGood
    <2>. QED
      BY <2>1, <2>2
  <1>4. CASE CallbackTimesOut(p)
    BY <1>2, <1>4 DEF CallbackTimesOut
  <1>5. CASE Typed(p, text)
    <2>1. CASE text = ""
      BY <1>2, <1>5, <2>1 DEF Typed
    <2>2. CASE text # ""
      <3> DEFINE at == IF work[p].how = "key" THEN "open" ELSE "exchange"
      <3>1. work' = [work EXCEPT ![p].at = at, ![p].holds = text]
        BY <1>5, <2>2 DEF Typed, FilesInv
      <3>2. at \notin {"idle", "secure", "write"}
        OBVIOUS
      <3> HIDE DEF at
      <3>. QED
        BY <1>1, <3>1, <3>2, LoginMovesAreGood
    <2>. QED
      BY <2>1, <2>2
  <1>6. CASE Exchange(p, answer)
    <2>1. CASE answer = "key"
      <3>1. work' = [work EXCEPT ![p].at = "open"]
        BY <1>6, <2>1 DEF Exchange, Moves
      <3>2. "open" \notin {"idle", "secure", "write"}
        OBVIOUS
      <3>. QED
        BY <1>1, <3>1, <3>2, LoginMovesAreGood
    <2>2. CASE answer # "key"
      BY <1>2, <1>6, <2>2 DEF Exchange
    <2>. QED
      BY <2>1, <2>2
  <1>. QED
    BY <1>3, <1>4, <1>5, <1>6

\* The key is written in three steps, and only its name changes.
LEMMA KeyFileChanges ==
    ASSUME FilesInv, NEW bytes, NEW private,
           disk' = [disk EXCEPT ![KeyFile] = File(bytes, private)]
    PROVE  /\ DiskFits(disk') /\ disk'[KeyFile].bytes = bytes /\ disk'[KeyFile].private = private
           /\ disk'[Checkpoint] = disk[Checkpoint]
  <1>1. KeyFile \in Paths /\ KeyFile \notin Published /\ Published = {Cache, Transcript, Checkpoint}
        /\ Published \subseteq Paths
    <2>1. \A n, o, m, q : Path(n, o) = Path(m, q) => n = m /\ o = q
      BY DEF Path
    <2>2. KeyFile \notin Published
      BY <2>1 DEF KeyFile, Published, Cache, Transcript, Checkpoint
    <2>. QED
      BY <2>2 DEF Paths, Published
  <1>2. disk = [path \in Paths |-> File(disk[path].bytes, disk[path].private)] /\ DiskFits(disk)
    BY DEF FilesInv, DiskFits
  <1> DEFINE new == File(bytes, private)
  <1>3. new = File(new.bytes, new.private) /\ new.bytes = bytes /\ new.private = private
    BY DEF File
  <1>4. disk' = [disk EXCEPT ![KeyFile] = new]
    OBVIOUS
  <1> HIDE DEF new
  <1>5. disk' = [path \in Paths |-> File(disk'[path].bytes, disk'[path].private)]
    BY <1>1, <1>2, <1>3, <1>4
  <1>6. disk'[KeyFile] = new /\ \A path \in Published : disk'[path] = disk[path]
    BY <1>1, <1>2, <1>4
  <1>. QED
    BY <1>1, <1>2, <1>3, <1>5, <1>6 DEF DiskFits

LEMMA WritingIsGood ==
    ASSUME FilesInv, NEW p \in Processes, OpenKey(p) \/ SecureKey(p) \/ WriteKey(p)
    PROVE  DoesWell(p)
  <1> DEFINE key == disk[KeyFile]
  <1>1. work[p].job = "login" /\ work[p].at # "idle" /\ IsProcess(work[p])
        /\ LoginFits(work[p], disk)
    BY NowFits DEF OpenKey, SecureKey, WriteKey, At, Fits
  <1>2. KeyFile \in Paths
    BY DEF Paths
  <1>3. key = File(key.bytes, key.private) /\ DOMAIN disk = Paths
    BY <1>2 DEF FilesInv, DiskFits
  <1>4. ASSUME NEW bytes PROVE [key EXCEPT !.bytes = bytes] = File(bytes, key.private)
    BY <1>3 DEF File
  <1>5. ASSUME NEW private PROVE [key EXCEPT !.private = private] = File(key.bytes, private)
    BY <1>3 DEF File
  <1>6. ASSUME NEW w, work' = [work EXCEPT ![p] = w], IsProcess(w), w.job = "login",
               w.at \in {"secure", "write"}, w.told = work[p].told, DiskFits(disk'),
               disk'[Checkpoint] = disk[Checkpoint], disk'[KeyFile].bytes = Torn,
               w.at = "write" => disk'[KeyFile].private
        PROVE  DoesWell(p)
    <2>1. Fits(w, disk')
      BY <1>6 DEF Fits, LoginFits, WindowFits, OneShotFits, FingerprintFits
    <2>. QED
      BY <1>1, <1>6, <2>1, GoesOnQuietly DEF BeginsToFetch
  <1>7. CASE OpenKey(p)
    <2> DEFINE w == [work[p] EXCEPT !.at = "secure"]
               private == IF key.bytes = NoFile THEN TRUE ELSE key.private
    <2>1. work' = [work EXCEPT ![p] = w]
      BY <1>7 DEF OpenKey, Moves, FilesInv
    <2>2. IsProcess(w) /\ w.job = "login" /\ w.at = "secure" /\ w.told = work[p].told
      BY <1>1 DEF IsProcess
    <2>3. disk' = [disk EXCEPT ![KeyFile] = File(Torn, private)]
      BY <1>2, <1>3, <1>7 DEF OpenKey
    <2> HIDE DEF w, private
    <2>. QED
      BY <1>6, <2>1, <2>2, <2>3, KeyFileChanges
  <1>8. CASE SecureKey(p)
    <2> DEFINE w == [work[p] EXCEPT !.at = "write"]
    <2>1. work' = [work EXCEPT ![p] = w]
      BY <1>8 DEF SecureKey, Moves, FilesInv
    <2>2. IsProcess(w) /\ w.job = "login" /\ w.at = "write" /\ w.told = work[p].told
      BY <1>1 DEF IsProcess
    <2>3. disk' = [disk EXCEPT ![KeyFile] = File(key.bytes, TRUE)]
      BY <1>2, <1>3, <1>5, <1>8 DEF SecureKey
    <2>4. key.bytes = Torn
      BY <1>1, <1>8 DEF SecureKey, At, LoginFits
    <2> HIDE DEF w
    <2>. QED
      BY <1>6, <2>1, <2>2, <2>3, <2>4, KeyFileChanges
  <1>9. CASE WriteKey(p)
    <2>1. disk' = [disk EXCEPT ![KeyFile] = File(work[p].holds, key.private)]
      BY <1>2, <1>3, <1>4, <1>9 DEF WriteKey
    <2>2. key.private /\ Stops(p, "saved")
      BY <1>1, <1>9 DEF WriteKey, At, LoginFits
    <2>. QED
      BY <1>1, <2>1, <2>2, KeyFileChanges, StopsQuietly
  <1>. QED
    BY <1>7, <1>8, <1>9

LEMMA ReadKeyIsGood ==
    ASSUME FilesInv, NEW p \in Processes, ReadKey(p) PROVE DoesWell(p)
  <1> DEFINE told == Credential
  <1>1. work[p].job = "login" /\ work[p].at = "idle" /\ Stops(p, told) /\ UNCHANGED disk
    BY DEF ReadKey, At
  <1>2. told \in {"mine", "forged"} => disk[KeyFile].private
    <2>1. CASE disk[KeyFile].bytes = NoFile
      BY <2>1 DEF Credential
    <2>2. CASE disk[KeyFile].bytes # NoFile /\ ~disk[KeyFile].private
      BY <2>2 DEF Credential
    <2>. QED
      BY <2>1, <2>2
  <1>3. Stopped(p, told).told = told
    BY StoppedFits DEF Stopped
  <1> HIDE DEF told
  <1>4. disk[Checkpoint].bytes # NoFile => IsPrefix(disk[Checkpoint].bytes, disk[Checkpoint].bytes)
    BY FirstOnesArePrefixes DEF FilesInv, DiskFits
  <1>5. Promised(p, Stopped(p, told), disk')
    BY <1>1, <1>2, <1>3, <1>4 DEF Promised, KeyStep, FingerprintStep, OneShotStep, WindowStep, BeginsToFetch
  <1>. QED
    BY <1>1, <1>5, NowFits, StopsWell

LEMMA LogoutIsGood ==
    ASSUME FilesInv, NEW p \in Processes, Logout(p) PROVE DoesWell(p)
  <1>1. disk' = [disk EXCEPT ![KeyFile] = File(NoFile, FALSE)] /\ Alone(p) /\ Stops(p, "nothing")
    BY DEF Logout, Absent
  <1>. QED
    BY <1>1, KeyFileChanges, StopsQuietly

\* Names that are read, and what a begun process is, for the lemmas that follow.
LEMMA NamesOfFiles ==
    Cache \in Published /\ Transcript \in Published /\ Checkpoint \in Published
        /\ Cache # Checkpoint /\ Transcript # Checkpoint /\ Cache # Transcript
        /\ KeyFile \notin Published
  <1>1. \A n, o, m, q : Path(n, o) = Path(m, q) => n = m /\ o = q
    BY DEF Path
  <1>. QED
    BY <1>1 DEF KeyFile, Published, Cache, Transcript, Checkpoint

LEMMA ResolveWindowIsGood ==
    ASSUME FilesInv, NEW p \in Processes, ResolveWindow(p) PROVE DoesWell(p)
  <1>1. work[p].job = "window" /\ work[p].at = "idle" /\ UNCHANGED disk
    BY DEF ResolveWindow, At
  <1>2. disk[Cache].bytes \in Entries \union {NoFile}
    BY DEF FilesInv, DiskFits
  <1>3. CASE CachedAfresh
    <2> DEFINE told == disk[Cache].bytes.window
    <2>1. Stops(p, told)
      BY <1>3 DEF ResolveWindow
    <2>2. told \in Windows
      BY <1>2, <1>3 DEF Cached, CachedAfresh, Entries
    <2>3. told # BuiltinWindow
      BY <2>2, FilesAssumption
    <2>4. Stopped(p, told).told = told /\ Stopped(p, told).at = "idle"
      BY DEF Stopped, Working
    <2>5. disk[Checkpoint].bytes # NoFile => IsPrefix(disk[Checkpoint].bytes, disk[Checkpoint].bytes)
      BY FirstOnesArePrefixes DEF FilesInv, DiskFits
    <2>6. Promised(p, Stopped(p, told), disk')
      <3>1. disk' = disk
        BY <1>1
      <3>2. WindowStep(p, Stopped(p, told))
        BY <2>3, <2>4 DEF WindowStep, BeginsToFetch
      <3> HIDE DEF told
      <3>. QED
        BY <1>1, <2>5, <3>1, <3>2 DEF Promised, KeyStep, FingerprintStep, OneShotStep, At
    <2> HIDE DEF told
    <2>. QED
      BY <1>1, <2>1, <2>6, NowFits, StopsWell
  <1>4. CASE ~CachedAfresh
    <2> DEFINE old == disk[Cache].bytes
               w == [Working("window") EXCEPT !.at = "fetch", !.holds = old]
    <2>1. work' = [work EXCEPT ![p] = w]
      BY <1>4 DEF ResolveWindow
    <2>2. w.job = "window" /\ w.at = "fetch" /\ w.holds = old /\ w.told = "nothing"
          /\ w.attempt = 0 /\ w.probe = 0
      BY DEF Working
    <2>3. w \in [job : {w.job}, at : {w.at}, how : {w.how}, holds : {w.holds},
                cancelled : {w.cancelled}, inTurn : {w.inTurn}, attempt : {w.attempt},
                probe : {w.probe}, told : {w.told}]
      BY DEF Working
    <2> HIDE DEF w
    <2>5. IsProcess(w)
      BY <2>2, <2>3, FreshIsProcess
    <2>6. Fits(w, disk')
      BY <1>2, <2>2, <2>5 DEF Fits, LoginFits, WindowFits, OneShotFits, FingerprintFits
    <2>. QED
      BY <1>1, <1>4, <2>1, <2>2, <2>6, NowFits, GoesOnQuietly DEF BeginsToFetch
  <1>. QED
    BY <1>3, <1>4

\* A window that a reader tells is one that the provider announced, or the built-in
\* one where there is nothing else.
LEMMA TellsWindow ==
    ASSUME FilesInv, NEW p \in Processes, NEW told, Stops(p, told), work[p].job = "window",
           work[p].at # "idle", DiskFits(disk'), disk'[KeyFile] = disk[KeyFile],
           disk'[Checkpoint] = disk[Checkpoint],
           told \in Windows \/ (work[p].at = "fetch" /\ work[p].holds \in {NoFile, Torn})
    PROVE  DoesWell(p)
  <1>1. Stopped(p, told).told = told /\ Stopped(p, told).at = "idle"
    BY DEF Stopped, Working
  <1>2. WindowStep(p, Stopped(p, told))
    BY <1>1, FilesAssumption DEF WindowStep, BeginsToFetch
  <1>3. disk[Checkpoint].bytes # NoFile => IsPrefix(disk[Checkpoint].bytes, disk[Checkpoint].bytes)
    BY FirstOnesArePrefixes DEF FilesInv, DiskFits
  <1>4. Promised(p, Stopped(p, told), disk')
    BY <1>2, <1>3 DEF Promised, KeyStep, FingerprintStep, OneShotStep, At
  <1>. QED
    BY <1>4, StopsWell

LEMMA FetchWindowIsGood ==
    ASSUME FilesInv, announced \in Windows, NEW p \in Processes, NEW answers,
           FetchWindow(p, answers)
    PROVE  DoesWell(p)
  <1> DEFINE old == work[p].holds
  <1>1. work[p].job = "window" /\ work[p].at = "fetch" /\ UNCHANGED disk
    BY DEF FetchWindow, At
  <1>2. old \in Entries \union {NoFile}
    BY <1>1, NowFits DEF Fits, WindowFits
  <1>3. CASE answers
    <2> DEFINE entry == [window |-> announced, fresh |-> TRUE]
               w == [work[p] EXCEPT !.at = "cache", !.holds = entry]
    <2>1. work' = [work EXCEPT ![p] = w]
      BY <1>3 DEF FetchWindow, FilesInv
    <2>2. entry \in Entries
      BY DEF Entries
    <2> HIDE DEF entry
    <2>3. IsProcess(w) /\ w.job = "window" /\ w.at = "cache" /\ w.holds = entry
          /\ w.told = work[p].told
      BY <1>1, NowFits DEF IsProcess
    <2> HIDE DEF w
    <2>4. Fits(w, disk')
      BY <2>2, <2>3 DEF Fits, LoginFits, WindowFits, OneShotFits, FingerprintFits
    <2>. QED
      BY <1>1, <2>1, <2>3, <2>4, NowFits, GoesOnQuietly DEF BeginsToFetch
  <1>4. CASE ~answers
    <2>0. PICK told : told = IF old \in {NoFile, Torn} THEN BuiltinWindow ELSE old.window
      OBVIOUS
    <2>1. Stops(p, told)
      BY <1>4, <2>0 DEF FetchWindow
    <2>2. told \in Windows \/ old \in {NoFile, Torn}
      BY <1>2, <2>0 DEF Entries
    <2>3. work[p].at # "idle" /\ DiskFits(disk') /\ disk'[KeyFile] = disk[KeyFile]
          /\ disk'[Checkpoint] = disk[Checkpoint]
      BY <1>1, NowFits
    <2>. QED
      BY <1>1, <2>1, <2>2, <2>3, TellsWindow
  <1>. QED
    BY <1>3, <1>4

LEMMA CachingIsGood ==
    ASSUME FilesInv, NEW p \in Processes, NEW stored, CacheWindow(p) \/ WindowCached(p, stored)
    PROVE  DoesWell(p)
  <1>1. work[p].job = "window" /\ work[p].at \in {"cache", "cached"}
    BY DEF CacheWindow, WindowCached, At
  <1>2. work[p].holds \in Entries
    BY <1>1, NowFits DEF Fits, WindowFits
  <1>3. CASE CacheWindow(p)
    <2> DEFINE w == [work[p] EXCEPT !.at = "cached"]
    <2>1. work' = [work EXCEPT ![p] = w]
      BY <1>3 DEF CacheWindow, Moves, FilesInv
    <2>2. IsProcess(w) /\ w.job = "window" /\ w.at = "cached" /\ w.holds = work[p].holds
          /\ w.told = work[p].told
      BY <1>1, NowFits DEF IsProcess
    <2> HIDE DEF w
    <2>3. Fits(w, disk')
      BY <1>2, <2>2 DEF Fits, LoginFits, WindowFits, OneShotFits, FingerprintFits
    <2>4. DiskFits(disk') /\ disk'[KeyFile] = disk[KeyFile] /\ disk'[Checkpoint] = disk[Checkpoint]
      BY <1>3, NamesOfFiles, BeginsBeside DEF CacheWindow
    <2>. QED
      BY <1>1, <2>1, <2>2, <2>3, <2>4, GoesOnQuietly DEF BeginsToFetch
  <1>4. CASE WindowCached(p, stored)
    <2>0. PICK told : told = work[p].holds.window
      OBVIOUS
    <2>1. Stops(p, told) /\ told \in Windows
      BY <1>2, <1>4, <2>0 DEF WindowCached, Entries
    <2>2. DiskFits(disk') /\ disk'[KeyFile] = disk[KeyFile] /\ disk'[Checkpoint] = disk[Checkpoint]
      <3>1. CASE stored
        <4>1. Publish(Cache, p, work[p].holds)
          BY <1>4, <3>1 DEF WindowCached
        <4>. QED
          BY <1>2, <4>1, NamesOfFiles, PublishesOne
      <3>2. CASE ~stored
        <4>1. disk' = [disk EXCEPT ![Temporary(Cache, p)] = Absent]
          BY <1>4, <3>2 DEF WindowCached
        <4>. QED
          BY <4>1, NamesOfFiles, DiscardsOne
      <3>. QED
        BY <3>1, <3>2
    <2>3. work[p].at # "idle"
      BY <1>1
    <2>. QED
      BY <1>1, <2>1, <2>2, <2>3, TellsWindow
  <1>. QED
    BY <1>3, <1>4

\* A run that goes on with what it told and what it may hold.
LEMMA OneShotGoesOn ==
    ASSUME FilesInv, NEW p \in Processes, NEW w, work' = [work EXCEPT ![p] = w],
           IsProcess(w), w.job = "oneshot", work[p].job = "oneshot", w.at # "idle",
           w.told = work[p].told \/ w.told = "nothing", work[p].at # "idle" \/ Alone(p),
           DiskFits(disk'), disk'[KeyFile] = disk[KeyFile],
           disk'[Checkpoint] = disk[Checkpoint], OneShotFits(w, disk')
    PROVE  DoesWell(p)
  <1>1. Fits(w, disk')
    BY DEF Fits, LoginFits, WindowFits, FingerprintFits
  <1>. QED
    BY <1>1, GoesOnQuietly DEF BeginsToFetch

LEMMA StartOneShotIsGood ==
    ASSUME FilesInv, NEW p \in Processes, StartOneShot(p) PROVE DoesWell(p)
  <1> DEFINE w == [Working("oneshot") EXCEPT !.at = "turn"]
  <1>1. work' = [work EXCEPT ![p] = w] /\ work[p].job = "oneshot" /\ Alone(p) /\ UNCHANGED disk
    BY DEF StartOneShot, At
  <1>2. w.job = "oneshot" /\ w.at = "turn" /\ w.told = "nothing" /\ w.attempt = 0 /\ w.probe = 0
        /\ w.inTurn = w.cancelled
    BY DEF Working
  <1>3. w \in [job : {w.job}, at : {w.at}, how : {w.how}, holds : {w.holds},
              cancelled : {w.cancelled}, inTurn : {w.inTurn}, attempt : {w.attempt},
              probe : {w.probe}, told : {w.told}]
    BY DEF Working
  <1> HIDE DEF w
  <1>5. IsProcess(w)
    BY <1>2, <1>3, FreshIsProcess
  <1>6. OneShotFits(w, disk')
    BY <1>2 DEF OneShotFits
  <1>. QED
    BY <1>1, <1>2, <1>5, <1>6, NowFits, OneShotGoesOn

LEMMA SignalIsGood ==
    ASSUME FilesInv, NEW p \in Processes, Signal(p) PROVE DoesWell(p)
  <1> DEFINE w == [work[p] EXCEPT !.cancelled = TRUE,
                                  !.inTurn = work[p].at \in {"turn", "checkpoint"}]
  <1>1. work[p].job = "oneshot" /\ work[p].at \notin {"idle", "final", "publish"} /\ UNCHANGED disk
        /\ ~work[p].cancelled
    BY DEF Signal
  <1>2. work' = [work EXCEPT ![p] = w]
    BY DEF Signal, FilesInv
  <1>3. IsProcess(w) /\ w.job = "oneshot" /\ w.at = work[p].at /\ w.holds = work[p].holds
        /\ w.told = work[p].told /\ w.cancelled
        /\ w.inTurn = (work[p].at \in {"turn", "checkpoint"})
    BY <1>1, NowFits DEF IsProcess
  <1>4. OneShotFits(work[p], disk)
    BY NowFits DEF Fits
  <1> HIDE DEF w
  <1>5. OneShotFits(w, disk')
    BY <1>1, <1>3, <1>4 DEF OneShotFits
  <1>. QED
    BY <1>1, <1>2, <1>3, <1>5, NowFits, OneShotGoesOn

LEMMA TranscriptsAreGood ==
    ASSUME FilesInv, NEW p \in Processes, NEW stored,
           CheckpointTranscript(p) \/ TranscriptCheckpointed(p, stored) \/ FinalTranscript(p)
    PROVE  DoesWell(p)
  <1>1. work[p].job = "oneshot" /\ work[p].at # "idle" /\ OneShotFits(work[p], disk)
    BY NowFits DEF CheckpointTranscript, TranscriptCheckpointed, FinalTranscript, At, Fits
  <1>2. ASSUME NEW at \in {"checkpoint", "turn", "publish"}, Moves(p, at),
               DiskFits(disk'), disk'[KeyFile] = disk[KeyFile],
               disk'[Checkpoint] = disk[Checkpoint],
               at # "publish" => work[p].at \in {"turn", "checkpoint"},
               at = "publish" => work[p].at = "final" /\ disk'[Path("partial", "")].private
        PROVE  DoesWell(p)
    <2> DEFINE w == [work[p] EXCEPT !.at = at]
    <2>1. work' = [work EXCEPT ![p] = w]
      BY <1>2 DEF Moves, FilesInv
    <2>2. IsProcess(w) /\ w.job = "oneshot" /\ w.at = at /\ w.holds = work[p].holds
          /\ w.told = work[p].told /\ w.cancelled = work[p].cancelled
          /\ w.inTurn = work[p].inTurn
      BY <1>1, NowFits DEF IsProcess
    <2> HIDE DEF w
    <2>3. w.at # "idle"
      BY <1>2, <2>2
    <2>4. OneShotFits(w, disk')
      BY <1>1, <1>2, <2>2 DEF OneShotFits
    <2>. QED
      BY <1>1, <1>2, <2>1, <2>2, <2>3, <2>4, OneShotGoesOn
  <1>3. CASE CheckpointTranscript(p)
    <2>1. DiskFits(disk') /\ disk'[KeyFile] = disk[KeyFile] /\ disk'[Checkpoint] = disk[Checkpoint]
      BY <1>3, NamesOfFiles, BeginsBeside DEF CheckpointTranscript
    <2>2. Moves(p, "checkpoint") /\ work[p].at = "turn"
      BY <1>3 DEF CheckpointTranscript, At
    <2>. QED
      BY <1>2, <2>1, <2>2
  <1>4. CASE TranscriptCheckpointed(p, stored)
    <2>1. DiskFits(disk') /\ disk'[KeyFile] = disk[KeyFile] /\ disk'[Checkpoint] = disk[Checkpoint]
      <3>1. CASE stored
        <4>1. Publish(Transcript, p, "running")
          BY <1>4, <3>1 DEF TranscriptCheckpointed
        <4>. QED
          BY <4>1, NamesOfFiles, PublishesOne
      <3>2. CASE ~stored
        BY <1>4, <3>2, NowFits DEF TranscriptCheckpointed
      <3>. QED
        BY <3>1, <3>2
    <2>2. Moves(p, "turn") /\ work[p].at = "checkpoint"
      BY <1>4 DEF TranscriptCheckpointed, At
    <2>. QED
      BY <1>2, <2>1, <2>2
  <1>5. CASE FinalTranscript(p)
    <2>1. DiskFits(disk') /\ disk'[KeyFile] = disk[KeyFile] /\ disk'[Checkpoint] = disk[Checkpoint]
          /\ disk'[Path("partial", "")].private
      BY <1>5, NamesOfFiles, BeginsBeside DEF FinalTranscript
    <2>2. Moves(p, "publish") /\ work[p].at = "final"
      BY <1>5 DEF FinalTranscript, At
    <2>. QED
      BY <1>2, <2>1, <2>2
  <1>. QED
    BY <1>3, <1>4, <1>5

LEMMA OutcomesAreGood ==
    ASSUME FilesInv, NEW p \in Processes, NEW answer \in {"completed", "error"},
           TurnReturns(p, answer) \/ ClassifyTurn(p)
    PROVE  DoesWell(p)
  <1>1. work[p].job = "oneshot" /\ work[p].at # "idle" /\ OneShotFits(work[p], disk)
        /\ UNCHANGED disk
    BY NowFits DEF TurnReturns, ClassifyTurn, At, Fits
  <1>2. ASSUME NEW at \in {"classify", "final"}, NEW holds \in Endings,
               work' = [work EXCEPT ![p].at = at, ![p].holds = holds],
               ~work[p].cancelled => holds \in {"completed", "error"},
               work[p].inTurn => holds = "interrupted",
               at = "final" /\ work[p].cancelled => holds # "error"
        PROVE  DoesWell(p)
    <2> DEFINE w == [work[p] EXCEPT !.at = at, !.holds = holds]
    <2>1. work' = [work EXCEPT ![p] = w]
      BY <1>2 DEF FilesInv
    <2>2. IsProcess(w) /\ w.job = "oneshot" /\ w.at = at /\ w.holds = holds
          /\ w.told = work[p].told /\ w.cancelled = work[p].cancelled
          /\ w.inTurn = work[p].inTurn
      BY <1>1, NowFits DEF IsProcess
    <2> HIDE DEF w
    <2>3. w.at # "idle"
      BY <1>2, <2>2
    <2>4. OneShotFits(w, disk')
      BY <1>2, <2>2 DEF OneShotFits
    <2>. QED
      BY <1>1, <2>1, <2>2, <2>3, <2>4, NowFits, OneShotGoesOn
  <1>3. CASE TurnReturns(p, answer)
    <2>0. PICK holds : holds = IF work[p].cancelled THEN "interrupted" ELSE answer
      OBVIOUS
    <2>1. /\ holds \in Endings /\ (~work[p].cancelled => holds \in {"completed", "error"})
          /\ work[p].inTurn => holds = "interrupted"
      BY <1>1, <1>3, <2>0 DEF Endings, OneShotFits, TurnReturns, At
    <2>2. work' = [work EXCEPT ![p].at = "classify", ![p].holds = holds]
      BY <1>3, <2>0 DEF TurnReturns, FilesInv
    <2>. QED
      BY <1>2, <2>1, <2>2
  <1>4. CASE ClassifyTurn(p)
    <2>0. PICK holds : holds = IF work[p].holds = "error" /\ work[p].cancelled
                               THEN "interrupted error" ELSE work[p].holds
      OBVIOUS
    <2>1. /\ holds \in Endings /\ (~work[p].cancelled => holds \in {"completed", "error"})
          /\ work[p].inTurn => holds = "interrupted"
          /\ work[p].cancelled => holds # "error"
      BY <1>1, <1>4, <2>0 DEF Endings, OneShotFits, ClassifyTurn, At
    <2>2. work' = [work EXCEPT ![p].at = "final", ![p].holds = holds]
      BY <1>4, <2>0 DEF ClassifyTurn, FilesInv
    <2>. QED
      BY <1>2, <2>1, <2>2
  <1>. QED
    BY <1>3, <1>4

LEMMA OneShotEndsIsGood ==
    ASSUME FilesInv, NEW p \in Processes, NEW stored, OneShotEnds(p, stored)
    PROVE  DoesWell(p)
  <1>1. work[p].job = "oneshot" /\ work[p].at = "publish" /\ OneShotFits(work[p], disk)
    BY NowFits DEF OneShotEnds, At, Fits
  <1>2. CASE stored
    <2>0. PICK told : told = work[p].holds
      OBVIOUS
    <2>1. told \in Endings /\ (~work[p].cancelled => told \in {"completed", "error"})
          /\ (work[p].inTurn => told = "interrupted") /\ (work[p].cancelled => told # "error")
          /\ disk[Path("partial", "")].private
      BY <1>1, <2>0 DEF OneShotFits
    <2>2. Publish(Transcript, p, told) /\ Stops(p, told)
      BY <1>2, <2>0 DEF OneShotEnds
    <2>3. DiskFits(disk') /\ disk'[KeyFile] = disk[KeyFile] /\ disk'[Checkpoint] = disk[Checkpoint]
          /\ disk'[Transcript] = File(told, disk[Temporary(Transcript, p)].private)
      BY <2>1, <2>2, NamesOfFiles, PublishesOne
    <2>4. disk'[Transcript].bytes = told /\ disk'[Transcript].private
      <3>1. Temporary(Transcript, p) = Path("partial", "")
        BY NamesOfFiles, PathsDiffer
      <3>2. \A b, v : File(b, v).bytes = b /\ File(b, v).private = v
        BY DEF File
      <3>3. disk'[Transcript].bytes = told
        BY <2>3, <3>2
      <3>4. PICK private : private = disk[Path("partial", "")].private
        OBVIOUS
      <3>5. disk'[Transcript] = File(told, private)
        BY <2>3, <3>1, <3>4
      <3>6. disk'[Transcript].private = private
        BY <3>5 DEF File
      <3>. QED
        BY <2>1, <3>3, <3>4, <3>6
    <2>5. Stopped(p, told).told = told
      BY StoppedFits DEF Stopped
    <2>6. disk[Checkpoint].bytes # NoFile => IsPrefix(disk[Checkpoint].bytes, disk[Checkpoint].bytes)
      BY FirstOnesArePrefixes DEF FilesInv, DiskFits
    <2>7. Promised(p, Stopped(p, told), disk')
      BY <1>1, <2>1, <2>3, <2>4, <2>5, <2>6
      DEF Promised, KeyStep, FingerprintStep, OneShotStep, WindowStep, BeginsToFetch, At
    <2>. QED
      BY <1>1, <2>2, <2>3, <2>7, StopsWell
  <1>3. CASE ~stored
    <2>1. Stops(p, "transcript lost") /\ UNCHANGED disk
      BY <1>3 DEF OneShotEnds
    <2>. QED
      BY <1>1, <2>1, NowFits, StopsQuietly
  <1>. QED
    BY <1>2, <1>3

\* A comparison that goes on with the first models of the lineup.
LEMMA FingerprintGoesOn ==
    ASSUME FilesInv, NEW p \in Processes, NEW w, work' = [work EXCEPT ![p] = w],
           IsProcess(w), w.job = "fingerprint", work[p].job = "fingerprint",
           w.at \in {"store", "stored", "ask"}, FingerprintFits(w, disk'),
           w.told = work[p].told \/ w.told = "nothing", work[p].at # "idle" \/ Alone(p),
           DiskFits(disk'), disk'[KeyFile] = disk[KeyFile],
           FingerprintStep(p, w, disk')
    PROVE  DoesWell(p)
  <1>1. Fits(w, disk')
    BY DEF Fits, LoginFits, WindowFits, OneShotFits
  <1>2. KeyStep(p, w, disk') /\ OneShotStep(p, w, disk') /\ WindowStep(p, w)
    BY DEF KeyStep, OneShotStep, WindowStep, BeginsToFetch, At
  <1>. QED
    BY <1>1, <1>2 DEF DoesWell, GoodStep, Promised

\* A checkpoint that is not touched is kept.
LEMMA UntouchedIsKept ==
    ASSUME FilesInv, NEW p \in Processes, NEW w, disk'[Checkpoint] = disk[Checkpoint],
           w.told = work[p].told \/ w.told = "nothing"
    PROVE  FingerprintStep(p, w, disk')
  <1>1. disk[Checkpoint].bytes # NoFile => IsPrefix(disk[Checkpoint].bytes, disk[Checkpoint].bytes)
    BY FirstOnesArePrefixes DEF FilesInv, DiskFits
  <1>. QED
    BY <1>1 DEF FingerprintStep

\* What can be resumed is the beginning of the lineup.
LEMMA ResumableIsFirst ==
    ASSUME NEW bytes \in FirstOnes \union {NoFile}, Resumable(bytes)
    PROVE  bytes \in FirstOnes /\ IsPrefix(bytes, bytes) /\ bytes # NoFile
  BY FirstOnesArePrefixes DEF Resumable

LEMMA StartFingerprintIsGood ==
    ASSUME FilesInv, NEW p \in Processes, NEW resume \in BOOLEAN, StartFingerprint(p, resume)
    PROVE  DoesWell(p)
  <1>0. PICK found : found = disk[Checkpoint].bytes
    OBVIOUS
  <1>1. work[p].job = "fingerprint" /\ work[p].at = "idle" /\ Alone(p) /\ UNCHANGED disk
    BY DEF StartFingerprint, At
  <1>2. CASE resume /\ ~Resumable(found)
    <2>1. Stops(p, "failed")
      BY <1>0, <1>2 DEF StartFingerprint
    <2>. QED
      BY <1>1, <2>1, NowFits, StopsQuietly
  <1>3. CASE ~(resume /\ ~Resumable(found))
    <2>0. PICK how, holds : how = (IF resume THEN "resume" ELSE "")
                            /\ holds = (IF resume THEN found ELSE <<>>)
      OBVIOUS
    <2> DEFINE w == [Working("fingerprint") EXCEPT !.at = "store", !.how = how, !.holds = holds]
    <2>1. work' = [work EXCEPT ![p] = w]
      BY <1>0, <1>3, <2>0 DEF StartFingerprint
    <2>a. w.job = "fingerprint" /\ w.at = "store" /\ w.how = how /\ w.holds = holds
          /\ w.told = "nothing" /\ w.attempt = 0 /\ w.probe = 0
      BY DEF Working
    <2>b. w \in [job : {w.job}, at : {w.at}, how : {w.how}, holds : {w.holds},
                cancelled : {w.cancelled}, inTurn : {w.inTurn}, attempt : {w.attempt},
                probe : {w.probe}, told : {w.told}]
      BY DEF Working
    <2> HIDE DEF w
    <2>c. IsProcess(w)
      BY <2>a, <2>b, FreshIsProcess
    <2>2. IsProcess(w) /\ w.job = "fingerprint" /\ w.at = "store" /\ w.how = how
          /\ w.holds = holds /\ w.told = "nothing"
      BY <2>a, <2>c
    <2>3. <<>> \in FirstOnes
      <3>1. Lineup \in Seq(ToSet(Lineup))
        BY LineupAssumption
      <3>2. SubSeq(Lineup, 1, 0) = <<>> /\ 0 \in 0..Len(Lineup)
        BY <3>1
      <3>. QED
        BY <3>2 DEF FirstOnes
    <2>4. found \in FirstOnes \union {NoFile}
      BY <1>0 DEF FilesInv, DiskFits
    <2>5. holds \in FirstOnes /\ (how = "resume" => found # NoFile /\ IsPrefix(found, holds))
      BY <1>3, <2>0, <2>3, <2>4, ResumableIsFirst
    <2>6. FingerprintFits(w, disk')
      BY <1>0, <1>1, <2>2, <2>5 DEF FingerprintFits
    <2>7. FingerprintStep(p, w, disk')
      BY <1>1, <2>2, UntouchedIsKept
    <2>. QED
      BY <1>1, <2>1, <2>2, <2>6, <2>7, NowFits, FingerprintGoesOn
  <1>. QED
    BY <1>2, <1>3

LEMMA StoreCheckpointIsGood ==
    ASSUME FilesInv, NEW p \in Processes, StoreCheckpoint(p) PROVE DoesWell(p)
  <1>1. work[p].job = "fingerprint" /\ work[p].at = "store" /\ FingerprintFits(work[p], disk)
    BY NowFits DEF StoreCheckpoint, At, Fits
  <1> DEFINE w == [work[p] EXCEPT !.at = "stored"]
  <1>2. work' = [work EXCEPT ![p] = w]
    BY DEF StoreCheckpoint, Moves, FilesInv
  <1>3. IsProcess(w) /\ w.job = "fingerprint" /\ w.at = "stored" /\ w.holds = work[p].holds
        /\ w.told = work[p].told /\ w.how = work[p].how
    BY <1>1, NowFits DEF IsProcess
  <1> HIDE DEF w
  <1>4. DiskFits(disk') /\ disk'[KeyFile] = disk[KeyFile] /\ disk'[Checkpoint] = disk[Checkpoint]
    BY NamesOfFiles, BeginsBeside DEF StoreCheckpoint
  <1>5. FingerprintFits(w, disk')
    BY <1>1, <1>3, <1>4 DEF FingerprintFits
  <1>6. FingerprintStep(p, w, disk')
    BY <1>3, <1>4, UntouchedIsKept
  <1>. QED
    BY <1>1, <1>2, <1>3, <1>4, <1>5, <1>6, FingerprintGoesOn

LEMMA CheckpointStoredIsGood ==
    ASSUME FilesInv, NEW p \in Processes, NEW stored, CheckpointStored(p, stored)
    PROVE  DoesWell(p)
  <1>1. work[p].job = "fingerprint" /\ work[p].at = "stored" /\ FingerprintFits(work[p], disk)
    BY NowFits DEF CheckpointStored, At, Fits
  <1>2. CASE ~stored
    <2>1. Stops(p, "failed") /\ disk' = [disk EXCEPT ![Temporary(Checkpoint, p)] = Absent]
      BY <1>2 DEF CheckpointStored
    <2>2. DiskFits(disk') /\ disk'[KeyFile] = disk[KeyFile] /\ disk'[Checkpoint] = disk[Checkpoint]
      BY <2>1, NamesOfFiles, DiscardsOne
    <2>. QED
      BY <1>1, <2>1, <2>2, StopsQuietly
  <1>3. CASE stored
    <2>0. PICK holds : holds = work[p].holds
      OBVIOUS
    <2>1. /\ holds \in FirstOnes
          /\ work[p].how = "resume" =>
                disk[Checkpoint].bytes # NoFile /\ IsPrefix(disk[Checkpoint].bytes, holds)
      BY <1>1, <2>0 DEF FingerprintFits
    <2>2. Publish(Checkpoint, p, holds)
      BY <1>3, <2>0 DEF CheckpointStored
    <2>3. /\ DiskFits(disk') /\ disk'[KeyFile] = disk[KeyFile]
          /\ disk'[Checkpoint] = File(holds, disk[Temporary(Checkpoint, p)].private)
      BY <2>1, <2>2, NamesOfFiles, PublishesOne
    <2>4. disk'[Checkpoint].bytes = holds
      BY <2>3 DEF File
    <2>5. holds # NoFile /\ IsPrefix(holds, holds) /\ (Len(holds) = Len(Lineup) <=> holds = Lineup)
      <3>1. holds # NoFile
        BY <2>1, FilesAssumption DEF FirstOnes
      <3>. QED
        BY <2>1, <3>1, FirstOnesArePrefixes
    <2>6. ASSUME NEW w, w.told = "report" => holds = Lineup PROVE FingerprintStep(p, w, disk')
      BY <1>1, <2>1, <2>4, <2>5, <2>6 DEF FingerprintStep
    <2>7. CASE Len(holds) = Len(Lineup)
      <3>1. Stops(p, "report")
        BY <1>3, <2>0, <2>7 DEF CheckpointStored
      <3>2. Stopped(p, "report").told = "report"
        BY StoppedFits DEF Stopped
      <3>3. FingerprintStep(p, Stopped(p, "report"), disk')
        BY <2>5, <2>6, <2>7
      <3>4. Promised(p, Stopped(p, "report"), disk')
        BY <1>1, <2>3, <3>2, <3>3 DEF Promised, KeyStep, OneShotStep, WindowStep, BeginsToFetch, At
      <3>. QED
        BY <1>1, <2>3, <3>1, <3>4, StopsWell
    <2>8. CASE Len(holds) # Len(Lineup)
      <3> DEFINE w == [work[p] EXCEPT !.at = "ask", !.attempt = 0, !.probe = 0]
      <3>1. work' = [work EXCEPT ![p] = w]
        BY <1>3, <2>0, <2>8 DEF CheckpointStored, FilesInv
      <3>2. IsProcess(w) /\ w.job = "fingerprint" /\ w.at = "ask" /\ w.holds = holds
            /\ w.told = work[p].told /\ w.how = work[p].how
        <4>1. 0 \in 0..(MaxRequestAttempts - 1) /\ 0 \in Nat
          BY DEF MaxRequestAttempts
        <4>. QED
          BY <1>1, <2>0, <4>1, NowFits DEF IsProcess
      <3> HIDE DEF w
      <3>3. FingerprintFits(w, disk')
        BY <2>1, <2>4, <2>5, <2>8, <3>2 DEF FingerprintFits
      <3>4. FingerprintStep(p, w, disk')
        BY <1>1, <2>1, <2>4, <2>5, <3>2 DEF FingerprintStep
      <3>. QED
        BY <1>1, <2>3, <3>1, <3>2, <3>3, <3>4, FingerprintGoesOn
    <2>. QED
      BY <2>7, <2>8
  <1>. QED
    BY <1>2, <1>3

\* One more model of a lineup.
LEMMA OneMoreIsFirst ==
    ASSUME NEW s \in FirstOnes, s # Lineup
    PROVE  Append(s, Lineup[Len(s) + 1]) \in FirstOnes /\ IsPrefix(s, Append(s, Lineup[Len(s) + 1]))
  <1>1. Lineup \in Seq(ToSet(Lineup))
    BY LineupAssumption
  <1>2. s \in Seq(ToSet(Lineup)) /\ Len(s) < Len(Lineup) /\ s = SubSeq(Lineup, 1, Len(s))
    BY <1>1, FirstOnesArePrefixes
  <1> DEFINE n == Len(s)
  <1>3. n \in Nat /\ n + 1 \in 1..Len(Lineup) /\ Lineup[n + 1] \in ToSet(Lineup)
    BY <1>1, <1>2 DEF ToSet
  <1> DEFINE t == Append(s, Lineup[n + 1])
  <1>4. t \in Seq(ToSet(Lineup)) /\ Len(t) = n + 1 /\ (\A i \in 1..n : t[i] = s[i])
        /\ t[n + 1] = Lineup[n + 1]
    BY <1>2, <1>3
  <1>5. \A i \in 1..n : s[i] = Lineup[i]
    BY <1>1, <1>2, <1>3
  <1>6. SubSeq(Lineup, 1, n + 1) \in Seq(ToSet(Lineup)) /\ Len(SubSeq(Lineup, 1, n + 1)) = n + 1
        /\ \A i \in 1..(n + 1) : SubSeq(Lineup, 1, n + 1)[i] = Lineup[i]
    BY <1>1, <1>3
  <1>7. t = SubSeq(Lineup, 1, n + 1)
    BY <1>3, <1>4, <1>5, <1>6
  <1>8. SubSeq(t, 1, n) = s /\ SubSeq(s, 1, n) = s
    BY <1>2, <1>3, <1>4
  <1> HIDE DEF t
  <1>9. t \in FirstOnes
    BY <1>3, <1>7 DEF FirstOnes
  <1>10. IsPrefix(s, t)
    BY <1>3, <1>4, <1>8 DEF IsPrefix
  <1>. QED
    BY <1>9, <1>10 DEF t

LEMMA CountAnsweredIsGood ==
    ASSUME FilesInv, NEW p \in Processes, NEW status, CountAnswered(p, status)
    PROVE  DoesWell(p)
  <1> DEFINE v == work[p]
  <1>1. v.job = "fingerprint" /\ v.at = "ask" /\ FingerprintFits(v, disk) /\ UNCHANGED disk
        /\ IsProcess(v) /\ v.attempt \in 0..(MaxRequestAttempts - 1)
    BY NowFits DEF CountAnswered, At, Fits, IsProcess
  <1>2. ASSUME NEW w, work' = [work EXCEPT ![p] = w], IsProcess(w), w.job = "fingerprint",
               w.at \in {"store", "ask"}, w.told = v.told, w.how = v.how,
               \/ w.holds = v.holds /\ w.at = "ask"
               \/ w.holds = Append(v.holds, Lineup[Len(v.holds) + 1]) /\ w.at = "store"
        PROVE  DoesWell(p)
    <2>1. FingerprintStep(p, w, disk')
      BY <1>1, <1>2, UntouchedIsKept
    <2>2. v.holds \in FirstOnes /\ v.holds # Lineup
          /\ (v.how = "resume" => disk[Checkpoint].bytes # NoFile
                                  /\ IsPrefix(disk[Checkpoint].bytes, v.holds))
      BY <1>1 DEF FingerprintFits
    <2>3. w.holds \in FirstOnes /\ (w.at = "ask" => w.holds # Lineup)
          /\ (w.how = "resume" => disk[Checkpoint].bytes # NoFile
                                  /\ IsPrefix(disk[Checkpoint].bytes, w.holds))
      <3>1. CASE w.holds = v.holds /\ w.at = "ask"
        BY <1>2, <2>2, <3>1
      <3>2. CASE w.holds = Append(v.holds, Lineup[Len(v.holds) + 1]) /\ w.at = "store"
        <4>1. w.holds \in FirstOnes /\ IsPrefix(v.holds, w.holds)
          BY <2>2, <3>2, OneMoreIsFirst
        <4>2. ASSUME v.how = "resume" PROVE IsPrefix(disk[Checkpoint].bytes, w.holds)
          <5> DEFINE b == disk[Checkpoint].bytes
          <5>1. b \in FirstOnes /\ IsPrefix(b, v.holds)
            BY <2>2, <4>2 DEF FilesInv, DiskFits
          <5>2. b \in Seq(ToSet(Lineup)) /\ v.holds \in Seq(ToSet(Lineup))
                /\ w.holds \in Seq(ToSet(Lineup))
            BY <2>2, <4>1, <5>1, FirstOnesArePrefixes
          <5> HIDE DEF b
          <5>3. IsPrefix(b, w.holds)
            BY <4>1, <5>1, <5>2 DEF IsPrefix
          <5>. QED
            BY <5>3 DEF b
        <4>. QED
          BY <1>2, <2>2, <3>2, <4>1, <4>2
      <3>. QED
        BY <1>2, <3>1, <3>2
    <2>4. FingerprintFits(w, disk')
      BY <1>1, <2>3 DEF FingerprintFits
    <2>. QED
      BY <1>1, <1>2, <2>1, <2>4, NowFits, FingerprintGoesOn
  <1>3. CASE status = "ok" /\ v.probe < Probes
    <2>0. PICK n \in Nat : n = v.probe + 1
      BY <1>1 DEF IsProcess
    <2> DEFINE w == [v EXCEPT !.probe = n, !.attempt = 0]
    <2>1. work' = [work EXCEPT ![p] = w]
      <3>1. v.probe # Probes
        <4>1. v.probe \in Nat
          BY <1>1 DEF IsProcess
        <4>2. Probes \in Nat
          BY FilesAssumption
        <4>. QED
          BY <1>3, <4>1, <4>2
      <3>2. work' = [work EXCEPT ![p].probe = n, ![p].attempt = 0]
        BY <1>3, <2>0, <3>1 DEF CountAnswered
      <3>. QED
        BY <3>2 DEF FilesInv
    <2>2. 0 \in 0..(MaxRequestAttempts - 1)
      BY DEF MaxRequestAttempts
    <2>3. IsProcess(w) /\ w.job = "fingerprint" /\ w.at = "ask" /\ w.told = v.told
          /\ w.how = v.how /\ w.holds = v.holds
      BY <1>1, <2>2 DEF IsProcess
    <2> HIDE DEF w
    <2>. QED
      BY <1>2, <2>1, <2>3
  <1>4. CASE status = "ok" /\ v.probe = Probes /\ ~(v.probe < Probes)
    <2> DEFINE w == [v EXCEPT !.at = "store", !.holds = Append(@, Lineup[Len(@) + 1])]
    <2>1. work' = [work EXCEPT ![p] = w]
      BY <1>4 DEF CountAnswered, FilesInv
    <2>2. IsProcess(w) /\ w.job = "fingerprint" /\ w.at = "store" /\ w.told = v.told
          /\ w.how = v.how /\ w.holds = Append(v.holds, Lineup[Len(v.holds) + 1])
      BY <1>1 DEF IsProcess
    <2> HIDE DEF w
    <2>. QED
      BY <1>2, <2>1, <2>2
  <1>5. CASE status # "ok" /\ Retries(status, v.attempt)
    <2> DEFINE w == [v EXCEPT !.attempt = @ + 1]
    <2>1. work' = [work EXCEPT ![p] = w]
      BY <1>5 DEF CountAnswered, FilesInv
    <2>2. v.attempt + 1 \in 0..(MaxRequestAttempts - 1)
      BY <1>1, <1>5 DEF Retries, MaxRequestAttempts
    <2>3. IsProcess(w) /\ w.job = "fingerprint" /\ w.at = "ask" /\ w.told = v.told
          /\ w.how = v.how /\ w.holds = v.holds
      BY <1>1, <2>2 DEF IsProcess
    <2> HIDE DEF w
    <2>. QED
      BY <1>2, <2>1, <2>3
  <1>6. CASE /\ ~(status = "ok" /\ v.probe < Probes) /\ ~(status = "ok" /\ v.probe = Probes)
             /\ ~(status # "ok" /\ Retries(status, v.attempt))
    <2>1. Stops(p, "failed")
      BY <1>6 DEF CountAnswered
    <2>. QED
      BY <1>1, <2>1, NowFits, StopsQuietly
  <1>. QED
    BY <1>3, <1>4, <1>5, <1>6

LEMMA KilledIsGood ==
    ASSUME FilesInv, NEW p \in Processes, Killed(p) PROVE DoesWell(p)
  <1>1. work[p].at # "idle" /\ Stops(p, "nothing") /\ UNCHANGED disk
    BY DEF Killed
  <1>. QED
    BY <1>1, NowFits, StopsQuietly

-----------------------------------------------------------------------------
(* The theorem.                                                            *)

LEMMA FilesStart == FilesInit => FilesInv /\ announced \in Windows
  <1>1. SUFFICES ASSUME FilesInit PROVE FilesInv /\ announced \in Windows
    OBVIOUS
  <1>2. PICK job \in Jobs : work = [p \in Processes |-> Working(job)]
    BY <1>1 DEF FilesInit
  <1>3. /\ disk = [path \in Paths |-> Absent] /\ announced \in Windows
        /\ \A path \in Published \union {KeyFile} : path \in Paths
    BY <1>1 DEF FilesInit, Paths
  <1>4. DiskFits(disk)
    <2>1. Absent = File(Absent.bytes, Absent.private) /\ Absent.bytes = NoFile
      BY DEF Absent, File
    <2>2. disk = [path \in Paths |-> File(disk[path].bytes, disk[path].private)]
      BY <1>3, <2>1
    <2>3. disk[Cache].bytes = NoFile /\ disk[Transcript].bytes = NoFile
          /\ disk[Checkpoint].bytes = NoFile
      BY <1>3, <2>1, NamesOfFiles
    <2>. QED
      BY <2>2, <2>3 DEF DiskFits
  <1>5. ASSUME NEW p \in Processes PROVE Fits(work[p], disk) /\ work[p].job = job /\ work[p].at = "idle"
    <2>1. work[p].job = job /\ work[p].at = "idle" /\ work[p].attempt = 0 /\ work[p].probe = 0
      BY <1>2 DEF Working
    <2>2. IsProcess(work[p])
      <3>1. work[p] \in [job : {work[p].job}, at : {work[p].at}, how : {work[p].how},
                         holds : {work[p].holds}, cancelled : {work[p].cancelled},
                         inTurn : {work[p].inTurn}, attempt : {work[p].attempt},
                         probe : {work[p].probe}, told : {work[p].told}]
        BY <1>2 DEF Working
      <3>. QED
        BY <2>1, <3>1, FreshIsProcess
    <2>. QED
      BY <2>1, <2>2 DEF Fits, LoginFits, WindowFits, OneShotFits, FingerprintFits
  <1>6. OneAtATime /\ DOMAIN work = Processes
    BY <1>2, <1>5 DEF OneAtATime
  <1>. QED
    BY <1>3, <1>4, <1>5, <1>6 DEF FilesInv

\* A step that no process takes keeps the promises, if it leaves the keys and the
\* checkpoint.
LEMMA UnchangedPromises ==
    ASSUME FilesInv, FilesInv', UNCHANGED work, disk'[KeyFile].bytes = disk[KeyFile].bytes,
           disk'[Checkpoint] = disk[Checkpoint]
    PROVE  Promises
  <1>1. PublishedIsWhole'
    BY FittingIsWhole DEF FilesInv, DiskFits, PublishedIsWhole
  <1>2. AttemptsAreBounded'
    BY DEF FilesInv, Fits, IsProcess, AttemptsAreBounded, MaxRequestAttempts
  <1>3. KeysStayPrivate
    BY DEF KeysStayPrivate
  <1>4. disk[Checkpoint].bytes # NoFile => IsPrefix(disk[Checkpoint].bytes, disk[Checkpoint].bytes)
    BY FirstOnesArePrefixes DEF FilesInv, DiskFits
  <1>5. ResumedIsKept
    BY <1>4 DEF ResumedIsKept
  <1>6. OutcomeIsTold /\ WindowIsKnown
    BY DEF OutcomeIsTold, WindowIsKnown
  <1>. QED
    BY <1>1, <1>2, <1>3, <1>5, <1>6 DEF Promises

\* Others may read a key, or an entry grows old: no process changes, and what is
\* read is of the same kind as before.
LEMMA OthersMayReadKeeps ==
    ASSUME FilesInv, OthersMayRead
    PROVE  FilesInv' /\ Promises
  <1> DEFINE key == disk[KeyFile]
  <1>1. KeyFile \in Paths
    BY DEF Paths
  <1>2. key = File(key.bytes, key.private) /\ DOMAIN disk = Paths
    BY <1>1 DEF FilesInv, DiskFits
  <1>3. ASSUME NEW private PROVE [key EXCEPT !.private = private] = File(key.bytes, private)
    BY <1>2 DEF File
  <1>4. disk' = [disk EXCEPT ![KeyFile] = File(key.bytes, FALSE)] /\ UNCHANGED work
        /\ key.bytes \notin {NoFile, Torn}
    BY <1>1, <1>2, <1>3 DEF OthersMayRead
  <1>5. DiskFits(disk') /\ disk'[KeyFile].bytes = key.bytes /\ disk'[Checkpoint] = disk[Checkpoint]
    BY <1>4, KeyFileChanges
  <1>6. OneAtATime' /\ DOMAIN work' = Processes
    BY <1>4 DEF FilesInv, OneAtATime
  <1>7. ASSUME NEW p \in Processes PROVE Fits(work[p], disk')
    <2>1. Fits(work[p], disk)
      BY DEF FilesInv
    <2>2. \A path : Path("partial", "") # KeyFile
      BY DEF Path, KeyFile
    <2>3. disk'[Path("partial", "")] = disk[Path("partial", "")]
      <3>1. Path("partial", "") \in Paths \/ Processes = {}
        BY PathsDiffer, NamesOfFiles
      <3>. QED
        BY <1>2, <1>4, <2>2, <3>1
    <2>. QED
      BY <1>4, <1>5, <2>1, <2>3 DEF Fits, LoginFits, WindowFits, OneShotFits, FingerprintFits
  <1>8. FilesInv'
    <2>1. (\A p \in Processes : Fits(work[p], disk))'
      BY <1>4, <1>7 DEF Fits, IsProcess, LoginFits, WindowFits, OneShotFits, FingerprintFits
    <2>2. DiskFits(disk)'
      BY <1>5 DEF DiskFits
    <2>. QED
      BY <1>6, <2>1, <2>2 DEF FilesInv
  <1>. QED
    BY <1>4, <1>5, <1>8, UnchangedPromises

LEMMA CacheAgesKeeps ==
    ASSUME FilesInv, CacheAges
    PROVE  FilesInv' /\ Promises
  <1> DEFINE cache == disk[Cache]
             entry == [cache.bytes EXCEPT !.fresh = FALSE]
             new == File(entry, cache.private)
  <1>1. Cache \in Paths /\ KeyFile \in Paths /\ Cache # KeyFile /\ Cache # Path("partial", "")
        /\ Transcript \in Paths /\ Checkpoint \in Paths
    <2>1. \A n, o, m, q : Path(n, o) = Path(m, q) => n = m /\ o = q
      BY DEF Path
    <2>2. Cache # KeyFile /\ Cache # Path("partial", "")
      BY <2>1 DEF Cache, KeyFile
    <2>3. Published \union {KeyFile} \subseteq Paths
      BY DEF Paths
    <2>. QED
      BY <2>2, <2>3, NamesOfFiles
  <1>2. cache = File(cache.bytes, cache.private) /\ DOMAIN disk = Paths
        /\ disk = [path \in Paths |-> File(disk[path].bytes, disk[path].private)]
    BY <1>1 DEF FilesInv, DiskFits
  <1>3. cache.bytes \in Entries
    BY DEF FilesInv, DiskFits, CacheAges, CachedAfresh, Cached
  <1>4. entry \in Entries
    BY <1>3 DEF Entries
  <1>5. [cache EXCEPT !.bytes.fresh = FALSE] = new
    <2>1. [cache EXCEPT !.bytes.fresh = FALSE] = [cache EXCEPT !.bytes = entry]
      BY <1>2 DEF File
    <2>2. ASSUME NEW b PROVE [cache EXCEPT !.bytes = b] = File(b, cache.private)
      BY <1>2 DEF File
    <2>. QED
      BY <2>1, <2>2
  <1>6. disk' = [disk EXCEPT ![Cache] = new] /\ UNCHANGED work
    BY <1>1, <1>2, <1>5 DEF CacheAges
  <1>7. new = File(new.bytes, new.private) /\ new.bytes = entry
    BY DEF File
  <1> HIDE DEF new, entry
  <1>8. disk' = [path \in Paths |-> File(disk'[path].bytes, disk'[path].private)]
    BY <1>1, <1>2, <1>6, <1>7
  <1>9. disk'[Cache] = new /\ \A path \in Paths \ {Cache} : disk'[path] = disk[path]
    BY <1>1, <1>2, <1>6
  <1>10. disk'[KeyFile] = disk[KeyFile] /\ disk'[Transcript] = disk[Transcript]
         /\ disk'[Checkpoint] = disk[Checkpoint]
    BY <1>1, <1>9, NamesOfFiles
  <1>11. DiskFits(disk')
    BY <1>4, <1>7, <1>8, <1>9, <1>10 DEF DiskFits, FilesInv
  <1>12. OneAtATime' /\ DOMAIN work' = Processes
    BY <1>6 DEF FilesInv, OneAtATime
  <1>13. ASSUME NEW p \in Processes PROVE Fits(work[p], disk')
    <2>1. Fits(work[p], disk)
      BY DEF FilesInv
    <2>2. Path("partial", "") \in Paths
      BY PathsDiffer, NamesOfFiles
    <2>3. disk'[Path("partial", "")] = disk[Path("partial", "")]
      BY <1>1, <1>9, <2>2
    <2>. QED
      BY <1>10, <2>1, <2>3 DEF Fits, LoginFits, WindowFits, OneShotFits, FingerprintFits
  <1>14. FilesInv'
    <2>1. (\A p \in Processes : Fits(work[p], disk))'
      BY <1>6, <1>13 DEF Fits, IsProcess, LoginFits, WindowFits, OneShotFits, FingerprintFits
    <2>2. DiskFits(disk)'
      BY <1>11 DEF DiskFits
    <2>. QED
      BY <1>12, <2>1, <2>2 DEF FilesInv
  <1>. QED
    BY <1>6, <1>10, <1>14, UnchangedPromises

\* Every step keeps the invariant and the promises.
LEMMA FilesSteps ==
    ASSUME FilesInv, announced \in Windows, [FilesNext]_fileVars
    PROVE  FilesInv' /\ (announced \in Windows)' /\ Promises
  <1>1. ASSUME UNCHANGED <<disk, work>> PROVE FilesInv' /\ Promises
    <2>1. FilesInv'
      <3>1. DiskFits(disk)' /\ OneAtATime' /\ DOMAIN work' = Processes
        BY <1>1 DEF FilesInv, DiskFits, OneAtATime
      <3>2. ASSUME NEW p \in Processes PROVE Fits(work[p], disk)'
        <4>1. Fits(work[p], disk)
          BY DEF FilesInv
        <4>. QED
          BY <1>1, <4>1 DEF Fits, IsProcess, LoginFits, WindowFits, OneShotFits, FingerprintFits
      <3>. QED
        BY <3>1, <3>2 DEF FilesInv
    <2>. QED
      BY <1>1, <2>1, UnchangedPromises
  <1>2. ASSUME NEW p \in Processes, DoesWell(p) PROVE FilesInv' /\ Promises
    BY <1>2, GoodStepsKeep, GoodStepsPromise DEF DoesWell
  <1>3. CASE UNCHANGED fileVars
    BY <1>1, <1>3 DEF fileVars
  <1>4. CASE OthersMayRead
    BY <1>4, OthersMayReadKeeps DEF OthersMayRead
  <1>5. CASE CacheAges
    BY <1>5, CacheAgesKeeps DEF CacheAges
  <1>6. CASE \E w \in Windows : Announce(w)
    BY <1>1, <1>6 DEF Announce
  <1>7. ASSUME NEW p \in Processes,
               \/ \E how \in {"callback", "paste", "key"} : StartLogin(p, how)
               \/ \E r \in Requests : Callback(p, r)
               \/ CallbackTimesOut(p)
               \/ \E text \in {"", "mine", "forged"} : Typed(p, text)
               \/ \E answer \in {"key", "empty", "refused"} : Exchange(p, answer)
               \/ OpenKey(p) \/ SecureKey(p) \/ WriteKey(p) \/ ReadKey(p) \/ Logout(p)
        PROVE  DoesWell(p) /\ UNCHANGED announced
    <2>1. DoesWell(p)
      BY <1>7, StartLoginIsGood, AnswersAreGood, WritingIsGood, ReadKeyIsGood, LogoutIsGood
    <2>2. UNCHANGED announced
      BY <1>7 DEF StartLogin, Callback, CallbackTimesOut, Typed, Exchange, OpenKey, SecureKey,
           WriteKey, ReadKey, Logout
    <2>. QED
      BY <2>1, <2>2
  <1>8. ASSUME NEW p \in Processes,
               \/ ResolveWindow(p) \/ CacheWindow(p)
               \/ \E fine \in BOOLEAN : FetchWindow(p, fine) \/ WindowCached(p, fine)
        PROVE  DoesWell(p) /\ UNCHANGED announced
    <2>1. DoesWell(p)
      BY <1>8, ResolveWindowIsGood, FetchWindowIsGood, CachingIsGood
    <2>2. UNCHANGED announced
      BY <1>8 DEF ResolveWindow, CacheWindow, FetchWindow, WindowCached
    <2>. QED
      BY <2>1, <2>2
  <1>9. ASSUME NEW p \in Processes,
               \/ StartOneShot(p) \/ Signal(p) \/ CheckpointTranscript(p) \/ ClassifyTurn(p)
               \/ FinalTranscript(p)
               \/ \E fine \in BOOLEAN : TranscriptCheckpointed(p, fine) \/ OneShotEnds(p, fine)
               \/ \E answer \in {"completed", "error"} : TurnReturns(p, answer)
        PROVE  DoesWell(p) /\ UNCHANGED announced
    <2>1. DoesWell(p)
      BY <1>9, StartOneShotIsGood, SignalIsGood, TranscriptsAreGood, OutcomesAreGood,
         OneShotEndsIsGood
    <2>2. UNCHANGED announced
      BY <1>9 DEF StartOneShot, Signal, CheckpointTranscript, ClassifyTurn, FinalTranscript,
           TranscriptCheckpointed, OneShotEnds, TurnReturns
    <2>. QED
      BY <2>1, <2>2
  <1>10. ASSUME NEW p \in Processes,
               \/ StoreCheckpoint(p) \/ Killed(p)
               \/ \E fine \in BOOLEAN : StartFingerprint(p, fine) \/ CheckpointStored(p, fine)
               \/ \E status \in {"ok", "busy", "bad"} : CountAnswered(p, status)
         PROVE  DoesWell(p) /\ UNCHANGED announced
    <2>1. DoesWell(p)
      BY <1>10, StoreCheckpointIsGood, KilledIsGood, StartFingerprintIsGood,
         CheckpointStoredIsGood, CountAnsweredIsGood
    <2>2. UNCHANGED announced
      BY <1>10 DEF StoreCheckpoint, Killed, StartFingerprint, CheckpointStored, CountAnswered
    <2>. QED
      BY <2>1, <2>2
  <1>11. FilesInv' /\ Promises
    BY <1>2, <1>3, <1>4, <1>5, <1>6, <1>7, <1>8, <1>9, <1>10 DEF FilesNext
  <1>12. (announced \in Windows)'
    BY <1>3, <1>4, <1>5, <1>6, <1>7, <1>8, <1>9, <1>10
    DEF FilesNext, fileVars, OthersMayRead, CacheAges, Announce
  <1>. QED
    BY <1>11, <1>12

\* Whenever a process is killed, what is read as a window, a transcript or a checkpoint is
\* whole; no key gets into a file that others may read, and none is taken from one; a
\* comparison that is resumed loses no model and one that reports has them all; a run says
\* in its transcript and its exit code how it ended, and that it was interrupted if that
\* was while its turn ran; no request is repeated too often; and a window is asked for
\* only when none that is fresh is known (write_credential and read_credential of auth.rs,
\* model_catalog.rs, publish_transcript of output.rs, tokenizer_fingerprint.rs).  That a
\* key outlives a login that is killed it does not say: one is written in place.
THEOREM FilesOutlive == FilesSpec => FilesOutliveTheirProcess
  <1>1. FilesInit => FilesInv /\ announced \in Windows
    BY FilesStart
  <1>2. FilesInv /\ announced \in Windows /\ [FilesNext]_fileVars
            => FilesInv' /\ (announced \in Windows)' /\ [Promises]_fileVars
    BY FilesSteps
  <1>3. [Promises]_fileVars
          => [/\ PublishedIsWhole' /\ AttemptsAreBounded'
              /\ KeysStayPrivate /\ ResumedIsKept /\ OutcomeIsTold /\ WindowIsKnown]_fileVars
    BY DEF Promises
  <1>. QED
    BY <1>1, <1>2, <1>3, PTL DEF FilesSpec, FilesOutliveTheirProcess

=============================================================================
