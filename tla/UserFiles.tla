----------------------------- MODULE UserFiles -----------------------------
(***************************************************************************)
(* The small files claux keeps and how each is written: a provider's key   *)
(* in place (auth.rs), a model's window under the name of the process      *)
(* (model_catalog.rs), a one-shot run's transcript (output.rs, main.rs)    *)
(* and the checkpoint of a tokenizer comparison (tokenizer_fingerprint.rs) *)
(* beside the file that it replaces.  A process may be killed at every     *)
(* step, and what it left is what the next one finds: of a key that was    *)
(* being replaced, nothing.                                                *)
(***************************************************************************)
EXTENDS Naturals, Sequences, FiniteSets, FiniteSetsExt, SequencesExt

CONSTANTS
    NoFile,         \* what a path that is not there holds
    Torn,           \* what a file that is being written holds
    Processes,
    Lineup,         \* the models that a tokenizer comparison is of
    Probes,         \* prompts per model
    Windows,        \* context windows a provider may announce
    BuiltinWindow   \* what a model is believed to have otherwise

ASSUME LineupAssumption == Lineup \in Seq(ToSet(Lineup)) /\ IsInjective(Lineup)

\* No process is nameless; what claux writes is neither nothing nor torn; a window
\* that claux knows by itself is told apart from those that a provider announces.
ASSUME FilesAssumption ==
    /\ "" \notin Processes /\ NoFile # Torn /\ BuiltinWindow \notin Windows /\ Probes \in Nat
    /\ \A none \in {NoFile, Torn} :
          /\ none \notin {"mine", "forged", "running", "completed", "error", "interrupted",
                          "interrupted error"}
          /\ none \notin [window : Windows, fresh : BOOLEAN]
          /\ \A n \in 0..Len(Lineup) : none # SubSeq(Lineup, 1, n)

VARIABLES
    disk,           \* per path, what it holds and whether only its owner reads it
    work,           \* per process, what it is doing
    announced       \* the window the provider has for the model now

fileVars == <<disk, work, announced>>

MaxRequestAttempts == 6

Path(name, of) == [name |-> name, of |-> of]
KeyFile == Path("key", "")
Cache == Path("window", "")
Transcript == Path("transcript", "")
Checkpoint == Path("checkpoint", "")
Published == {Cache, Transcript, Checkpoint}

\* The partial transcript has one name, the other temporary files one a process.
Temporary(file, p) == IF file = Transcript THEN Path("partial", "") ELSE Path(file.name, p)

Paths == {KeyFile} \union Published \union
         {Temporary(f, p) : f \in Published, p \in Processes}

File(bytes, private) == [bytes |-> bytes, private |-> private]
Absent == File(NoFile, FALSE)

Jobs == {"login", "window", "oneshot", "fingerprint"}

\* A process that does nothing yet; told is what its user heard last, and inTurn (history)
\* whether it was cancelled while its turn ran.
Working(job) ==
    [job |-> job, at |-> "idle", how |-> "", holds |-> NoFile, cancelled |-> FALSE,
     inTurn |-> FALSE, attempt |-> 0, probe |-> 0, told |-> "nothing"]

FilesInit ==
    /\ disk = [path \in Paths |-> Absent]
    /\ \E job \in Jobs : work = [p \in Processes |-> Working(job)]
    /\ announced \in Windows

At(p, job, at) == work[p].job = job /\ work[p].at = at
Moves(p, at) == work' = [work EXCEPT ![p].at = at]
Stops(p, told) == work' = [work EXCEPT ![p] = [Working(@.job) EXCEPT !.told = told]]

\* A user runs one login, one one-shot with a transcript of this name and one
\* comparison of these models at a time.
Alone(p) == \A q \in Processes \ {p} : work[q].at = "idle"

-----------------------------------------------------------------------------
(* Keys. *)

\* login_openrouter, on a port of its own or with a code to paste; login_api_key.
StartLogin(p, how) ==
    /\ At(p, "login", "idle") /\ Alone(p)
    /\ work' = [work EXCEPT ![p] = [Working("login") EXCEPT !.at = "waiting", !.how = how]]
    /\ UNCHANGED <<disk, announced>>

\* parse_callback_request: the first request ends the wait, whatever it asks for.
CodeOf(request) ==
    IF request.path = "callback" /\ ~request.error THEN request.code ELSE ""

Callback(p, request) ==
    /\ At(p, "login", "waiting") /\ work[p].how = "callback"
    /\ IF CodeOf(request) = "" THEN Stops(p, "failed")
       ELSE work' = [work EXCEPT ![p].at = "exchange", ![p].holds = CodeOf(request)]
    /\ UNCHANGED <<disk, announced>>

CallbackTimesOut(p) ==
    /\ At(p, "login", "waiting") /\ work[p].how = "callback"
    /\ Stops(p, "timed out") /\ UNCHANGED <<disk, announced>>

\* read_authorization_code and read_api_key: nothing or Esc is no answer.
Typed(p, text) ==
    /\ At(p, "login", "waiting") /\ work[p].how \in {"paste", "key"}
    /\ IF text = "" THEN Stops(p, "failed")
       ELSE work' = [work EXCEPT ![p].holds = text,
                                 ![p].at = IF work[p].how = "key" THEN "open" ELSE "exchange"]
    /\ UNCHANGED <<disk, announced>>

\* exchange_code: the provider gives a key for the code of this login's verifier.
Exchange(p, answer) ==
    /\ At(p, "login", "exchange")
    /\ answer = "key" => work[p].holds = "mine"
    /\ IF answer = "key" THEN Moves(p, "open") ELSE Stops(p, "failed")
    /\ UNCHANGED <<disk, announced>>

\* write_credential: opened and emptied, made private, then written.
OpenKey(p) ==
    /\ At(p, "login", "open")
    /\ disk' = [disk EXCEPT ![KeyFile] =
                   File(Torn, IF @.bytes = NoFile THEN TRUE ELSE @.private)]
    /\ Moves(p, "secure") /\ UNCHANGED announced

SecureKey(p) ==
    /\ At(p, "login", "secure")
    /\ disk' = [disk EXCEPT ![KeyFile].private = TRUE]
    /\ Moves(p, "write") /\ UNCHANGED announced

WriteKey(p) ==
    /\ At(p, "login", "write")
    /\ disk' = [disk EXCEPT ![KeyFile].bytes = work[p].holds]
    /\ Stops(p, "saved") /\ UNCHANGED announced

\* read_credential: a file that others may read is refused, one that is empty is
\* no key.
Credential ==
    LET file == disk[KeyFile] IN
    CASE file.bytes = NoFile -> "none"
      [] file.bytes # NoFile /\ ~file.private -> "refused"
      [] file.private /\ file.bytes = Torn -> "none"
      [] OTHER -> file.bytes

\* status_provider, print_provider_token, resolve_api_key.
ReadKey(p) ==
    /\ At(p, "login", "idle") /\ Stops(p, Credential) /\ UNCHANGED <<disk, announced>>

Logout(p) ==
    /\ At(p, "login", "idle") /\ Alone(p)
    /\ disk' = [disk EXCEPT ![KeyFile] = Absent]
    /\ Stops(p, "nothing") /\ UNCHANGED announced

\* Somebody lets others read a key that was saved.
OthersMayRead ==
    /\ disk[KeyFile].bytes \notin {NoFile, Torn} /\ disk[KeyFile].private
    /\ disk' = [disk EXCEPT ![KeyFile].private = FALSE]
    /\ UNCHANGED <<work, announced>>

-----------------------------------------------------------------------------
(* Files that are replaced at once. *)

\* (mutant) A file written where it is.
BeginInPlace(file, p) ==
    disk' = [disk EXCEPT ![file] = File(Torn, file = Transcript)]

\* A temporary file is begun; a transcript only its owner may read.
Begin(file, p) ==
    disk' = [disk EXCEPT ![Temporary(file, p)] = File(Torn, file = Transcript)]

\* It is whole, and is renamed.
Publish(file, p, bytes) ==
    disk' = [disk EXCEPT ![file] = File(bytes, disk[Temporary(file, p)].private),
                         ![Temporary(file, p)] = Absent]

-----------------------------------------------------------------------------
(* A model's window (model_catalog.rs). *)

\* read_cache: only a whole entry of this model counts.
Cached == disk[Cache].bytes \notin {NoFile, Torn}

CachedAfresh == Cached /\ disk[Cache].bytes.fresh

ResolveWindow(p) ==
    /\ At(p, "window", "idle")
    /\ IF CachedAfresh THEN Stops(p, disk[Cache].bytes.window)
       ELSE work' = [work EXCEPT ![p] = [Working("window") EXCEPT
                        !.at = "fetch", !.holds = disk[Cache].bytes]]
    /\ UNCHANGED <<disk, announced>>

\* The provider answers, or an entry that was too old must do, or nothing.
FetchWindow(p, answers) ==
    LET old == work[p].holds IN
    /\ At(p, "window", "fetch")
    /\ IF answers
       THEN work' = [work EXCEPT ![p].at = "cache",
                                 ![p].holds = [window |-> announced, fresh |-> TRUE]]
       ELSE Stops(p, IF old \in {NoFile, Torn} THEN BuiltinWindow ELSE old.window)
    /\ UNCHANGED <<disk, announced>>

\* write_cache; what cannot be cached is used all the same.
CacheWindow(p) ==
    /\ At(p, "window", "cache") /\ Begin(Cache, p)
    /\ Moves(p, "cached") /\ UNCHANGED announced

WindowCached(p, stored) ==
    /\ At(p, "window", "cached")
    /\ IF stored THEN Publish(Cache, p, work[p].holds)
                 ELSE disk' = [disk EXCEPT ![Temporary(Cache, p)] = Absent]
    /\ Stops(p, work[p].holds.window) /\ UNCHANGED announced

\* A day passes; the provider changes the window.
CacheAges ==
    /\ CachedAfresh
    /\ disk' = [disk EXCEPT ![Cache].bytes.fresh = FALSE]
    /\ UNCHANGED <<work, announced>>

Announce(window) ==
    /\ \E p \in Processes : work[p].job = "window"
    /\ announced' = window /\ UNCHANGED <<disk, work>>

-----------------------------------------------------------------------------
(* claux -p --transcript (main.rs, output.rs). *)

StartOneShot(p) ==
    /\ At(p, "oneshot", "idle") /\ Alone(p)
    /\ work' = [work EXCEPT ![p] = [Working("oneshot") EXCEPT !.at = "turn"]]
    /\ UNCHANGED <<disk, announced>>

\* one_shot_cancellation_token: Ctrl+C or SIGTERM.
Signal(p) ==
    /\ work[p].job = "oneshot" /\ work[p].at \notin {"idle", "final", "publish"}
    /\ ~work[p].cancelled
    /\ work' = [work EXCEPT ![p].cancelled = TRUE,
                            ![p].inTurn = work[p].at \in {"turn", "checkpoint"}]
    /\ UNCHANGED <<disk, announced>>

\* checkpoint_transcript: one that cannot be written is warned of.
CheckpointTranscript(p) ==
    /\ At(p, "oneshot", "turn") /\ Begin(Transcript, p)
    /\ Moves(p, "checkpoint") /\ UNCHANGED announced

TranscriptCheckpointed(p, stored) ==
    /\ At(p, "oneshot", "checkpoint")
    /\ IF stored THEN Publish(Transcript, p, "running") ELSE UNCHANGED disk
    /\ Moves(p, "turn") /\ UNCHANGED announced

\* classify_one_shot_response: cancellation wins over what the engine returned.
TurnReturns(p, answer) ==
    /\ At(p, "oneshot", "turn")
    /\ work' = [work EXCEPT ![p].at = "classify",
                   ![p].holds = IF work[p].cancelled THEN "interrupted" ELSE answer]
    /\ UNCHANGED <<disk, announced>>

\* What an error counts as is asked of the token once more.
ClassifyTurn(p) ==
    /\ At(p, "oneshot", "classify")
    /\ work' = [work EXCEPT ![p].at = "final",
                   ![p].holds = IF @ = "error" /\ work[p].cancelled
                                THEN "interrupted error" ELSE @]
    /\ UNCHANGED <<disk, announced>>

FinalTranscript(p) ==
    /\ At(p, "oneshot", "final") /\ Begin(Transcript, p)
    /\ Moves(p, "publish") /\ UNCHANGED announced

\* Then the answer or the error is printed, and the exit code is its kind.
OneShotEnds(p, stored) ==
    /\ At(p, "oneshot", "publish")
    /\ IF stored THEN Publish(Transcript, p, work[p].holds) /\ Stops(p, work[p].holds)
       ELSE UNCHANGED disk /\ Stops(p, "transcript lost")
    /\ UNCHANGED announced

-----------------------------------------------------------------------------
(* Comparing tokenizers (tokenizer_fingerprint.rs). *)

\* load_checkpoint: one that does not fit is an error.  The file's name is made
\* of the models and of the prompts.
Resumable(bytes) == bytes # NoFile /\ bytes # Torn /\ IsPrefix(bytes, Lineup)

StartFingerprint(p, resume) ==
    LET found == disk[Checkpoint].bytes IN
    /\ At(p, "fingerprint", "idle") /\ Alone(p)
    /\ IF resume /\ ~Resumable(found) THEN Stops(p, "failed")
       ELSE work' = [work EXCEPT ![p] = [Working("fingerprint") EXCEPT
                        !.at = "store", !.how = IF resume THEN "resume" ELSE "",
                        !.holds = IF resume THEN found ELSE <<>>]]
    /\ UNCHANGED <<disk, announced>>

\* write_checkpoint, at once and after every model.
StoreCheckpoint(p) ==
    /\ At(p, "fingerprint", "store") /\ Begin(Checkpoint, p)
    /\ Moves(p, "stored") /\ UNCHANGED announced

CheckpointStored(p, stored) ==
    /\ At(p, "fingerprint", "stored")
    /\ IF ~stored THEN /\ disk' = [disk EXCEPT ![Temporary(Checkpoint, p)] = Absent]
                       /\ Stops(p, "failed")
       ELSE /\ Publish(Checkpoint, p, work[p].holds)
            /\ IF Len(work[p].holds) = Len(Lineup) THEN Stops(p, "report")
               ELSE work' = [work EXCEPT ![p].at = "ask", ![p].attempt = 0, ![p].probe = 0]
    /\ UNCHANGED announced

\* count_prompt: 429 and 5xx are tried again.
Retries(status, attempt) == status = "busy" /\ attempt + 1 < MaxRequestAttempts

\* fingerprint_model: the empty prompt first, then every probe.
CountAnswered(p, status) ==
    LET w == work[p] IN
    /\ At(p, "fingerprint", "ask")
    /\ CASE status = "ok" /\ w.probe < Probes ->
              work' = [work EXCEPT ![p].probe = @ + 1, ![p].attempt = 0]
         [] status = "ok" /\ w.probe = Probes ->
              work' = [work EXCEPT ![p].at = "store",
                                   ![p].holds = Append(@, Lineup[Len(@) + 1])]
         [] status # "ok" /\ Retries(status, w.attempt) ->
              work' = [work EXCEPT ![p].attempt = @ + 1]
         [] OTHER -> Stops(p, "failed")
    /\ UNCHANGED <<disk, announced>>

-----------------------------------------------------------------------------

\* A process is killed; its files stay as they are.
Killed(p) ==
    /\ work[p].at # "idle" /\ Stops(p, "nothing") /\ UNCHANGED <<disk, announced>>

Requests ==
    [path : {"callback", "favicon"}, error : BOOLEAN, code : {"", "mine", "forged"}]

FilesNext ==
    \/ \E p \in Processes :
          \/ \E how \in {"callback", "paste", "key"} : StartLogin(p, how)
          \/ \E r \in Requests : Callback(p, r)
          \/ CallbackTimesOut(p)
          \/ \E text \in {"", "mine", "forged"} : Typed(p, text)
          \/ \E answer \in {"key", "empty", "refused"} : Exchange(p, answer)
          \/ OpenKey(p) \/ SecureKey(p) \/ WriteKey(p) \/ ReadKey(p) \/ Logout(p)
          \/ ResolveWindow(p) \/ CacheWindow(p) \/ StartOneShot(p) \/ Signal(p)
          \/ CheckpointTranscript(p) \/ ClassifyTurn(p) \/ FinalTranscript(p) \/ StoreCheckpoint(p)
          \/ \E fine \in BOOLEAN :
                \/ FetchWindow(p, fine) \/ WindowCached(p, fine)
                \/ TranscriptCheckpointed(p, fine) \/ OneShotEnds(p, fine)
                \/ StartFingerprint(p, fine) \/ CheckpointStored(p, fine)
          \/ \E answer \in {"completed", "error"} : TurnReturns(p, answer)
          \/ \E status \in {"ok", "busy", "bad"} : CountAnswered(p, status)
          \/ Killed(p)
    \/ OthersMayRead \/ CacheAges \/ \E w \in Windows : Announce(w)

FilesSpec == FilesInit /\ [][FilesNext]_fileVars

-----------------------------------------------------------------------------

\* What is read under its own name was written to its end, whenever a process
\* was killed.  (Not so a key, which is written in place: the one before is gone when a
\* login that replaces it is killed, or fails to write, auth.rs:205.)
PublishedIsWhole == \A file \in Published : disk[file].bytes # Torn

\* A request is not sent more often than count_prompt says.
AttemptsAreBounded == \A p \in Processes : work[p].attempt < MaxRequestAttempts

\* claux puts no key into a file that others may read, and reads none from one.
KeysStayPrivate ==
    LET bytes == disk'[KeyFile].bytes IN
    /\ bytes \notin {disk[KeyFile].bytes, NoFile, Torn} => disk'[KeyFile].private
    /\ \A p \in Processes :
          At(p, "login", "idle") /\ work'[p].told \in {"mine", "forged"}
              /\ work'[p].told # work[p].told => disk[KeyFile].private

\* A comparison that is resumed loses no model it had finished, and one that
\* reports has them all.
ResumedIsKept ==
    LET before == disk[Checkpoint].bytes
        after == disk'[Checkpoint].bytes
    IN  /\ before # NoFile
              /\ (\A p \in Processes : work[p].how = "resume" \/ work[p].at = "idle")
            => after # NoFile /\ IsPrefix(before, after)
        /\ \A p \in Processes :
              work[p].job = "fingerprint" /\ work[p].told # "report"
                  /\ work'[p].told = "report" => after = Lineup

\* The transcript a run leaves is what it tells with its exit code.  A run that was
\* interrupted while its turn ran says so and nothing else; an interruption after the
\* turn finds an answer complete, and an error is told as one that was interrupted.
OutcomeIsTold ==
    \A p \in Processes :
        work[p].job = "oneshot" /\ work[p].at # "idle" /\ work'[p].at = "idle"
            /\ work'[p].told \notin {"nothing", "transcript lost"}
          => /\ disk'[Transcript].bytes = work'[p].told /\ disk'[Transcript].private
             /\ work[p].inTurn => work'[p].told = "interrupted"
             /\ work[p].cancelled => work'[p].told # "error"
             /\ ~work[p].cancelled => work'[p].told \in {"completed", "error"}

\* A window that the provider announced and that is still fresh is not asked for
\* again, and an old one is better than none.
WindowIsKnown ==
    \A p \in Processes : work[p].job = "window" =>
        /\ work[p].at = "idle" /\ work'[p].at = "fetch" => ~CachedAfresh
        /\ work'[p].told \notin {"nothing", work[p].told} =>
              /\ work[p].at = "idle" => work'[p].told = disk[Cache].bytes.window
              /\ work'[p].told = BuiltinWindow =>
                    work[p].at = "fetch" /\ work[p].holds \in {NoFile, Torn}

\* Windows, transcripts and checkpoints outlive a process that is killed, whole and
\* true, and a key is private whatever becomes of the login that writes it (auth.rs,
\* model_catalog.rs, output.rs, tokenizer_fingerprint.rs).
FilesOutliveTheirProcess ==
    [][/\ PublishedIsWhole' /\ AttemptsAreBounded'
       /\ KeysStayPrivate /\ ResumedIsKept /\ OutcomeIsTold /\ WindowIsKnown]_fileVars
=============================================================================
