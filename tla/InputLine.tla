----------------------------- MODULE InputLine -----------------------------
(***************************************************************************)
(* The chat screen between two turns (tui/chat.rs): the line that is being *)
(* edited (tui/input.rs), the menu of commands that is derived from it     *)
(* (tui/completion.rs, commands.rs), the two presses of Ctrl+C that leave, *)
(* the list of jobs that takes the keys, and the microphone and the voice  *)
(* (voice.rs).  A line is a sequence of characters, and a command's name   *)
(* too.                                                                    *)
(***************************************************************************)
EXTENDS Naturals, Sequences, SequencesExt

CONSTANTS
    Blank, Slash,   \* the characters that mean something to the menu
    Letters,        \* others
    Commands,       \* COMMANDS, as [name, arg]
    Alias,          \* a name that is not offered, of the last command
    Spoken,         \* the languages with a speech command
    DefaultSpoken,  \* the language of what has no tag
    Replies,        \* what a turn may answer: sequences of words and tags
    MaxLine         \* bound: the length of a line

ASSUME CommandsAssumption ==
    \A i \in DOMAIN Commands : Commands[i].name # <<>> /\ Head(Commands[i].name) = Slash

VARIABLES
    line, cursor,
    menu,       \* CompletionState: the entry selected, the token dismissed
    presses,    \* CtrlCArm: 1 while a press of Ctrl+C waits for the second
    jobsShown,  \* the keys go to the list of jobs
    voice,      \* voice mode is on; the recorder, and the speech left to play
    did         \* what was done last: a command, a message, an exit

lineVars == <<line, cursor, menu, presses, jobsShown, voice, did>>

NoToken == <<>>
Menu(selected, dismissed) == [selected |-> selected, dismissed |-> dismissed]
NothingDone == [kind |-> "nothing", text |-> <<>>]

LineInit ==
    /\ line = <<>> /\ cursor = 0 /\ menu = Menu(1, NoToken) /\ presses = 0
    /\ jobsShown = FALSE /\ voice = [on |-> FALSE, recording |-> FALSE, queue |-> <<>>]
    /\ did = NothingDone

-----------------------------------------------------------------------------
(* The menu. *)

Before == SubSeq(line, 1, cursor)
After == SubSeq(line, cursor + 1, Len(line))

\* The first word, if the cursor is in it and nothing follows it.
Token ==
    IF Before = <<>> \/ Head(Before) # Slash \/ Contains(line, Blank) THEN NoToken ELSE Before

CommandsMatching(token) == SelectSeq(Commands, LAMBDA c : IsPrefix(token, c.name))

\* A command that is typed out, and is the only one, needs no menu.
OfferedFor(token, dismissed) ==
    IF token = NoToken \/ token = dismissed THEN <<>>
    ELSE IF \E c \in ToSet(CommandsMatching(token)) : CommandsMatching(token) = <<c>> /\ c.name = token THEN <<>>
    ELSE CommandsMatching(token)

\* active forgets a dismissal when the token is another one, and an entry that
\* is not there.  It is asked at every key and at every drawing of the screen.
\* (mutant) A dismissal is kept.
SettledForGood(m, token) ==
    LET offered == OfferedFor(token, m.dismissed) IN
    Menu(IF m.selected > Len(offered) /\ offered # <<>> THEN 1 ELSE m.selected, m.dismissed)

SettledMenu(m, token) ==
    LET dismissed == IF token \in {NoToken, m.dismissed} THEN m.dismissed ELSE NoToken
        offered == OfferedFor(token, dismissed)
    IN  Menu(IF m.selected > Len(offered) /\ offered # <<>> THEN 1 ELSE m.selected, dismissed)

Entries == OfferedFor(Token, menu.dismissed)
MenuIsOpen == Entries # <<>>

-----------------------------------------------------------------------------
(* Keys. *)

\* The line and the cursor are these, the screen is drawn, and a press of Ctrl+C
\* no longer counts.
Edits(text, at, m) ==
    /\ Len(text) <= MaxLine
    /\ line' = text /\ cursor' = at /\ presses' = 0
    /\ menu' = SettledMenu(m, Token')
    /\ UNCHANGED <<jobsShown, voice>> /\ did' = NothingDone

Keys == ~jobsShown /\ voice.queue = <<>> /\ did.kind \notin {"exit", "turn"}

Types(c) == Keys /\ Edits(Before \o <<c>> \o After, cursor + 1, menu)
Pastes(text) == Keys /\ Edits(Before \o text \o After, cursor + Len(text), menu)
Backspaces == Keys /\ cursor > 0 /\ Edits(Front(Before) \o After, cursor - 1, menu)
Deletes == Keys /\ cursor < Len(line) /\ Edits(Before \o Tail(After), cursor, menu)

\* Left, Right, Home and End.
MovesTo(at) ==
    /\ Keys /\ at \in {0, cursor - 1, cursor + 1, Len(line)} \ {cursor} /\ at <= Len(line)
    /\ Edits(line, at, menu)

\* Ctrl+U.
Empties == Keys /\ Edits(<<>>, 0, Menu(1, NoToken))

\* Up and Down go round.
MovesInMenu(entry) ==
    /\ Keys /\ MenuIsOpen
    /\ entry \in {1 + (menu.selected % Len(Entries)),
                  1 + ((menu.selected + Len(Entries) - 2) % Len(Entries))}
    /\ Edits(line, cursor, [menu EXCEPT !.selected = entry])

\* apply: the token is replaced, and a command that takes an argument is ready
\* for it.
Completed(command) ==
    command.name \o IF command.arg /\ (After = <<>> \/ Head(After) # Blank) THEN <<Blank>> ELSE <<>>

Accepts ==
    /\ Keys /\ MenuIsOpen
    /\ LET text == Completed(Entries[menu.selected])
       IN  Edits(text \o After, Len(text), Menu(1, NoToken))

Dismisses ==
    /\ Keys /\ MenuIsOpen /\ Edits(line, cursor, Menu(1, Token))

-----------------------------------------------------------------------------
(* Lines that are sent. *)

Blanks(text) == \A i \in DOMAIN text : text[i] = Blank
LastInk(text) == CHOOSE i \in DOMAIN text : text[i] # Blank /\ Blanks(SubSeq(text, i + 1, Len(text)))
FirstInk(text) == CHOOSE i \in DOMAIN text : text[i] # Blank /\ Blanks(SubSeq(text, 1, i - 1))
Trimmed(text) == IF Blanks(text) THEN <<>> ELSE SubSeq(text, FirstInk(text), LastInk(text))

FirstWord(text) ==
    IF Contains(text, Blank)
    THEN SubSeq(text, 1, (CHOOSE i \in DOMAIN text :
            text[i] = Blank /\ \A j \in 1..(i - 1) : text[j] # Blank) - 1)
    ELSE text

\* parse_command: a command by its name or by its alias, or one that is unknown.
Parsed(text) ==
    LET word == FirstWord(text) IN
    IF text = <<>> \/ Head(text) # Slash THEN NoToken
    ELSE IF word = Alias THEN Last(Commands).name ELSE word

\* take_input, and what a line means; an open recording is discarded.
Sends(text) ==
    LET command == Parsed(Trimmed(text)) IN
    did' = [kind |-> IF command = NoToken THEN "turn"
                     ELSE IF command = Last(Commands).name THEN "exit" ELSE "command",
            text |-> IF command = NoToken THEN Trimmed(text) ELSE command]

Submits ==
    /\ Keys /\ ~MenuIsOpen /\ ~Blanks(line)
    /\ line' = <<>> /\ cursor' = 0 /\ menu' = Menu(1, NoToken)
    /\ Sends(line) /\ voice' = [voice EXCEPT !.recording = FALSE]
    /\ UNCHANGED <<presses, jobsShown>>

\* Ctrl+C twice in two seconds, or Ctrl+D.
PressesCtrlC ==
    /\ Keys /\ presses' = presses + 1
    /\ did' = IF presses = 1 THEN [NothingDone EXCEPT !.kind = "exit"] ELSE NothingDone
    /\ UNCHANGED <<line, cursor, menu, jobsShown, voice>>

TwoSecondsPass ==
    /\ presses = 1 /\ did.kind # "exit" /\ presses' = 0
    /\ UNCHANGED <<line, cursor, menu, jobsShown, voice, did>>

PressesCtrlD ==
    /\ Keys /\ did' = [NothingDone EXCEPT !.kind = "exit"] /\ presses' = 0
    /\ UNCHANGED <<line, cursor, menu, jobsShown, voice>>

\* F6 or /jobs; while the list is shown it takes all keys but Ctrl+C.
TogglesJobs ==
    /\ did.kind \notin {"exit", "turn"} /\ voice.queue = <<>> /\ jobsShown' = ~jobsShown
    /\ UNCHANGED <<line, cursor, menu, presses, voice>> /\ did' = NothingDone

-----------------------------------------------------------------------------
(* The microphone and the voice. *)

TogglesVoice ==
    /\ Keys /\ voice' = [voice EXCEPT !.on = ~@, !.recording = FALSE]
    /\ did' = NothingDone /\ UNCHANGED <<line, cursor, menu, presses, jobsShown>>

\* Ctrl+T; the recorder may not start.
StartsRecording ==
    /\ Keys /\ voice.on /\ ~voice.recording
    /\ voice' = [voice EXCEPT !.recording = TRUE] /\ did' = NothingDone
    /\ UNCHANGED <<line, cursor, menu, presses, jobsShown>>

\* Ctrl+T again: what was heard is put in the line, or is sent at once, and the
\* recorder is gone whatever happened.
Transcribes(heard, sent) ==
    /\ Keys /\ voice.on /\ voice.recording /\ voice' = [voice EXCEPT !.recording = FALSE]
    /\ UNCHANGED <<presses, jobsShown>>
    /\ IF sent /\ Trimmed(heard) # <<>> THEN Sends(heard) /\ UNCHANGED <<line, cursor, menu>>
       ELSE /\ Len(line) + Len(heard) <= MaxLine
            /\ line' = Before \o heard \o After /\ cursor' = cursor + Len(heard)
            /\ menu' = SettledMenu(menu, Token') /\ did' = NothingDone

\* segments: tags change the language of what follows.
Segments(reply) ==
    FoldLeft(LAMBDA s, piece :
        IF piece.tag THEN [s EXCEPT !.lang = piece.of]
        ELSE [s EXCEPT !.out = Append(@, [lang |-> s.lang, word |-> piece.of])],
        [lang |-> "", out |-> <<>>], reply).out

\* speak_command: its language's, or the default's.
CommandFor(segment) == IF segment.lang \in Spoken THEN segment.lang ELSE DefaultSpoken

\* A turn ends; its reply is spoken as far as there are commands for it.
Replied(reply) ==
    /\ did.kind = "turn" /\ did' = NothingDone
    /\ voice' = [voice EXCEPT !.queue =
                    IF voice.on THEN SelectSeq(Segments(reply), LAMBDA s : CommandFor(s) \in Spoken)
                    ELSE <<>>]
    /\ UNCHANGED <<line, cursor, menu, presses, jobsShown>>

\* Speaking::step, one command after the other.
Speaks ==
    /\ voice.queue # <<>> /\ did.kind # "turn"
    /\ did' = [kind |-> "spoken", text |-> CommandFor(Head(voice.queue))]
    /\ voice' = [voice EXCEPT !.queue = Tail(@)]
    /\ UNCHANGED <<line, cursor, menu, presses, jobsShown>>

\* A key, a command that fails, or the program is told to end.
StopsSpeech ==
    /\ voice.queue # <<>> /\ voice' = [voice EXCEPT !.queue = <<>>] /\ did' = NothingDone
    /\ UNCHANGED <<line, cursor, menu, presses, jobsShown>>

LineNext ==
    \/ \E c \in Letters \union {Blank, Slash} :
          Types(c) \/ \E sent \in BOOLEAN : Transcribes(<<c>>, sent)
    \/ (\E c \in Letters : Pastes(<<Slash, c>>)) \/ Backspaces \/ Deletes
    \/ (\E at \in 0..MaxLine : MovesTo(at)) \/ Empties
    \/ (\E entry \in DOMAIN Commands : MovesInMenu(entry)) \/ Accepts \/ Dismisses \/ Submits
    \/ PressesCtrlC \/ TwoSecondsPass \/ PressesCtrlD \/ TogglesJobs
    \/ TogglesVoice \/ StartsRecording \/ (\E r \in Replies : Replied(r)) \/ Speaks \/ StopsSpeech

LineSpec == LineInit /\ [][LineNext]_lineVars

-----------------------------------------------------------------------------

\* The cursor is in the line and the entry that is highlighted is in the menu.
PlacesAreThere ==
    /\ cursor \in 0..Len(line)
    /\ MenuIsOpen => menu.selected \in DOMAIN Entries

\* The menu is closed for a command that can be completed only right after Esc,
\* until the word is another one.
MenuComesBack ==
    ~Keys \/ Token = NoToken \/ Token' \in {NoToken, Token} \/ OfferedFor(Token', NoToken) = <<>> \/ MenuIsOpen'

\* With the menu open Enter sends nothing, and the command a user accepted at the
\* end of the line is the one that the next Enter runs.
MenuTakesEnter ==
    /\ MenuIsOpen /\ ~voice.recording /\ did' # did => did'.kind \notin {"turn", "command"}
    /\ MenuIsOpen /\ After = <<>> =>
          LET command == Entries[menu.selected]
          IN  Parsed(Trimmed(Completed(command))) = command.name

\* The microphone is closed while a turn runs, and the chat is not left by one
\* stray Ctrl+C.
NothingByAccident ==
    /\ did.kind = "turn" => ~voice.recording
    /\ did'.kind = "exit" /\ did.kind # "exit" /\ line' = line /\ did'.text = <<>> =>
          presses = 1 \/ presses' = 0
=============================================================================
