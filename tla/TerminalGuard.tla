--------------------------- MODULE TerminalGuard ---------------------------
(***************************************************************************)
(* The terminal's modes while the full screen is used, and their return    *)
(* (tui/terminal.rs), although the terminal refuses an escape or goes away *)
(* (terminal_input.rs) and although the program ends by a panic.           *)
(***************************************************************************)

CONSTANTS
    Raw,        \* the terminal's driver passes each key
    Escapes,    \* modes set and reset by escapes when the screen is entered, in order
    Drawn       \* those that drawing sets: the colours, the cursor's absence

ASSUME TerminalAssumption == 1 \in DOMAIN Escapes

VARIABLES
    term,       \* the modes that are set
    attached,   \* the terminal is there
    active,     \* TerminalModes
    closing,    \* of the TerminalGuard and its TerminalOutput
    stage,      \* where the program is
    refused     \* the modes whose last reset was refused

terminalVars == <<term, attached, active, closing, stage, refused>>

TerminalModes == {Raw} \union {Escapes[i] : i \in DOMAIN Escapes} \union Drawn

TerminalInit ==
    /\ term = {} /\ attached = TRUE /\ active = FALSE /\ closing = FALSE
    /\ stage = "outside" /\ refused = {}

-----------------------------------------------------------------------------

\* The cleanup is armed before anything is changed.
Arms ==
    /\ stage = "outside" /\ active' = TRUE
    /\ \/ attached /\ term' = {Raw} /\ stage' = "entering"
       \/ stage' = "modes" /\ UNCHANGED term
    /\ UNCHANGED <<attached, closing, refused>>

\* A write may fail when some escapes are accepted already.
Enters ==
    /\ stage = "entering"
    /\ \/ /\ attached /\ stage' = "creating"
          /\ term' = term \union {Escapes[i] : i \in DOMAIN Escapes}
       \/ \E accepted \in {{}, {Escapes[1]}} :
              /\ attached \/ accepted = {}
              /\ stage' = "modes" /\ term' = term \union accepted
    /\ UNCHANGED <<attached, active, closing, refused>>

\* Terminal::new asks for the size; if it fails there is no guard, only its modes.
CreatesTerminal ==
    /\ stage = "creating"
    /\ \/ attached /\ stage' = "drawing"
       \/ stage' = "modes"
    /\ UNCHANGED <<term, attached, active, closing, refused>>

\* An error of the output ends the screen's loop.
Draws ==
    /\ stage = "drawing"
    /\ \/ attached /\ term' = term \union Drawn /\ UNCHANGED stage
       \/ stage' = "ended" /\ UNCHANGED term
    /\ UNCHANGED <<attached, active, closing, refused>>

\* poll_inner: a terminal that is gone is an error, before any event is read.
NoticesLoss ==
    /\ stage = "drawing" /\ ~attached /\ stage' = "ended"
    /\ UNCHANGED <<term, attached, active, closing, refused>>

ScreenEnds ==
    /\ stage = "drawing" /\ stage' = "ended"
    /\ UNCHANGED <<term, attached, active, closing, refused>>

\* TerminalModes::restore: six operations that do not wait for each other, and all
\* are tried again if one was refused.
Restores(resets) ==
    IF ~active THEN UNCHANGED <<term, active, refused>>
    ELSE \E accepted \in SUBSET resets :
            /\ attached \/ accepted \subseteq {Raw}
            /\ term' = term \ accepted
            /\ refused' = resets \ accepted
            /\ active' = (refused' # {})

\* The screen is left; an error of this is told last of all.
RestoresExplicitly ==
    /\ stage = "ended" /\ stage' = "restored" /\ Restores(TerminalModes)
    /\ UNCHANGED <<attached, closing>>

\* (mutant) The guard's end says nothing to its output.
DropsOpen ==
    /\ stage \in {"drawing", "restored"} /\ stage' = "leaving"
    /\ UNCHANGED <<term, attached, active, closing, refused>>

\* The guard ends, after its explicit return or by a panic.
Drops ==
    /\ stage \in {"drawing", "restored"} /\ stage' = "leaving" /\ closing' = TRUE
    /\ UNCHANGED <<term, attached, active, refused>>

\* TerminalOutput: what the destructor of the screen writes never fails.
Reported(failed) == failed /\ ~closing

\* The destructor shows the cursor; it would print its error, which panics when the
\* terminal is gone, and a panic while another unwinds ends the program at once.
DropsScreen ==
    /\ stage = "leaving"
    /\ \/ attached /\ term' = term \ {"cursor"} /\ stage' = "modes"
       \/ /\ stage' = IF Reported(TRUE) /\ ~attached THEN "aborted" ELSE "modes"
          /\ UNCHANGED term
    /\ UNCHANGED <<attached, active, closing, refused>>

DropsModes ==
    /\ stage = "modes" /\ stage' = "gone" /\ Restores(TerminalModes)
    /\ UNCHANGED <<attached, closing>>

Disconnects ==
    /\ attached /\ attached' = FALSE
    /\ UNCHANGED <<term, active, closing, stage, refused>>

TerminalNext ==
    \/ Arms \/ Enters \/ CreatesTerminal \/ Draws \/ NoticesLoss \/ ScreenEnds
    \/ RestoresExplicitly \/ Drops \/ DropsScreen \/ DropsModes \/ Disconnects

TerminalSpec == TerminalInit /\ [][TerminalNext]_terminalVars

-----------------------------------------------------------------------------

\* When the screen is gone, however it ended, a mode is set only if the terminal
\* refused the last try to reset it; and what is not armed is not set (terminal.rs).
TerminalIsReturned ==
    /\ stage = "gone" => term \subseteq refused
    /\ ~active => term = {}

\* The end of the screen never becomes a panic of its own (terminal.rs:92).
CleanupNeverPanics == stage # "aborted"
=============================================================================
