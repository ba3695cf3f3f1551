------------------------------ MODULE Screens ------------------------------
(***************************************************************************)
(* What the full screen shows, on the home screen, at the line and during  *)
(* a turn.                                                                 *)
(***************************************************************************)
EXTENDS HomeScreen, InputLine, ChatTurn, TerminalGuard

\* What a user sees is what is so, and what a key does is what the screen says:
\* the home screen's cursors (tui/home.rs), the line and its menu
\* (tui/completion.rs, tui/chat.rs), and the bubbles of a turn, which follow the
\* engine's events whatever ran beside what (tui/chat.rs); and the terminal is given
\* back as it was (tui/terminal.rs).
ScreensAreTrue ==
    /\ [][/\ CursorsAreShown' /\ DeletesWhatItAsked /\ FoldsAreKept
          /\ CreatesInTheProject]_homeVars
    /\ [][PlacesAreThere' /\ MenuComesBack /\ MenuTakesEnter /\ NothingByAccident]_lineVars
    /\ [][CallsAreShown' /\ TextIsShown' /\ TextStays /\ PromptIsForTheCall']_chatVars
    /\ [][TerminalIsReturned' /\ CleanupNeverPanics']_terminalVars
=============================================================================
