------------------------------- MODULE Parts -------------------------------
(***************************************************************************)
(* The parts of claux that do not share state, side by side: a behaviour   *)
(* is a behaviour of one of them, and the others keep their first state.   *)
(* Each part is a specification of its own; checking them in one run says  *)
(* no more than checking them in turn.                                     *)
(***************************************************************************)
EXTENDS Permissions, Wire, Streams, Settings, UserFiles, Screens, Tools

VARIABLE part   \* the one that runs

partsVars == <<part, permissionVars, historyVars, streamVars, settingsVars, fileVars,
               homeVars, lineVars, chatVars, terminalVars,
               toolVars, serverVars, fetchVars, boxVars>>

screenVars == <<homeVars, lineVars, chatVars, terminalVars>>
allToolVars == <<toolVars, serverVars, fetchVars, boxVars>>

\* A part that does not run starts in one way.
Init ==
    /\ part \in {"permissions", "history", "streams", "settings", "files",
                "home", "line", "chat", "terminal", "tools", "servers", "fetch", "box"}
    /\ PermissionsInit /\ (part # "permissions" => policy = CHOOSE p \in Policies : TRUE)
    /\ HistoryInit
    /\ StreamInit /\ (part # "streams" => dialect = "chat" /\ ~lenient)
    /\ SettingsInit
    /\ part # "settings" =>
          /\ owner = Unset /\ project = CHOOSE p \in ProjectFiles : TRUE
          /\ environment = CHOOSE e \in Environments : TRUE
    /\ FilesInit
    /\ part # "files" =>
          /\ \A p \in Processes : work[p].job = "login"
          /\ announced = CHOOSE w \in Windows : TRUE
    /\ HomeInit /\ LineInit /\ ChatInit /\ TerminalInit
    /\ ToolsInit /\ (part # "tools" => confined)
    /\ ServersInit /\ (part # "servers" => listed = {})
    /\ FetchInit
    /\ BoxInit
    /\ part # "box" =>
          /\ configuration = CHOOSE c \in Configurations : TRUE
          /\ host = [linux |-> TRUE, kernel |-> TRUE, executable |-> TRUE, workspace |-> TRUE]

Permission ==
    /\ part = "permissions" /\ PermissionsNext
    /\ UNCHANGED <<part, historyVars, streamVars, settingsVars, fileVars, screenVars, allToolVars>>

Recovery ==
    /\ part = "history" /\ HistoryNext
    /\ UNCHANGED <<part, permissionVars, streamVars, settingsVars, fileVars, screenVars, allToolVars>>

Stream ==
    /\ part = "streams" /\ StreamNext
    /\ UNCHANGED <<part, permissionVars, historyVars, settingsVars, fileVars, screenVars, allToolVars>>

Settling ==
    /\ part = "settings" /\ SettingsNext
    /\ UNCHANGED <<part, permissionVars, historyVars, streamVars, fileVars, screenVars, allToolVars>>

Keeping ==
    /\ part = "files" /\ FilesNext
    /\ UNCHANGED <<part, permissionVars, historyVars, streamVars, settingsVars, screenVars, allToolVars>>

Others == <<permissionVars, historyVars, streamVars, settingsVars, fileVars>>

Browse ==
    /\ part = "home" /\ HomeNext
    /\ UNCHANGED <<part, Others, lineVars, chatVars, terminalVars, allToolVars>>
Type ==
    /\ part = "line" /\ LineNext
    /\ UNCHANGED <<part, Others, homeVars, chatVars, terminalVars, allToolVars>>
Chat ==
    /\ part = "chat" /\ ChatNext
    /\ UNCHANGED <<part, Others, homeVars, lineVars, terminalVars, allToolVars>>
Show ==
    /\ part = "terminal" /\ TerminalNext
    /\ UNCHANGED <<part, Others, homeVars, lineVars, chatVars, allToolVars>>

Handle ==
    /\ part = "tools" /\ ToolsNext
    /\ UNCHANGED <<part, Others, screenVars, serverVars, fetchVars, boxVars>>
Serve ==
    /\ part = "servers" /\ ServersNext
    /\ UNCHANGED <<part, Others, screenVars, toolVars, fetchVars, boxVars>>
Fetch ==
    /\ part = "fetch" /\ FetchNext
    /\ UNCHANGED <<part, Others, screenVars, toolVars, serverVars, boxVars>>
Contain ==
    /\ part = "box" /\ BoxNext
    /\ UNCHANGED <<part, Others, screenVars, toolVars, serverVars, fetchVars>>

Next ==
    \/ Permission \/ Recovery \/ Stream \/ Settling \/ Keeping
    \/ Browse \/ Type \/ Chat \/ Show \/ Handle \/ Serve \/ Fetch \/ Contain

Spec == Init /\ [][Next]_partsVars
=============================================================================
