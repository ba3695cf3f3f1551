----------------------------- MODULE MCParts ------------------------------
EXTENDS Parts, MCPermissions, MCStreams, MCSettings, MCScreens

MCLineup == <<"a", "b">>

-----------------------------------------------------------------------------
(* History *)

\* Messages with texts, images, reasoning, repeated calls, calls of an id a repair
\* would choose, results in order, repeated, swapped, mixed with a text, and of
\* calls nobody made.

UsesOf(ids) == [i \in DOMAIN ids |-> Block("use", ids[i])]
ResultsOf(ids) == [i \in DOMAIN ids |-> Block("result", ids[i])]
Prose == <<Block("text", <<"t">>)>>
Image == <<Block("image", <<"i">>)>>
Reasoning == <<Block("reasoning", <<"r">>)>>
IdA == <<"a">>
IdB == <<"b">>

MCSavable ==
    {Message("user", body) : body \in
        {Prose, Prose \o Image, ResultsOf(<<IdA>>), ResultsOf(<<IdA, IdA>>),
         ResultsOf(<<IdB, IdA>>), ResultsOf(<<IdB>>) \o Prose}} \union
    {Message("assistant", body) : body \in
        {Prose \o UsesOf(<<IdA>>), UsesOf(<<IdA, IdA>>), Reasoning \o UsesOf(<<IdA, IdB>>),
         Reasoning, UsesOf(<<Append(IdA, 2)>>)}}

-----------------------------------------------------------------------------
(* Tools *)

\* A workspace with a folder and a file in it, and a file outside.
MCPlaces == {<<>>, <<"w">>, <<"w", "d">>, <<"w", "d", "a">>, <<"o">>, <<"o", "a">>}
MCWorkspace == <<"w">>
MCNamedPaths == {<<"w", "d", "a">>, <<"w", "..", "o", "a">>, <<"w">>}
MCLinks == {<<"o">>, <<"o", "a">>}
MCTexts == {<<"x", "x">>, <<"l", "x">>}

\* Two servers of the owner, one of whose names the project uses too; two of their
\* tools are exposed under one name.
MCOwned == {[name |-> "a", env |-> TRUE], [name |-> "ab", env |-> FALSE]}
MCProposed == {[name |-> "c", env |-> FALSE], [name |-> "ab", env |-> FALSE]}
Lists(name, hint) == [tool |-> name, hint |-> hint]
MCOffers ==
    ("a" :> {{Lists("b_c", TRUE)}, {}}) @@
    ("ab" :> {{Lists("c", FALSE)}, {Lists("d", TRUE)}}) @@
    ("c" :> {{Lists("e", TRUE)}})
MCExposed ==
    (<<"a", "b_c">> :> "abc") @@ (<<"ab", "c">> :> "abc") @@ (<<"ab", "d">> :> "abd") @@
    (<<"c", "e">> :> "ce")

\* Pages that are short, hide letters, have too many letters, and too many bytes.
MCAddresses == {{"p", "q"}, {"p", "i"}, {}}
MCPages ==
    {<<>>, <<<<"a">>, <<"<", "w">>>>, <<<<"w", "<">>, <<"<", "<", "w">>>>, <<<<"a", "a", "a">>>>}
MCWidth == ("a" :> 1) @@ ("w" :> 3) @@ ("<" :> 1)

\* Two spellings of a name that the file gives, a key, an agent's socket and a path.
MCVariables == {"my_secret", "MY_SECRET", "X_API_KEY", "SSH_AUTH_SOCK", "PATH"}
MCFolded == [v \in MCVariables \union {" "} |-> IF v = "my_secret" THEN "MY_SECRET" ELSE v]
Declares(named, strip, bash, adds) ==
    [named |-> named, strip |-> strip, bash |-> bash, adds |-> adds]
MCConfigurations ==
    {Declares({"my_secret", " "}, TRUE, "workspace_write", {"MY_SECRET", "PATH"}),
     Declares({"X_API_KEY"}, FALSE, "auto", {}), Declares({}, FALSE, "unrestricted", {}),
     Declares({"MY_SECRET"}, TRUE, "auto", {"X_API_KEY"})}

MCEscapes == <<"alternate", "paste">>
=============================================================================
