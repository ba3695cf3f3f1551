---------------------------- MODULE MCScreens -----------------------------
EXTENDS Screens, TLC

MCProjects == <<"alpha", "uncategorized">>

\* All models, those that a query finds, and a query that finds none.
MCListing == ("" :> <<"m1", "m2">>) @@ ("one" :> <<"m1">>) @@ ("none" :> <<>>)

\* Two commands of which one begins like the other, and one that does not.
MCCommands ==
    <<[name |-> <<"/", "c">>, arg |-> TRUE], [name |-> <<"/", "c", "o">>, arg |-> FALSE],
      [name |-> <<"/", "o">>, arg |-> FALSE]>>

MCAlias == <<"/", "x">>

Uttered(w) == [tag |-> FALSE, of |-> w]
Labelled(language) == [tag |-> TRUE, of |-> language]

\* With no tag, with one that is closed, and with one nobody speaks.
MCReplies ==
    {<<Uttered("a")>>, <<Labelled("es"), Uttered("b"), Labelled(""), Uttered("a")>>,
     <<Labelled("xx"), Uttered("b")>>}
=============================================================================
