---------------------------- MODULE SessionStore ----------------------------
(***************************************************************************)
(* The session database (db.rs).  Every operation is one transaction, or   *)
(* one read; a save reads before it writes, and SQLite refuses it if       *)
(* another process committed in between, so a save is one step that may    *)
(* fail.                                                                   *)
(*                                                                         *)
(* A message is its number and how it reads.  An archive event has the     *)
(* number of the message it was recorded for, its id.                      *)
(***************************************************************************)
EXTENDS Naturals, FiniteSets, SequencesExt

CONSTANTS
    Sessions,
    OldMessages,    \* the messages a session of an older build was saved with
    OldArchives     \* the archive beside them, if that build kept one

VARIABLE db     \* per session: its row, and its rows in the other tables

\* Text that is no JSON is broken; JSON that is no message is alien.
Forms == {"plain", "summary", "broken", "alien", "placeholder"}
Damaged == {"broken", "alien"}

Message(n, form) == [n |-> n, form |-> form]
Event(id, m)     == [id |-> id, m |-> m]

Messages == [n: Nat, form: Forms]
Events   == [id: Nat, m: Messages]
Rows ==
    [life: {"never", "live", "gone"}, messages: Seq(Messages),
     archive: Seq(Events), unreadable: SUBSET Nat]

ASSUME StoreAssumption ==
    /\ DOMAIN OldMessages \subseteq Sessions /\ IsFiniteSet(DOMAIN OldMessages)
    /\ OldArchives \in [DOMAIN OldMessages -> Seq(Events)]
    /\ \A s \in DOMAIN OldMessages : OldMessages[s] \in Seq(Messages)

NoRow == [life |-> "never", messages |-> <<>>, archive |-> <<>>, unreadable |-> {}]

Live(s) == db[s].life = "live"

Numbers(seq)  == {seq[i].n : i \in DOMAIN seq}
Archived(seq) == {seq[i].m.n : i \in DOMAIN seq}
Ids(seq)      == {seq[i].id : i \in DOMAIN seq}

\* The numbers of the messages of some forms.
Having(forms, messages) ==
    {messages[i].n : i \in {k \in DOMAIN messages : messages[k].form \in forms}}

\* What a sequence has at some of its places, in its order.
Picked(seq, places) ==
    [k \in 1..Cardinality(places) |->
        seq[CHOOSE i \in places : Cardinality({j \in places : j <= i}) = k]]

Replaced(m, forms) == IF m.form \in forms THEN Message(m.n, "placeholder") ELSE m

\* What get_messages_with_recovery returns of them.
ReadMessages(messages) == [i \in DOMAIN messages |-> Replaced(messages[i], Damaged)]

-----------------------------------------------------------------------------

\* The events a conversation gets that has none.
Recorded(messages) == [i \in DOMAIN messages |-> Event(messages[i].n, messages[i])]

\* init_schema on a database of an older build: what is broken is put aside.
Migrated(messages, archive) ==
    [life |-> "live", messages |-> messages,
     archive |-> IF archive = <<>> THEN Recorded([i \in DOMAIN messages |-> Replaced(messages[i], {"broken"})])
                ELSE archive,
     unreadable |-> Having({"broken"}, messages)]

StoreInit ==
    db = [s \in Sessions |-> IF s \in DOMAIN OldMessages
                             THEN Migrated(OldMessages[s], OldArchives[s]) ELSE NoRow]

\* create_session_with_binding: the id is new.
CreateSession(s) ==
    /\ db[s].life = "never"
    /\ db' = [db EXCEPT ![s].life = "live"]

\* delete_session: the other tables cascade.
DeleteSession(s) ==
    db' = [db EXCEPT ![s] = [NoRow EXCEPT !.life = "gone"]]

\* (mutant) puts nothing aside
ReadMessagesOnly(s) == UNCHANGED db

\* get_messages_with_recovery: originals are put aside.
ReadMessagesOf(s) ==
    db' = [db EXCEPT ![s].unreadable = @ \union Having(Damaged, db[s].messages)]

\* get_archive: an unreadable event stays where it is.
ReadArchive(s) ==
    LET archive == db[s].archive
    IN  Picked(archive, {i \in DOMAIN archive : archive[i].m.form \notin Damaged})

\* save_conversation is rolled back if the session is gone, or an event the
\* archive has is not what it was.
Accepts(s, archive) ==
    /\ Live(s)
    /\ \A i \in DOMAIN archive, k \in DOMAIN db[s].archive :
          archive[i].id = db[s].archive[k].id => archive[i].m = db[s].archive[k].m

\* (mutant) writes the archive the process has
SaveReplacing(s, messages, archive) ==
    /\ Accepts(s, archive)
    /\ db' = [db EXCEPT ![s].messages = messages, ![s].archive = archive]

\* Events the archive has not are inserted; of the messages, the rows that are
\* the same from the start are kept, and the rest replaced.
SaveConversation(s, messages, archive) ==
    LET new == {i \in DOMAIN archive : archive[i].id \notin Ids(db[s].archive)}
    IN  /\ Accepts(s, archive)
        /\ db' = [db EXCEPT ![s].messages = messages,
                            ![s].archive = @ \o Picked(archive, new)]
=============================================================================
