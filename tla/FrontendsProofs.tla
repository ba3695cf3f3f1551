-------------------------- MODULE FrontendsProofs --------------------------
(***************************************************************************)
(* Theorems about Frontends and the SessionStore below it, for any number  *)
(* of processes and sessions, and for any database of an older build.      *)
(***************************************************************************)
EXTENDS Frontends, FiniteSetTheorems, SequenceTheorems, WellFoundedInduction, TLAPS

-----------------------------------------------------------------------------
(* What is picked from a sequence is a sequence, and all that was picked.  *)

\* A set of naturals that is not empty has a least member.
LEMMA LeastNumber ==
  ASSUME NEW T \in SUBSET Nat, T # {}
  PROVE  \E x \in T : \A y \in T : x <= y
<1> DEFINE R == OpToRel(<, Nat)
<1>1. IsWellFoundedOn(R, Nat)
  BY NatLessThanWellFounded
<1>2. \E x \in T : \A y \in T : ~(<<y, x>> \in R)
  <2> HIDE DEF R
  <2> QED BY <1>1, WFMin
<1>3. \A x, y \in Nat : y < x => <<y, x>> \in R
  BY DEF OpToRel
<1>4. \A x, y \in Nat : ~(y < x) => x <= y
  OBVIOUS
<1> HIDE DEF R
<1> QED BY <1>2, <1>3, <1>4

Upto(places, i) == {j \in places : j <= i}
Rank(places, i) == Cardinality(Upto(places, i))

LEMMA RankGrows ==
  ASSUME NEW n \in Nat, NEW places \in SUBSET (1..n), NEW i \in Nat
  PROVE  /\ IsFiniteSet(places) /\ Cardinality(places) \in Nat
         /\ IsFiniteSet(Upto(places, i)) /\ Rank(places, i) \in 0..Cardinality(places)
         /\ Rank(places, i + 1) =
              IF i + 1 \in places THEN Rank(places, i) + 1 ELSE Rank(places, i)
<1>0. \A j \in places : j \in Nat /\ 1 <= j /\ j <= n
  OBVIOUS
<1>1. IsFiniteSet(places)
  <2>1. IsFiniteSet(1..n)
    BY FS_Interval
  <2> QED BY <2>1, FS_Subset
<1>2. Upto(places, i) \in SUBSET places
  BY DEF Upto
<1>3. IsFiniteSet(Upto(places, i)) /\ Cardinality(Upto(places, i)) <= Cardinality(places)
  BY <1>1, <1>2, FS_Subset
<1>4. Cardinality(places) \in Nat /\ Rank(places, i) \in Nat
  BY <1>1, <1>3, FS_CardinalityType DEF Rank
<1>5. i + 1 \notin Upto(places, i)
  BY DEF Upto
<1>8. Rank(places, i) \in 0..Cardinality(places)
  BY <1>3, <1>4 DEF Rank
<1>6. CASE i + 1 \in places
  <2>1. Upto(places, i + 1) = Upto(places, i) \cup {i + 1}
    <3>1. \A j \in places : j <= i + 1 <=> (j <= i \/ j = i + 1)
      BY <1>0
    <3> QED BY <1>6, <3>1, Zenon DEF Upto
  <2>2. Cardinality(Upto(places, i) \cup {i + 1}) = Cardinality(Upto(places, i)) + 1
    BY <1>3, <1>5, FS_AddElement
  <2>3. Rank(places, i + 1) = Rank(places, i) + 1
    BY <2>1, <2>2 DEF Rank
  <2> QED BY <1>1, <1>3, <1>4, <1>6, <2>3, <1>8
<1>7. CASE i + 1 \notin places
  <2>1. Upto(places, i + 1) = Upto(places, i)
    <3>1. \A j \in places : j <= i + 1 <=> j <= i
      BY <1>0, <1>7
    <3> QED BY <3>1, Zenon DEF Upto
  <2>2. Rank(places, i + 1) = Rank(places, i)
    BY <2>1 DEF Rank
  <2> QED BY <1>1, <1>3, <1>4, <1>7, <2>2, <1>8
<1> QED BY <1>6, <1>7

\* Each place has a rank of its own.
LEMMA RankIsInjective ==
  ASSUME NEW n \in Nat, NEW places \in SUBSET (1..n), NEW i \in places, NEW j \in places,
         Rank(places, i) = Rank(places, j)
  PROVE  i = j
<1>0. \A k \in places : k \in Nat /\ 1 <= k /\ k <= n
  OBVIOUS
<1>1. ASSUME NEW a \in places, NEW b \in places, a < b
      PROVE  Rank(places, a) < Rank(places, b)
  <2>1. a \in Nat /\ b \in Nat /\ b - 1 \in Nat /\ a <= b - 1 /\ (b - 1) + 1 = b
    BY <1>0, <1>1
  <2>2. /\ Rank(places, b) = Rank(places, b - 1) + 1
        /\ IsFiniteSet(Upto(places, b - 1)) /\ Rank(places, b - 1) \in Nat
    <3>1. Cardinality(places) \in Nat /\ Rank(places, b - 1) \in 0..Cardinality(places)
      BY <2>1, RankGrows
    <3>2. IsFiniteSet(Upto(places, b - 1))
      BY <2>1, RankGrows
    <3>3. Rank(places, (b - 1) + 1) = IF (b - 1) + 1 \in places THEN Rank(places, b - 1) + 1
                                      ELSE Rank(places, b - 1)
      BY <2>1, RankGrows
    <3> QED BY <2>1, <3>1, <3>2, <3>3
  <2>3. Upto(places, a) \in SUBSET Upto(places, b - 1)
    <3>1. \A k \in places : k <= a => k <= b - 1
      BY <1>0, <2>1
    <3> QED BY <3>1, Zenon DEF Upto
  <2>4. Rank(places, a) <= Rank(places, b - 1)
    BY <2>2, <2>3, FS_Subset DEF Rank
  <2>5. Rank(places, a) \in Nat
    <3>1. Cardinality(places) \in Nat /\ Rank(places, a) \in 0..Cardinality(places)
      BY <2>1, RankGrows
    <3> QED BY <3>1
  <2> QED BY <2>2, <2>4, <2>5
<1>2. Rank(places, i) \in Nat /\ Rank(places, j) \in Nat
  <2>1. i \in Nat /\ j \in Nat /\ Cardinality(places) \in Nat
    BY <1>0, RankGrows
  <2>2. Rank(places, i) \in 0..Cardinality(places) /\ Rank(places, j) \in 0..Cardinality(places)
    BY <2>1, RankGrows
  <2> QED BY <2>1, <2>2
<1>3. i < j \/ j < i \/ i = j
  BY <1>0
<1> QED BY <1>1, <1>2, <1>3

LEMMA RankIsOnto ==
  ASSUME NEW n \in Nat, NEW places \in SUBSET (1..n), NEW k \in 1..Cardinality(places)
  PROVE  \E i \in places : Rank(places, i) = k
<1> DEFINE T == {i \in Nat : Rank(places, i) >= k}
<1>0. Cardinality(places) \in Nat
  BY RankGrows
<1>a. \A j \in places : j \in Nat /\ 1 <= j /\ j <= n
  OBVIOUS
<1>1. n \in T
  <2>1. Upto(places, n) = places
    BY <1>a DEF Upto
  <2> QED BY <1>0, <2>1 DEF Rank
<1>2. PICK m \in T : \A y \in T : m <= y
  <2> HIDE DEF T
  <2>1. T \in SUBSET Nat
    BY DEF T
  <2> QED BY <1>1, <2>1, LeastNumber
<1>3. m # 0
  <2>1. Upto(places, 0) = {}
    <3>1. \A j \in places : ~(j <= 0)
      BY <1>a
    <3> QED BY <3>1, Zenon DEF Upto
  <2> QED BY <2>1, FS_EmptySet DEF Rank
<1>4. m - 1 \in Nat /\ (m - 1) + 1 = m /\ m - 1 \notin T
  BY <1>2, <1>3
<1>5. /\ Rank(places, m - 1) \in Nat /\ Rank(places, m) \in Nat
      /\ Rank(places, m) = IF m \in places THEN Rank(places, m - 1) + 1
                           ELSE Rank(places, m - 1)
  <2>1. /\ Rank(places, m - 1) \in 0..Cardinality(places)
        /\ Rank(places, (m - 1) + 1) = IF (m - 1) + 1 \in places THEN Rank(places, m - 1) + 1
                                       ELSE Rank(places, m - 1)
    BY <1>4, RankGrows
  <2>2. Rank(places, m) \in 0..Cardinality(places)
    BY RankGrows
  <2> QED BY <1>0, <1>4, <2>1, <2>2
<1>6. Rank(places, m - 1) < k /\ k <= Rank(places, m)
  BY <1>4, <1>5
<1>7. m \in places /\ Rank(places, m) = k
  BY <1>0, <1>5, <1>6
<1> QED BY <1>7

LEMMA PickedIsSome ==
  ASSUME NEW E, NEW seq \in Seq(E), NEW places \in SUBSET (DOMAIN seq)
  PROVE  /\ Picked(seq, places) \in Seq(E)
         /\ \A k \in DOMAIN Picked(seq, places) :
              \E i \in places : Picked(seq, places)[k] = seq[i]
         /\ \A i \in places :
              \E k \in DOMAIN Picked(seq, places) : Picked(seq, places)[k] = seq[i]
<1> DEFINE c == Cardinality(places)
           at(k) == CHOOSE i \in places : Cardinality({j \in places : j <= i}) = k
<1>1. Len(seq) \in Nat /\ DOMAIN seq = 1..Len(seq) /\ places \in SUBSET (1..Len(seq))
  BY LenProperties
<1>2. c \in Nat
  BY <1>1, RankGrows
<1>3. Picked(seq, places) = [k \in 1..c |-> seq[at(k)]]
  BY DEF Picked
<1>4. ASSUME NEW k \in 1..c
      PROVE  at(k) \in places /\ Rank(places, at(k)) = k
  <2>1. \E i \in places : Cardinality({j \in places : j <= i}) = k
    BY <1>1, RankIsOnto DEF Rank, Upto
  <2> QED BY <2>1 DEF Rank, Upto
<1> HIDE DEF c, at
<1>5. \A k \in 1..c : seq[at(k)] \in E
  BY <1>1, <1>4, ElementOfSeq
<1>6. Picked(seq, places) \in Seq(E)
  BY <1>2, <1>3, <1>5
<1>7. \A k \in 1..c : \E i \in places : Picked(seq, places)[k] = seq[i]
  BY <1>3, <1>4
<1>8. ASSUME NEW i \in places
      PROVE  \E k \in 1..c : Picked(seq, places)[k] = seq[i]
  <2>1. Rank(places, i) \in 1..c
    <3>1. Rank(places, i) \in 0..c /\ IsFiniteSet(Upto(places, i))
      <4>1. i \in Nat
        BY <1>1
      <4> QED BY <1>1, <4>1, RankGrows DEF c
    <3>2. Upto(places, i) # {}
      BY <1>1 DEF Upto
    <3>3. Rank(places, i) # 0
      BY <3>1, <3>2, FS_EmptySet DEF Rank
    <3> QED BY <1>2, <3>1, <3>3
  <2>2. at(Rank(places, i)) = i
    BY <1>1, <1>4, <2>1, RankIsInjective
  <2> QED BY <1>3, <2>1, <2>2
<1>9. DOMAIN Picked(seq, places) = 1..c
  BY <1>3
<1> QED BY <1>6, <1>7, <1>8, <1>9

-----------------------------------------------------------------------------
(* What the operations of the store do.                                    *)

LEMMA ArchivedOfBoth ==
  ASSUME NEW a \in Seq(Events), NEW b \in Seq(Events)
  PROVE  /\ a \o b \in Seq(Events)
         /\ Archived(a \o b) = Archived(a) \union Archived(b)
         /\ \A k \in DOMAIN (a \o b) : (\E i \in DOMAIN a : (a \o b)[k] = a[i])
                                       \/ (\E i \in DOMAIN b : (a \o b)[k] = b[i])
<1>1. /\ a \o b \in Seq(Events) /\ Len(a) \in Nat /\ Len(b) \in Nat
      /\ Len(a \o b) = Len(a) + Len(b)
      /\ DOMAIN (a \o b) = 1..(Len(a) + Len(b)) /\ DOMAIN a = 1..Len(a) /\ DOMAIN b = 1..Len(b)
      /\ \A i \in 1..(Len(a) + Len(b)) :
           (a \o b)[i] = IF i <= Len(a) THEN a[i] ELSE b[i - Len(a)]
  BY ConcatProperties, LenProperties
<1>2. \A k \in DOMAIN (a \o b) : (\E i \in DOMAIN a : (a \o b)[k] = a[i])
                                 \/ (\E i \in DOMAIN b : (a \o b)[k] = b[i])
  <2> SUFFICES ASSUME NEW k \in 1..(Len(a) + Len(b))
               PROVE  (\E i \in DOMAIN a : (a \o b)[k] = a[i])
                      \/ (\E i \in DOMAIN b : (a \o b)[k] = b[i])
    BY <1>1
  <2>1. CASE k <= Len(a)
    BY <1>1, <2>1
  <2>2. CASE k > Len(a)
    <3>1. k - Len(a) \in 1..Len(b)
      BY <1>1, <2>2
    <3>2. (a \o b)[k] = b[k - Len(a)]
      BY <1>1, <2>2
    <3> QED BY <1>1, <3>1, <3>2
  <2> QED BY <1>1, <2>1, <2>2
<1>3. \A i \in DOMAIN a : \E k \in DOMAIN (a \o b) : (a \o b)[k] = a[i]
  BY <1>1
<1>4. \A i \in DOMAIN b : \E k \in DOMAIN (a \o b) : (a \o b)[k] = b[i]
  <2> SUFFICES ASSUME NEW i \in 1..Len(b) PROVE \E k \in DOMAIN (a \o b) : (a \o b)[k] = b[i]
    BY <1>1
  <2>1. i + Len(a) \in 1..(Len(a) + Len(b)) /\ ~(i + Len(a) <= Len(a))
        /\ (i + Len(a)) - Len(a) = i
    BY <1>1
  <2>2. (a \o b)[i + Len(a)] = b[i]
    BY <1>1, <2>1
  <2> QED BY <1>1, <2>1, <2>2
<1>5. Archived(a \o b) = Archived(a) \union Archived(b)
  BY <1>2, <1>3, <1>4 DEF Archived
<1> QED BY <1>1, <1>2, <1>5

StoreTyped == db \in [Sessions -> Rows]

\* What is there of every row, and of the rows beside the one at hand.
LEMMA RowFields ==
  ASSUME StoreTyped, NEW s \in Sessions
  PROVE  /\ db[s] \in Rows
         /\ db[s].life \in {"never", "live", "gone"} /\ db[s].messages \in Seq(Messages)
         /\ db[s].archive \in Seq(Events) /\ db[s].unreadable \in SUBSET Nat
BY DEF StoreTyped, Rows

LEMMA Creating ==
  ASSUME StoreTyped, NEW s \in Sessions, CreateSession(s)
  PROVE  /\ StoreTyped'
         /\ \A t \in Sessions \ {s} : db'[t] = db[t]
         /\ db[s].life = "never" /\ db'[s].life = "live"
         /\ db'[s].messages = db[s].messages /\ db'[s].archive = db[s].archive
         /\ db'[s].unreadable = db[s].unreadable
<1>1. db[s] \in Rows /\ db' = [db EXCEPT ![s].life = "live"]
  BY RowFields DEF CreateSession
<1>2. db'[s] = [db[s] EXCEPT !.life = "live"] /\ \A t \in Sessions \ {s} : db'[t] = db[t]
  BY <1>1 DEF StoreTyped
<1>3. db'[s] \in Rows
  BY <1>1, <1>2 DEF Rows
<1>4. StoreTyped'
  BY <1>1, <1>2, <1>3 DEF StoreTyped
<1> QED BY <1>1, <1>2, <1>4 DEF CreateSession, Rows

LEMMA Deleting ==
  ASSUME StoreTyped, NEW s \in Sessions, DeleteSession(s)
  PROVE  /\ StoreTyped'
         /\ \A t \in Sessions \ {s} : db'[t] = db[t]
         /\ db'[s].life = "gone" /\ db'[s].messages = <<>> /\ db'[s].archive = <<>>
<1>1. db' = [db EXCEPT ![s] = [NoRow EXCEPT !.life = "gone"]]
  BY DEF DeleteSession
<1>2. [NoRow EXCEPT !.life = "gone"] =
        [life |-> "gone", messages |-> <<>>, archive |-> <<>>, unreadable |-> {}]
  BY DEF NoRow
<1>3. [NoRow EXCEPT !.life = "gone"] \in Rows
  <2>1. <<>> \in Seq(Messages) /\ <<>> \in Seq(Events) /\ {} \in SUBSET Nat
    BY EmptySeq
  <2> QED BY <1>2, <2>1 DEF Rows
<1> QED BY <1>1, <1>2, <1>3 DEF StoreTyped

LEMMA Reading ==
  ASSUME StoreTyped, NEW s \in Sessions, ReadMessagesOf(s)
  PROVE  /\ StoreTyped'
         /\ \A t \in Sessions \ {s} : db'[t] = db[t]
         /\ db'[s].life = db[s].life /\ db'[s].messages = db[s].messages
         /\ db'[s].archive = db[s].archive
         /\ db'[s].unreadable = db[s].unreadable \union Having(Damaged, db[s].messages)
<1>1. db[s] \in Rows
      /\ db' = [db EXCEPT ![s].unreadable = @ \union Having(Damaged, db[s].messages)]
  BY RowFields DEF ReadMessagesOf
<1>2. db[s].messages \in Seq(Messages)
  BY RowFields
<1>3. Having(Damaged, db[s].messages) \in SUBSET Nat
  <2>1. \A k \in DOMAIN db[s].messages : db[s].messages[k] \in Messages
    <3> DEFINE seq == db[s].messages
    <3>1. seq \in Seq(Messages)
      BY <1>2
    <3> HIDE DEF seq
    <3>2. DOMAIN seq = 1..Len(seq)
      BY <3>1, LenProperties
    <3>3. \A k \in DOMAIN seq : seq[k] \in Messages
      BY <3>1, <3>2, ElementOfSeq
    <3> QED BY <3>3 DEF seq
  <2>2. \A k \in DOMAIN db[s].messages : db[s].messages[k].n \in Nat
    BY <2>1 DEF Messages
  <2> QED BY <2>2 DEF Having
<1> DEFINE new == db[s].unreadable \union Having(Damaged, db[s].messages)
<1>4. new \in SUBSET Nat
  BY <1>1, <1>3 DEF Rows
<1>5. db' = [db EXCEPT ![s].unreadable = new]
  BY <1>1
<1> HIDE DEF new
<1>6. db'[s] = [db[s] EXCEPT !.unreadable = new] /\ \A t \in Sessions \ {s} : db'[t] = db[t]
  BY <1>5 DEF StoreTyped
<1>7. db'[s] \in Rows
  BY <1>1, <1>4, <1>6 DEF Rows
<1>8. StoreTyped'
  BY <1>5, <1>6, <1>7 DEF StoreTyped
<1>9. db'[s].unreadable = new
  BY <1>1, <1>6 DEF Rows
<1> QED BY <1>1, <1>6, <1>8, <1>9 DEF Rows, new

LEMMA Saving ==
  ASSUME StoreTyped, NEW s \in Sessions, NEW messages \in Seq(Messages),
         NEW archive \in Seq(Events), SaveConversation(s, messages, archive)
  PROVE  /\ StoreTyped'
         /\ \A t \in Sessions \ {s} : db'[t] = db[t]
         /\ db[s].life = "live" /\ db'[s].life = "live"
         /\ db'[s].messages = messages /\ db'[s].unreadable = db[s].unreadable
         /\ \E new \in Seq(Events) :
              /\ db'[s].archive = db[s].archive \o new
              /\ \A k \in DOMAIN new : \E i \in DOMAIN archive : new[k] = archive[i]
         /\ Archived(db'[s].archive) = Archived(db[s].archive) \union Archived(archive)
<1> DEFINE old == db[s].archive
           places == {i \in DOMAIN archive : archive[i].id \notin Ids(old)}
           new == Picked(archive, places)
<1>1. db[s] \in Rows /\ old \in Seq(Events)
  BY RowFields
<1>2. /\ new \in Seq(Events)
      /\ \A k \in DOMAIN new : \E i \in places : new[k] = archive[i]
      /\ \A i \in places : \E k \in DOMAIN new : new[k] = archive[i]
  <2>1. places \in SUBSET (DOMAIN archive)
    OBVIOUS
  <2> HIDE DEF places
  <2> QED BY <2>1, PickedIsSome
<1>3. /\ Live(s)
      /\ \A i \in DOMAIN archive, k \in DOMAIN old :
           archive[i].id = old[k].id => archive[i].m = old[k].m
      /\ db' = [db EXCEPT ![s].messages = messages, ![s].archive = old \o new]
  BY DEF SaveConversation, Accepts
<1>4. Archived(archive) \subseteq Archived(old) \union Archived(new)
  <2> SUFFICES ASSUME NEW i \in DOMAIN archive
               PROVE  archive[i].m.n \in Archived(old) \union Archived(new)
    BY DEF Archived
  <2>1. CASE i \in places
    BY <1>2, <2>1 DEF Archived
  <2>2. CASE i \notin places
    BY <1>3, <2>2 DEF Ids, Archived
  <2> QED BY <2>1, <2>2
<1>5. Archived(new) \subseteq Archived(archive)
  BY <1>2 DEF Archived
<1>6. old \o new \in Seq(Events) /\ Archived(old \o new) = Archived(old) \union Archived(new)
  <2> HIDE DEF old, new
  <2> QED BY <1>1, <1>2, ArchivedOfBoth
<1>7. \A k \in DOMAIN new : \E i \in DOMAIN archive : new[k] = archive[i]
  BY <1>2
<1> HIDE DEF places, new
<1> DEFINE grown == old \o new
<1> HIDE DEF grown
<1>8. db' = [db EXCEPT ![s].messages = messages, ![s].archive = grown]
      /\ grown \in Seq(Events)
  BY <1>3, <1>6 DEF grown
<1>9. db'[s] = [db[s] EXCEPT !.messages = messages, !.archive = grown]
      /\ \A t \in Sessions \ {s} : db'[t] = db[t]
  BY <1>1, <1>8 DEF StoreTyped, Rows
<1>10. [db[s] EXCEPT !.messages = messages] \in Rows
  BY <1>1 DEF Rows
<1>11. [[db[s] EXCEPT !.messages = messages] EXCEPT !.archive = grown] \in Rows
  BY <1>8, <1>10 DEF Rows
<1>12. db'[s] \in Rows
  BY <1>9, <1>11
<1>13. StoreTyped'
  BY <1>8, <1>9, <1>12 DEF StoreTyped
<1>14. /\ db'[s].life = db[s].life /\ db'[s].messages = messages
       /\ db'[s].unreadable = db[s].unreadable /\ db'[s].archive = grown
  BY <1>1, <1>9 DEF Rows
<1>15. \E v \in Seq(Events) : /\ db'[s].archive = db[s].archive \o v
                             /\ \A k \in DOMAIN v : \E i \in DOMAIN archive : v[k] = archive[i]
  BY <1>2, <1>7, <1>14 DEF grown, old
<1>16. Archived(db'[s].archive) = Archived(db[s].archive) \union Archived(archive)
  BY <1>4, <1>5, <1>6, <1>14 DEF grown, old
<1> QED BY <1>3, <1>9, <1>13, <1>14, <1>15, <1>16 DEF Live

\* get_archive gives what can be read of the archive.
LEMMA ReadingArchive ==
  ASSUME StoreTyped, NEW s \in Sessions
  PROVE  /\ ReadArchive(s) \in Seq(Events)
         /\ \A k \in DOMAIN ReadArchive(s) : ReadArchive(s)[k].m.form \notin Damaged
         /\ Archived(ReadArchive(s)) \subseteq Archived(db[s].archive)
         /\ \A i \in DOMAIN db[s].archive :
              db[s].archive[i].m.form \notin Damaged
                => db[s].archive[i].m.n \in Archived(ReadArchive(s))
<1> DEFINE archive == db[s].archive
           places == {i \in DOMAIN archive : archive[i].m.form \notin Damaged}
<1>1. archive \in Seq(Events)
  BY RowFields
<1>2. ReadArchive(s) = Picked(archive, places)
  BY DEF ReadArchive
<1>3. /\ Picked(archive, places) \in Seq(Events)
      /\ \A k \in DOMAIN Picked(archive, places) :
           \E i \in places : Picked(archive, places)[k] = archive[i]
      /\ \A i \in places :
           \E k \in DOMAIN Picked(archive, places) : Picked(archive, places)[k] = archive[i]
  <2>1. places \in SUBSET (DOMAIN archive)
    OBVIOUS
  <2> HIDE DEF places, archive
  <2> QED BY <1>1, <2>1, PickedIsSome
<1> DEFINE got == ReadArchive(s)
<1>4. /\ got \in Seq(Events)
      /\ \A k \in DOMAIN got : \E i \in places : got[k] = archive[i]
      /\ \A i \in places : \E k \in DOMAIN got : got[k] = archive[i]
  BY <1>2, <1>3
<1> HIDE DEF got
<1>5. \A k \in DOMAIN got : got[k].m.form \notin Damaged
  BY <1>4
<1>6. Archived(got) \subseteq Archived(archive)
  BY <1>4 DEF Archived
<1>7. \A i \in DOMAIN archive : archive[i].m.form \notin Damaged => archive[i].m.n \in Archived(got)
  BY <1>4 DEF Archived
<1> QED BY <1>4, <1>5, <1>6, <1>7 DEF got

-----------------------------------------------------------------------------
(* Where a process can be, and whose conversation it then has.             *)

\* A screen has an active session from the moment its chat is run until its
\* jobs are shut down.  A program that ends in between has that session's
\* conversation, unless it failed to load it.
ScreenPlaced(r) ==
    /\ r.at # "start"
    /\ r.at \in {"home", "opening", "preparing", "switching"} => r.active = NoSession
    /\ r.at \in {"opening", "preparing", "switching", "loading", "loading archive", "chat", "turn"}
          => r.session \in Sessions
    /\ r.at \in {"loading", "loading archive", "chat", "turn"} => r.active = r.session
    /\ r.at = "leaving" =>
          /\ r.of = r.active /\ r.active \in Sessions /\ r.engine
          /\ r.next \in {"opening", "switching"} => r.session \in Sessions
    /\ r.at = "ending" => r.active = NoSession \/ r.blind \/ (r.of = r.active /\ r.engine)
    /\ r.blind => r.at = "ending" /\ r.active # NoSession

LinePlaced(r) ==
    /\ r.at \in {"start", "loading", "loading archive", "chat", "turn", "exited"}
    /\ r.at \in {"loading", "loading archive", "chat", "turn"} => r.session \in Sessions
    /\ ~r.signalled /\ ~r.blind

PlacedAt(p, r) ==
    /\ p \in Screens => ScreenPlaced(r)
    /\ p \in Lines => LinePlaced(r)
    /\ r.at \in {"loading archive", "chat", "turn"} => r.engine /\ r.of = r.session
    /\ r.at = "exited" => r.of = NoSession

Good(p, r) == r \in Process /\ PlacedAt(p, r)

AllPlaced == proc \in [Processes -> Process] /\ \A p \in Processes : PlacedAt(p, proc[p])

LEMMA BeginsWell ==
  ASSUME NEW p \in Processes
  PROVE  Good(p, Begin(p)) /\ Good(p, Gone(p))
<1>1. <<>> \in Seq(Messages) /\ <<>> \in Seq(Events)
  BY EmptySeq
<1>2. Screens \intersect Lines = {} /\ p \in Screens \union Lines
  BY FrontendsAssumption DEF Processes
<1>3. Begin(p) \in Process /\ Gone(p) \in Process
  BY <1>1 DEF Begin, Gone, Process, Places
<1>4. PlacedAt(p, Begin(p))
  BY <1>2 DEF Begin, PlacedAt, ScreenPlaced, LinePlaced
<1>5. PlacedAt(p, Gone(p))
  BY <1>2 DEF Gone, Begin, PlacedAt, ScreenPlaced, LinePlaced
<1> QED BY <1>3, <1>4, <1>5 DEF Good

LEMMA OneMoves ==
  ASSUME AllPlaced, NEW p \in Processes, NEW q, Good(p, q), Moves(p, q)
  PROVE  /\ AllPlaced' /\ proc'[p] = q
         /\ \A o \in Processes \ {p} : proc'[o] = proc[o]
<1>1. proc' = [proc EXCEPT ![p] = q]
  BY DEF Moves
<1> QED BY <1>1 DEF AllPlaced, Good

\* The turns a record takes on its way.
LEMMA TurnsAtHome ==
  ASSUME NEW p \in Processes, NEW r, Good(p, r)
  PROVE  /\ \A s \in Sessions :
              r.at = "home" => Good(p, [r EXCEPT !.at = "opening", !.session = s])
         /\ r.at = "opening" => Good(p, [r EXCEPT !.at = "ending"])
         /\ r.at = "opening" => Good(p, [r EXCEPT !.at = "home", !.session = NoSession])
         /\ r.at = "opening" => Good(p, [r EXCEPT !.at = "preparing"])
         /\ r.at = "preparing" => Good(p, [r EXCEPT !.at = "ending"])
         /\ r.at = "preparing" => Good(p, [r EXCEPT !.at = "loading", !.active = r.session])
         /\ r.at = "switching" => Good(p, [r EXCEPT !.at = "home", !.session = NoSession])
         /\ r.at = "switching" => Good(p, [r EXCEPT !.at = "ending"])
<1>1. r \in Process /\ PlacedAt(p, r) /\ p \in Screens \union Lines
  BY DEF Good, Processes
<1>2. CASE r.at = "home"
  BY <1>1, <1>2 DEF Good, Process, Places, PlacedAt, ScreenPlaced, LinePlaced
<1>3. CASE r.at = "opening"
  BY <1>1, <1>3 DEF Good, Process, Places, PlacedAt, ScreenPlaced, LinePlaced
<1>4. CASE r.at = "preparing"
  BY <1>1, <1>4 DEF Good, Process, Places, PlacedAt, ScreenPlaced, LinePlaced
<1>5. CASE r.at = "switching"
  BY <1>1, <1>5 DEF Good, Process, Places, PlacedAt, ScreenPlaced, LinePlaced
<1> QED BY <1>2, <1>3, <1>4, <1>5

LEMMA TurnsWithNewEngine ==
  ASSUME NEW p \in Processes, NEW r, Good(p, r)
  PROVE  /\ r.at = "opening" => Good(p, [NewEngine(r) EXCEPT !.at = "preparing"])
         /\ r.at = "switching" => Good(p, [NewEngine(r) EXCEPT !.at = "opening"])
<1>1. r \in Process /\ PlacedAt(p, r) /\ p \in Screens \union Lines
  BY DEF Good, Processes
<1>2. <<>> \in Seq(Messages) /\ <<>> \in Seq(Events)
  BY EmptySeq
<1> DEFINE e == NewEngine(r)
<1>3. /\ e \in Process /\ e.at = r.at /\ e.next = r.next /\ e.session = r.session
      /\ e.active = r.active /\ e.blind = r.blind /\ e.signalled = r.signalled
      /\ e.engine
  BY <1>1, <1>2 DEF NewEngine, Process
<1> HIDE DEF e
<1>4. CASE r.at = "opening"
  BY <1>1, <1>3, <1>4 DEF e, Good, Process, Places, PlacedAt, ScreenPlaced, LinePlaced
<1>5. CASE r.at = "switching"
  BY <1>1, <1>3, <1>5 DEF e, Good, Process, Places, PlacedAt, ScreenPlaced, LinePlaced
<1> QED BY <1>4, <1>5 DEF e

LEMMA TurnsOfLoading ==
  ASSUME NEW p \in Processes, NEW r, Good(p, r),
         NEW messages \in Seq(Messages), NEW archive \in Seq(Events)
  PROVE  /\ \A s \in Sessions : p \in Lines /\ r.at \in {"start", "chat"}
              => Good(p, [r EXCEPT !.at = "loading", !.session = s])
         /\ r.at = "loading"
              => Good(p, [r EXCEPT !.at = "loading archive", !.engine = TRUE,
                                   !.of = r.session, !.messages = messages, !.archive = archive])
         /\ r.at = "loading archive"
              => Good(p, [r EXCEPT !.at = "chat", !.unsaved = FALSE, !.archive = archive])
         /\ p \in Screens /\ r.at \in {"loading", "loading archive"}
              => Good(p, [r EXCEPT !.at = "ending", !.blind = TRUE])
<1>1. r \in Process /\ PlacedAt(p, r) /\ p \in Screens \union Lines
  BY DEF Good, Processes
<1>2. Screens \intersect Lines = {} /\ NoSession \notin Sessions
  BY FrontendsAssumption
<1>3. ASSUME NEW s \in Sessions, p \in Lines, r.at \in {"start", "chat"}
      PROVE  Good(p, [r EXCEPT !.at = "loading", !.session = s])
  BY <1>1, <1>2, <1>3 DEF Good, Process, Places, PlacedAt, ScreenPlaced, LinePlaced
<1>4. ASSUME r.at = "loading"
      PROVE  Good(p, [r EXCEPT !.at = "loading archive", !.engine = TRUE, !.of = r.session,
                               !.messages = messages, !.archive = archive])
  <2> DEFINE a == [r EXCEPT !.messages = messages, !.archive = archive]
  <2>1. /\ a \in Process /\ a.at = r.at /\ a.next = r.next /\ a.session = r.session
        /\ a.active = r.active /\ a.blind = r.blind /\ a.signalled = r.signalled
    BY <1>1 DEF Process
  <2>2. r.session \in Sessions
    BY <1>1, <1>4 DEF PlacedAt, ScreenPlaced, LinePlaced
  <2> DEFINE b == [a EXCEPT !.at = "loading archive", !.engine = TRUE, !.of = r.session]
  <2>3. b = [r EXCEPT !.at = "loading archive", !.engine = TRUE, !.of = r.session,
                      !.messages = messages, !.archive = archive]
    BY <1>1 DEF Process
  <2> HIDE DEF a
  <2>4. Good(p, b)
    BY <1>1, <1>4, <2>1, <2>2 DEF Good, Process, Places, PlacedAt, ScreenPlaced, LinePlaced
  <2> QED BY <2>3, <2>4
<1>5. ASSUME r.at = "loading archive"
      PROVE  Good(p, [r EXCEPT !.at = "chat", !.unsaved = FALSE, !.archive = archive])
  BY <1>1, <1>5 DEF Good, Process, Places, PlacedAt, ScreenPlaced, LinePlaced
<1>6. ASSUME p \in Screens, r.at \in {"loading", "loading archive"}
      PROVE  Good(p, [r EXCEPT !.at = "ending", !.blind = TRUE])
  BY <1>1, <1>2, <1>6 DEF Good, Process, Places, PlacedAt, ScreenPlaced, LinePlaced
<1> QED BY <1>3, <1>4, <1>5, <1>6

LEMMA TurnsOfChat ==
  ASSUME NEW p \in Processes, NEW r, Good(p, r), NEW b \in BOOLEAN
  PROVE  /\ r.at \in {"chat", "turn"}
              => /\ Good(p, [r EXCEPT !.at = "chat"])
                 /\ Good(p, [[r EXCEPT !.at = "chat"] EXCEPT !.unsaved = b])
                 /\ Good(p, [r EXCEPT !.unsaved = b])
                 /\ p \in Screens => Good(p, [r EXCEPT !.at = "ending"])
         /\ p \in Screens /\ r.at = "chat" =>
              /\ \A next \in {"home", "exited"} :
                   Good(p, [r EXCEPT !.at = "leaving", !.next = next, !.unsaved = FALSE])
              /\ \A next \in {"opening", "switching"} :
                   Good(p, [r EXCEPT !.at = "leaving", !.next = next, !.unsaved = FALSE])
              /\ \A s \in Sessions :
                   Good(p, [[r EXCEPT !.at = "leaving", !.next = "opening", !.unsaved = FALSE]
                              EXCEPT !.session = s])
         /\ r.at = "leaving" /\ r.next # "exited"
              => Good(p, [r EXCEPT !.at = r.next, !.active = NoSession])
         /\ p \in Screens /\ r.at # "exited" => Good(p, [r EXCEPT !.signalled = TRUE])
         /\ r.signalled /\ r.at \in {"opening", "preparing", "switching", "turn", "leaving"}
              => Good(p, [r EXCEPT !.at = "ending"])
<1>1. r \in Process /\ PlacedAt(p, r) /\ p \in Screens \union Lines
  BY DEF Good, Processes
<1>2. Screens \intersect Lines = {} /\ NoSession \notin Sessions
  BY FrontendsAssumption
<1>3. ASSUME r.at \in {"chat", "turn"}
      PROVE  /\ Good(p, [r EXCEPT !.at = "chat"])
             /\ Good(p, [[r EXCEPT !.at = "chat"] EXCEPT !.unsaved = b])
             /\ Good(p, [r EXCEPT !.unsaved = b])
  <2>1. Good(p, [r EXCEPT !.at = "chat"])
    BY <1>1, <1>3 DEF Good, Process, Places, PlacedAt, ScreenPlaced, LinePlaced
  <2>2. ASSUME NEW q, Good(p, q) PROVE Good(p, [q EXCEPT !.unsaved = b])
    <3>1. q \in Process /\ PlacedAt(p, q)
      BY <2>2 DEF Good
    <3> DEFINE v == [q EXCEPT !.unsaved = b]
    <3>2. /\ v \in Process /\ v.at = q.at /\ v.next = q.next /\ v.session = q.session
          /\ v.active = q.active /\ v.blind = q.blind /\ v.signalled = q.signalled
          /\ v.engine = q.engine /\ v.of = q.of
      BY <3>1 DEF Process
    <3> HIDE DEF v
    <3>3. PlacedAt(p, v)
      BY <3>1, <3>2 DEF PlacedAt, ScreenPlaced, LinePlaced
    <3> QED BY <3>2, <3>3 DEF Good, v
  <2> QED BY <2>1, <2>2
<1>4. ASSUME p \in Screens, r.at \in {"chat", "turn"}
      PROVE  Good(p, [r EXCEPT !.at = "ending"])
  BY <1>1, <1>2, <1>4 DEF Good, Process, Places, PlacedAt, ScreenPlaced, LinePlaced
<1>5. ASSUME p \in Screens, r.at = "chat", NEW next \in {"home", "exited", "opening", "switching"},
             NEW s \in Sessions
      PROVE  /\ Good(p, [r EXCEPT !.at = "leaving", !.next = next, !.unsaved = FALSE])
             /\ Good(p, [[r EXCEPT !.at = "leaving", !.next = next, !.unsaved = FALSE]
                           EXCEPT !.session = s])
  <2> DEFINE q == [r EXCEPT !.at = "leaving", !.next = next, !.unsaved = FALSE]
  <2>1. Good(p, q) /\ q.at = "leaving"
    BY <1>1, <1>2, <1>5 DEF Good, Process, Places, PlacedAt, ScreenPlaced, LinePlaced
  <2> HIDE DEF q
  <2>2. Good(p, [q EXCEPT !.session = s])
    BY <1>1, <1>2, <1>5, <2>1 DEF Good, Process, Places, PlacedAt, ScreenPlaced, LinePlaced
  <2> QED BY <2>1, <2>2 DEF q
<1>6. ASSUME r.at = "leaving", r.next # "exited"
      PROVE  Good(p, [r EXCEPT !.at = r.next, !.active = NoSession])
  BY <1>1, <1>2, <1>6 DEF Good, Process, Places, PlacedAt, ScreenPlaced, LinePlaced
<1>7. ASSUME p \in Screens, r.at # "exited"
      PROVE  Good(p, [r EXCEPT !.signalled = TRUE])
  BY <1>1, <1>2, <1>7 DEF Good, Process, Places, PlacedAt, ScreenPlaced, LinePlaced
<1>8. ASSUME r.signalled, r.at \in {"opening", "preparing", "switching", "turn", "leaving"}
      PROVE  Good(p, [r EXCEPT !.at = "ending"])
  BY <1>1, <1>2, <1>8 DEF Good, Process, Places, PlacedAt, ScreenPlaced, LinePlaced
<1>9. p \in Screens /\ r.at = "chat" => r.session \in Sessions
  BY <1>1 DEF PlacedAt, ScreenPlaced
<1>10. ASSUME p \in Screens, r.at = "chat"
       PROVE  /\ \A next \in {"home", "exited"} :
                   Good(p, [r EXCEPT !.at = "leaving", !.next = next, !.unsaved = FALSE])
              /\ \A next \in {"opening", "switching"} :
                   Good(p, [r EXCEPT !.at = "leaving", !.next = next, !.unsaved = FALSE])
              /\ \A s \in Sessions :
                   Good(p, [[r EXCEPT !.at = "leaving", !.next = "opening", !.unsaved = FALSE]
                              EXCEPT !.session = s])
  BY <1>5, <1>9, <1>10
<1> QED BY <1>3, <1>4, <1>6, <1>7, <1>8, <1>10

-----------------------------------------------------------------------------
(* The number of a new message: finitely many have been given.             *)

LEMMA ImageIsFinite ==
  ASSUME NEW S, NEW T, NEW f \in [S -> T], IsFiniteSet(S), \A t \in T : \E x \in S : f[x] = t
  PROVE  IsFiniteSet(T)
<1>1. f \in Surjection(S, T)
  BY DEF Surjection
<1> QED BY <1>1, FS_Surjection

LEMMA NumbersAreFinite ==
  ASSUME NEW E, NEW seq \in Seq(E)
  PROVE  IsFiniteSet(Numbers(seq)) /\ IsFiniteSet(Archived(seq))
<1>1. IsFiniteSet(DOMAIN seq)
  <2>1. Len(seq) \in Nat /\ DOMAIN seq = 1..Len(seq)
    BY LenProperties
  <2>2. IsFiniteSet(1..Len(seq))
    BY <2>1, FS_Interval
  <2> QED BY <2>1, <2>2
<1>2. IsFiniteSet(Numbers(seq))
  <2> DEFINE f == [i \in DOMAIN seq |-> seq[i].n]
  <2>1. f \in [DOMAIN seq -> Numbers(seq)] /\ \A t \in Numbers(seq) : \E i \in DOMAIN seq : f[i] = t
    BY DEF Numbers
  <2> HIDE DEF f
  <2> QED BY <1>1, <2>1, ImageIsFinite
<1>3. IsFiniteSet(Archived(seq))
  <2> DEFINE f == [i \in DOMAIN seq |-> seq[i].m.n]
  <2>1. f \in [DOMAIN seq -> Archived(seq)] /\ \A t \in Archived(seq) : \E i \in DOMAIN seq : f[i] = t
    BY DEF Archived
  <2> HIDE DEF f
  <2> QED BY <1>1, <2>1, ImageIsFinite
<1> QED BY <1>2, <1>3

LEMMA OldIsFinite == IsFiniteSet(Old)
<1> DEFINE D == DOMAIN OldMessages
           f == [s \in D |-> Numbers(OldMessages[s]) \union Archived(OldArchives[s])]
           T == {Numbers(OldMessages[s]) \union Archived(OldArchives[s]) : s \in D}
<1>1. IsFiniteSet(D)
  BY StoreAssumption
<1>2. \A t \in T : IsFiniteSet(t)
  <2> SUFFICES ASSUME NEW s \in D
               PROVE  IsFiniteSet(Numbers(OldMessages[s]) \union Archived(OldArchives[s]))
    OBVIOUS
  <2>1. OldMessages[s] \in Seq(Messages) /\ OldArchives[s] \in Seq(Events)
    BY StoreAssumption
  <2>2. IsFiniteSet(Numbers(OldMessages[s])) /\ IsFiniteSet(Archived(OldArchives[s]))
    BY <2>1, NumbersAreFinite
  <2> QED BY <2>2, FS_Union
<1>3. f \in [D -> T] /\ \A t \in T : \E s \in D : f[s] = t
  OBVIOUS
<1>4. Old = UNION T
  BY DEF Old
<1> HIDE DEF D, f, T
<1>5. IsFiniteSet(T)
  BY <1>1, <1>3, ImageIsFinite
<1> QED BY <1>2, <1>4, <1>5, FS_UNION

SaidFresh == IsFiniteSet(Said) /\ Said \intersect Old = {} /\ 0 \notin Said

LEMMA FreshIsNew ==
  ASSUME SaidFresh
  PROVE  Fresh \in Nat /\ Fresh # 0 /\ Fresh \notin Old /\ Fresh \notin Said
<1> DEFINE used == Old \union Said
           c == Cardinality(used)
<1>1. IsFiniteSet(used)
  BY OldIsFinite, FS_Union DEF SaidFresh
<1>2. c \in Nat
  BY <1>1, FS_CardinalityType
<1>3. Fresh = CHOOSE n \in 1..(c + 1) : n \notin used
  BY DEF Fresh
<1> HIDE DEF c, used
<1>4. \E n \in 1..(c + 1) : n \notin used
  <2> SUFFICES ASSUME 1..(c + 1) \in SUBSET used PROVE FALSE
    OBVIOUS
  <2>1. Cardinality(1..(c + 1)) <= Cardinality(used)
    BY <1>1, FS_Subset
  <2>2. Cardinality(1..(c + 1)) = c + 1
    BY <1>2, FS_Interval
  <2> QED BY <1>2, <2>1, <2>2 DEF c
<1>5. Fresh \in 1..(c + 1) /\ Fresh \notin used
  BY <1>3, <1>4
<1> QED BY <1>2, <1>5 DEF used

\* The next message said is as new as the others were.
LEMMA SayingKeepsFresh ==
  ASSUME said \in [Sessions -> SUBSET Nat], SaidFresh, NEW s \in Sessions,
         said' = [said EXCEPT ![s] = @ \union {Fresh}]
  PROVE  /\ said' \in [Sessions -> SUBSET Nat] /\ SaidFresh'
         /\ Said' = Said \union {Fresh}
         /\ \A t \in Sessions : said'[t] = IF t = s THEN said[t] \union {Fresh} ELSE said[t]
<1> DEFINE n == Fresh
<1>1. n \in Nat /\ n # 0 /\ n \notin Old /\ n \notin Said
  BY FreshIsNew
<1>2. said' = [said EXCEPT ![s] = said[s] \union {n}]
  OBVIOUS
<1> HIDE DEF n
<1>3. \A t \in Sessions : said'[t] = IF t = s THEN said[t] \union {n} ELSE said[t]
  BY <1>2
<1>4. Said' = UNION {said'[t] : t \in Sessions} /\ Said = UNION {said[t] : t \in Sessions}
  BY DEF Said
<1>5. Said' = Said \union {n}
  <2>1. \A x : x \in Said' <=> \E t \in Sessions : x \in said'[t]
    BY <1>4
  <2>2. \A x : x \in Said <=> \E t \in Sessions : x \in said[t]
    BY <1>4
  <2>3. \A x : x \in Said' <=> (x \in Said \/ x = n)
    BY <1>3, <2>1, <2>2
  <2> QED BY <2>3
<1>6. IsFiniteSet(Said')
  <2>1. IsFiniteSet({n})
    BY FS_Singleton
  <2> QED BY <1>5, <2>1, FS_Union DEF SaidFresh
<1>7. Old' = Old
  BY DEF Old
<1>8. SaidFresh'
  BY <1>1, <1>5, <1>6, <1>7 DEF SaidFresh
<1>9. said' \in [Sessions -> SUBSET Nat]
  BY <1>1, <1>2
<1> QED BY <1>3, <1>5, <1>8, <1>9 DEF n

-----------------------------------------------------------------------------
(* What a step does with the conversations, whatever action it is of.      *)

Typed ==
    /\ StoreTyped /\ AllPlaced
    /\ said \in [Sessions -> SUBSET Nat] /\ SaidFresh
    /\ exported \in SUBSET Nat /\ reported \in SUBSET Nat /\ deleted \in SUBSET Nat
    /\ overwritten \in SUBSET Sessions
    /\ left \in [Countable -> Nat]

\* Nothing a process holds at such a place is held by it alone.
Rested(p) ==
    \/ proc[p].at \in {"start", "home", "opening", "preparing", "switching", "leaving",
                       "loading", "loading archive"}
    \/ At(p, "chat") /\ (p \in Lines \/ ~proc[p].unsaved)
    \/ At(p, "ending") /\ ~(proc[p].engine /\ proc[p].of = proc[p].active)

\* The screen shows no save error.
Shows(p) == p \in Screens /\ At(p, "chat") /\ ~proc[p].unsaved

Keeps(p) ==
    /\ proc'[p].messages = proc[p].messages /\ proc'[p].archive = proc[p].archive
    /\ proc'[p].of = proc[p].of

Bare(p) ==
    /\ proc'[p].messages = <<>> /\ proc'[p].archive = <<>> /\ proc'[p].of = NoSession
    /\ ~At(p, "loading archive")'

\* The conversation stays as it is; a session may be created.
Walks(p) ==
    /\ Keeps(p)
    /\ UNCHANGED <<exported, reported, said, deleted, overwritten>>
    /\ db' = db \/ \E s \in Sessions : CreateSession(s)
    /\ Rested(p)' => Rested(p)
    /\ Shows(p)' => Shows(p)
    /\ At(p, "loading archive")' =>
          At(p, "loading archive") /\ proc'[p].session = proc[p].session

Removes(p) ==
    /\ proc' = proc
    /\ UNCHANGED <<exported, reported, said, overwritten>>
    /\ \E s \in Sessions :
          /\ Live(s) /\ DeleteSession(s)
          /\ deleted' = deleted \union Archived(db[s].archive)

\* The conversation is dropped.
Drops(p) ==
    /\ Bare(p) /\ (Rested(p) \/ proc[p].of = NoSession)
    /\ UNCHANGED <<db, exported, reported, said, deleted>>
    /\ overwritten \subseteq overwritten' /\ overwritten' \subseteq Sessions

\* The conversation is saved: to the session it is of, or by a program that ends
\* without having loaded that session.
Stores(p) ==
    /\ UNCHANGED <<exported, reported, said, deleted>>
    /\ overwritten \subseteq overwritten' /\ overwritten' \subseteq Sessions
    /\ ~At(p, "loading archive")'
    /\ \E s \in Sessions :
          /\ Saved(p, s)
          /\ \/ proc[p].of = s /\ (Keeps(p) \/ Bare(p))
             \/ proc[p].blind /\ s \in overwritten' /\ Bare(p) /\ Rested(p)
          /\ Shows(p)' => proc'[p].session = s

\* The conversation goes to a recovery file, or is reported as lost.
Rescues(p) ==
    /\ UNCHANGED <<db, said, deleted>>
    /\ overwritten \subseteq overwritten' /\ overwritten' \subseteq Sessions
    /\ Exports(p)
    /\ Keeps(p) \/ Bare(p)
    /\ ~Shows(p)' /\ ~At(p, "loading archive")'

Fetches(p) ==
    LET s == proc[p].session
        messages == ReadMessages(db[s].messages)
    IN  /\ Rested(p) /\ s \in Sessions /\ ReadMessagesOf(s)
        /\ UNCHANGED <<exported, reported, said, deleted, overwritten>>
        /\ At(p, "loading archive")' /\ proc'[p].session = s /\ proc'[p].of = s
        /\ proc'[p].messages = messages /\ proc'[p].archive = Recorded(messages)

Completes(p) ==
    LET s == proc[p].session
        archive == ReadArchive(s)
    IN  /\ Rested(p) /\ At(p, "loading archive") /\ s \in Sessions
        /\ UNCHANGED <<db, exported, reported, said, deleted, overwritten>>
        /\ At(p, "chat")' /\ proc'[p].session = s
        /\ proc[p].of = s /\ proc'[p].of = s
        /\ proc'[p].messages = proc[p].messages
        /\ proc'[p].archive = IF archive = <<>> THEN proc[p].archive ELSE archive

\* A message is said, or the messages shrink.
Speaks(p) ==
    LET s == proc[p].session
        m == Message(Fresh, "plain")
    IN  /\ s \in Sessions /\ proc[p].of = s /\ proc'[p].of = s
        /\ At(p, "turn")'
        /\ UNCHANGED <<db, exported, reported, deleted, overwritten>>
        /\ said' = [said EXCEPT ![s] = @ \union {Fresh}]
        /\ proc'[p].messages = proc[p].messages \o <<m>>
        /\ proc'[p].archive = Append(proc[p].archive, Event(Fresh, m))

Shrinks(p) ==
    /\ At(p, "turn")' /\ proc'[p].of = proc[p].of
    /\ UNCHANGED <<db, exported, reported, said, deleted, overwritten>>
    /\ Len(proc[p].messages) > 2
    /\ proc'[p].messages = <<Message(0, "summary"), Last(proc[p].messages)>>
    /\ proc'[p].archive = proc[p].archive

Moved(p) ==
    /\ AllPlaced' /\ left' \in [Countable -> Nat]
    /\ \A o \in Processes \ {p} : proc'[o] = proc[o]

Kinds(p) ==
    \/ Walks(p) \/ Removes(p) \/ Drops(p) \/ Stores(p) \/ Rescues(p)
    \/ Fetches(p) \/ Completes(p) \/ Speaks(p) \/ Shrinks(p)

LEMMA Spending ==
  ASSUME Typed, NEW what \in Countable, Spend(what)
  PROVE  left' \in [Countable -> Nat]
BY DEF Typed, Spend

LEMMA ProcessOf ==
  ASSUME Typed, NEW p \in Processes
  PROVE  /\ proc[p] \in Process /\ Good(p, proc[p])
         /\ proc[p].messages \in Seq(Messages) /\ proc[p].archive \in Seq(Events)
         /\ p \in Screens \/ p \in Lines
         /\ ~(p \in Screens /\ p \in Lines)
<1>1. proc[p] \in Process /\ Good(p, proc[p])
  BY DEF Typed, AllPlaced, Good
<1> QED BY <1>1, FrontendsAssumption DEF Process, Processes

LEMMA HomeKinds ==
  ASSUME Typed, NEW p \in Processes, Home(p)
  PROVE  Moved(p) /\ Kinds(p)
<1> DEFINE r == proc[p]
<1>1. r \in Process /\ Good(p, r)
  BY ProcessOf
<1>2. left \in [Countable -> Nat] /\ AllPlaced
  BY DEF Typed
<1>3. CASE HomeQuits(p)
  <2>1. Moves(p, Gone(p)) /\ Quietly /\ r.at = "home"
    BY <1>3 DEF HomeQuits, At
  <2>2. /\ AllPlaced' /\ proc'[p] = Gone(p)
        /\ \A o \in Processes \ {p} : proc'[o] = proc[o]
    BY <1>2, <2>1, BeginsWell, OneMoves
  <2>3. Bare(p)
    BY <2>2 DEF Bare, Gone, Begin, At
  <2>4. Drops(p)
    BY <2>1, <2>3 DEF Drops, Quietly, Rested, Typed
  <2> QED BY <1>2, <2>1, <2>2, <2>4 DEF Moved, Kinds, Quietly
<1>4. ASSUME NEW s \in Sessions, HomeOpens(p, s) \/ HomeCreates(p, s)
      PROVE  Moved(p) /\ Kinds(p)
  <2> DEFINE q == [r EXCEPT !.at = "opening", !.session = s]
  <2>1. /\ r.at = "home" /\ Moves(p, q)
        /\ db' = db \/ CreateSession(s)
        /\ UNCHANGED <<exported, reported, said, deleted, overwritten, left>>
    BY <1>4 DEF HomeOpens, HomeCreates, Quietly, At
  <2>2. Good(p, q)
    BY <1>1, <2>1, TurnsAtHome
  <2>3. q.at = "opening" /\ q.messages = r.messages /\ q.archive = r.archive /\ q.of = r.of
    BY <1>1 DEF Process
  <2> HIDE DEF q
  <2>4. /\ AllPlaced' /\ proc'[p] = q
        /\ \A o \in Processes \ {p} : proc'[o] = proc[o]
    BY <1>2, <2>1, <2>2, OneMoves
  <2>5. Walks(p)
    BY <2>1, <2>3, <2>4 DEF Walks, Keeps, Rested, Shows, At
  <2> QED BY <1>2, <2>1, <2>4, <2>5 DEF Moved, Kinds
<1>5. ASSUME NEW s \in Sessions, HomeDeletes(p, s)
      PROVE  Moved(p) /\ Kinds(p)
  <2>1. left' \in [Countable -> Nat]
    <3>1. Spend("deletions") /\ "deletions" \in Countable
      BY <1>5 DEF HomeDeletes, Countable
    <3> QED BY <3>1, Spending
  <2>2. Removes(p)
    BY <1>5 DEF HomeDeletes, Removes
  <2>3. AllPlaced'
    BY <1>2, <2>2 DEF Removes, AllPlaced
  <2> QED BY <2>1, <2>2, <2>3 DEF Moved, Kinds, Removes
<1> QED BY <1>3, <1>4, <1>5 DEF Home

\* What is read of the messages of a row, and the archive made of it.
LEMMA ReadingMessages ==
  ASSUME NEW messages \in Seq(Messages)
  PROVE  /\ ReadMessages(messages) \in Seq(Messages)
         /\ Numbers(ReadMessages(messages)) = Numbers(messages)
         /\ \A i \in DOMAIN ReadMessages(messages) :
              ReadMessages(messages)[i].form \notin Damaged
<1>1. Len(messages) \in Nat /\ DOMAIN messages = 1..Len(messages)
      /\ \A i \in DOMAIN messages : messages[i] \in Messages
  BY LenProperties, ElementOfSeq
<1> DEFINE got == ReadMessages(messages)
<1>2. DOMAIN got = DOMAIN messages
      /\ \A i \in DOMAIN messages : got[i] = Replaced(messages[i], Damaged)
  BY DEF ReadMessages
<1>3. \A m \in Messages : /\ Replaced(m, Damaged) \in Messages /\ Replaced(m, Damaged).n = m.n
                          /\ Replaced(m, Damaged).form \notin Damaged
  BY DEF Messages, Message, Replaced, Damaged, Forms
<1>4. got \in Seq(Messages)
  <2>1. got = [i \in 1..Len(messages) |-> Replaced(messages[i], Damaged)]
    BY <1>1 DEF ReadMessages
  <2>2. \A i \in 1..Len(messages) : Replaced(messages[i], Damaged) \in Messages
    BY <1>1, <1>3
  <2> QED BY <1>1, <2>1, <2>2, IsASeq
<1> HIDE DEF got
<1>5. \A i \in DOMAIN got : got[i].n = messages[i].n /\ got[i].form \notin Damaged
  BY <1>1, <1>2, <1>3
<1>6. Numbers(got) = Numbers(messages)
  BY <1>2, <1>5 DEF Numbers
<1> QED BY <1>4, <1>5, <1>6 DEF got

LEMMA RecordingMessages ==
  ASSUME NEW messages \in Seq(Messages)
  PROVE  /\ Recorded(messages) \in Seq(Events)
         /\ DOMAIN Recorded(messages) = DOMAIN messages
         /\ \A i \in DOMAIN messages : Recorded(messages)[i].m = messages[i]
         /\ Archived(Recorded(messages)) = Numbers(messages)
<1>1. Len(messages) \in Nat /\ DOMAIN messages = 1..Len(messages)
      /\ \A i \in DOMAIN messages : messages[i] \in Messages
  BY LenProperties, ElementOfSeq
<1> DEFINE got == Recorded(messages)
<1>2. got = [i \in 1..Len(messages) |-> Event(messages[i].n, messages[i])]
  BY <1>1 DEF Recorded
<1>3. \A m \in Messages : Event(m.n, m) \in Events /\ Event(m.n, m).m = m
  BY DEF Messages, Event, Events
<1>4. \A i \in 1..Len(messages) : Event(messages[i].n, messages[i]) \in Events
  BY <1>1, <1>3
<1>5. got \in Seq(Events)
  BY <1>1, <1>2, <1>4, IsASeq
<1>6. DOMAIN got = DOMAIN messages /\ \A i \in DOMAIN messages : got[i].m = messages[i]
  BY <1>1, <1>2, <1>3
<1> HIDE DEF got
<1>7. Archived(got) = Numbers(messages)
  BY <1>6 DEF Archived, Numbers
<1> QED BY <1>5, <1>6, <1>7 DEF got

LEMMA OpenKinds ==
  ASSUME Typed, NEW p \in Processes, Open(p)
  PROVE  Moved(p) /\ Kinds(p)
<1> DEFINE r == proc[p]
<1>1. r \in Process /\ Good(p, r) /\ (p \in Screens \/ p \in Lines)
      /\ r.messages \in Seq(Messages) /\ r.archive \in Seq(Events)
  BY ProcessOf
<1>2. left \in [Countable -> Nat] /\ AllPlaced /\ StoreTyped /\ overwritten \in SUBSET Sessions
  BY DEF Typed
<1>3. ASSUME NEW q, Good(p, q), Moves(p, q), Quietly,
             q.messages = r.messages, q.archive = r.archive, q.of = r.of,
             r.at \in {"opening", "preparing", "switching", "loading", "loading archive"},
             q.at \in {"opening", "home", "preparing", "loading", "ending"}
      PROVE  Moved(p) /\ Kinds(p)
  <2>1. /\ AllPlaced' /\ proc'[p] = q
        /\ \A o \in Processes \ {p} : proc'[o] = proc[o]
    BY <1>2, <1>3, OneMoves
  <2>2. Walks(p)
    BY <1>3, <2>1 DEF Walks, Keeps, Rested, Shows, At, Quietly
  <2> QED BY <1>2, <1>3, <2>1, <2>2 DEF Moved, Kinds, Quietly
<1>4. ASSUME NEW q, Good(p, q), Moves(p, q), Quietly,
             q.messages = <<>>, q.archive = <<>>, q.of = NoSession,
             r.at \in {"opening", "switching", "loading", "loading archive"},
             q.at # "loading archive"
      PROVE  Moved(p) /\ Kinds(p)
  <2>1. /\ AllPlaced' /\ proc'[p] = q
        /\ \A o \in Processes \ {p} : proc'[o] = proc[o]
    BY <1>2, <1>4, OneMoves
  <2>2. Drops(p)
    BY <1>2, <1>4, <2>1 DEF Drops, Bare, Rested, At, Quietly
  <2> QED BY <1>2, <1>4, <2>1, <2>2 DEF Moved, Kinds, Quietly
<1>5. CASE OpenFails(p)
  <2> DEFINE q == [r EXCEPT !.at = "ending"]
  <2>1. r.at = "opening" /\ Moves(p, q) /\ Quietly
    BY <1>5 DEF OpenFails, At
  <2>2. Good(p, q)
    BY <1>1, <2>1, TurnsAtHome
  <2>3. q.at = "ending" /\ q.messages = r.messages /\ q.archive = r.archive /\ q.of = r.of
    BY <1>1 DEF Process
  <2> HIDE DEF q, r
  <2> QED BY <1>3, <2>1, <2>2, <2>3
<1>6. CASE OpenRefused(p)
  <2> DEFINE q == [r EXCEPT !.at = "home", !.session = NoSession]
  <2>1. r.at = "opening" /\ Moves(p, q) /\ Quietly
    BY <1>6 DEF OpenRefused, At
  <2>2. Good(p, q)
    BY <1>1, <2>1, TurnsAtHome
  <2>3. q.at = "home" /\ q.messages = r.messages /\ q.archive = r.archive /\ q.of = r.of
    BY <1>1 DEF Process
  <2> HIDE DEF q, r
  <2> QED BY <1>3, <2>1, <2>2, <2>3
<1>7. CASE Opens(p)
  <2>1. r.at = "opening" /\ Quietly
    BY <1>7 DEF Opens, At
  <2>2. CASE Moves(p, [r EXCEPT !.at = "preparing"])
    <3> DEFINE q == [r EXCEPT !.at = "preparing"]
    <3>1. Good(p, q)
      BY <1>1, <2>1, TurnsAtHome
    <3>2. q.at = "preparing" /\ q.messages = r.messages /\ q.archive = r.archive /\ q.of = r.of
      BY <1>1 DEF Process
    <3>3. Moves(p, q)
      BY <2>2
    <3> HIDE DEF q, r
    <3> QED BY <1>3, <2>1, <3>1, <3>2, <3>3
  <2>3. CASE Moves(p, [NewEngine(r) EXCEPT !.at = "preparing"])
    <3> DEFINE q == [NewEngine(r) EXCEPT !.at = "preparing"]
    <3>1. Good(p, q)
      BY <1>1, <2>1, TurnsWithNewEngine
    <3>2. q.at = "preparing" /\ q.messages = <<>> /\ q.archive = <<>> /\ q.of = NoSession
      BY <1>1 DEF Process, NewEngine
    <3>3. Moves(p, q)
      BY <2>3
    <3> HIDE DEF q, r
    <3> QED BY <1>4, <2>1, <3>1, <3>2, <3>3
  <2> QED BY <1>7, <2>2, <2>3 DEF Opens
<1>8. CASE Prepared(p)
  <2>1. r.at = "preparing" /\ Quietly
    BY <1>8 DEF Prepared, At
  <2>2. PICK q \in {[r EXCEPT !.at = "loading", !.active = r.session], [r EXCEPT !.at = "ending"]} :
          Moves(p, q)
    BY <1>8 DEF Prepared
  <2>3. Good(p, q)
    BY <1>1, <2>1, <2>2, TurnsAtHome
  <2>4. /\ q.at \in {"loading", "ending"}
        /\ q.messages = r.messages /\ q.archive = r.archive /\ q.of = r.of
    BY <1>1, <2>2 DEF Process
  <2> HIDE DEF r
  <2> QED BY <1>3, <2>1, <2>2, <2>3, <2>4
<1>9. CASE Switches(p)
  <2>1. r.at = "switching" /\ Quietly
    BY <1>9 DEF Switches, At
  <2>2. ASSUME NEW q \in {[r EXCEPT !.at = "home", !.session = NoSession], [r EXCEPT !.at = "ending"]},
               Moves(p, q)
        PROVE  Moved(p) /\ Kinds(p)
    <3>1. Good(p, q)
      BY <1>1, <2>1, <2>2, TurnsAtHome
    <3>2. /\ q.at \in {"home", "ending"}
          /\ q.messages = r.messages /\ q.archive = r.archive /\ q.of = r.of
      BY <1>1, <2>2 DEF Process
    <3> HIDE DEF r
    <3> QED BY <1>3, <2>1, <2>2, <3>1, <3>2
  <2>3. CASE Moves(p, [NewEngine(r) EXCEPT !.at = "opening"])
    <3> DEFINE q == [NewEngine(r) EXCEPT !.at = "opening"]
    <3>1. Good(p, q)
      BY <1>1, <2>1, TurnsWithNewEngine
    <3>2. q.at = "opening" /\ q.messages = <<>> /\ q.archive = <<>> /\ q.of = NoSession
      BY <1>1 DEF Process, NewEngine
    <3>3. Moves(p, q)
      BY <2>3
    <3> HIDE DEF q, r
    <3> QED BY <1>4, <2>1, <3>1, <3>2, <3>3
  <2> QED BY <1>9, <2>2, <2>3 DEF Switches
<1>10. CASE LoadMessages(p)
  <2> DEFINE s == r.session
             messages == ReadMessages(db[s].messages)
             archive == Recorded(messages)
             q == [r EXCEPT !.at = "loading archive", !.engine = TRUE, !.of = s,
                            !.messages = messages, !.archive = archive]
  <2>1. /\ r.at = "loading" /\ ReadMessagesOf(s) /\ Moves(p, q)
        /\ UNCHANGED <<exported, reported, said, deleted, overwritten, left>>
    BY <1>10 DEF LoadMessages, At
  <2>2. s \in Sessions
    BY <1>1, <2>1 DEF Good, PlacedAt, ScreenPlaced, LinePlaced
  <2>3. messages \in Seq(Messages) /\ archive \in Seq(Events)
    <3>1. db[s].messages \in Seq(Messages)
      BY <1>2, <2>2, RowFields
    <3>2. messages \in Seq(Messages)
      BY <3>1, ReadingMessages
    <3> HIDE DEF messages
    <3> QED BY <3>2, RecordingMessages
  <2> HIDE DEF messages, archive
  <2>4. Good(p, q)
    BY <1>1, <2>1, <2>3, TurnsOfLoading
  <2>5. /\ q.at = "loading archive" /\ q.of = s /\ q.session = s
        /\ q.messages = messages /\ q.archive = archive
    BY <1>1, <2>3 DEF Process
  <2> HIDE DEF q
  <2>6. /\ AllPlaced' /\ proc'[p] = q
        /\ \A o \in Processes \ {p} : proc'[o] = proc[o]
    BY <1>2, <2>1, <2>4, OneMoves
  <2>7. Fetches(p)
    BY <2>1, <2>2, <2>5, <2>6 DEF Fetches, Rested, At, messages, archive
  <2> QED BY <1>2, <2>1, <2>6, <2>7 DEF Moved, Kinds
<1>11. CASE LoadArchive(p)
  <2> DEFINE s == r.session
             archive == IF ReadArchive(s) = <<>> THEN r.archive ELSE ReadArchive(s)
             q == [r EXCEPT !.at = "chat", !.unsaved = FALSE, !.archive = archive]
  <2>1. r.at = "loading archive" /\ Quietly
    BY <1>11 DEF LoadArchive, At
  <2>a. Moves(p, q)
    BY <1>11 DEF LoadArchive
  <2>2. s \in Sessions /\ r.of = s
    BY <1>1, <2>1 DEF Good, PlacedAt, ScreenPlaced, LinePlaced
  <2>3. archive \in Seq(Events)
    BY <1>1, <1>2, <2>2, ReadingArchive
  <2>b. archive = IF ReadArchive(s) = <<>> THEN r.archive ELSE ReadArchive(s)
    OBVIOUS
  <2> HIDE DEF archive
  <2>4. Good(p, q)
    BY <1>1, <2>1, <2>3, TurnsOfLoading
  <2>5. /\ q.at = "chat" /\ q.of = r.of /\ q.session = s
        /\ q.messages = r.messages /\ q.archive = archive
    BY <1>1, <2>3 DEF Process
  <2> HIDE DEF q
  <2>6. /\ AllPlaced' /\ proc'[p] = q
        /\ \A o \in Processes \ {p} : proc'[o] = proc[o]
    BY <1>2, <2>a, <2>4, OneMoves
  <2>7. Completes(p)
    BY <2>1, <2>2, <2>b, <2>5, <2>6 DEF Completes, Rested, At, Quietly
  <2> QED BY <1>2, <2>1, <2>6, <2>7 DEF Moved, Kinds, Quietly
<1>12. CASE LoadFails(p)
  <2>1. r.at \in {"loading", "loading archive"} /\ Quietly
    BY <1>12 DEF LoadFails, At
  <2>2. CASE p \in Screens
    <3> DEFINE q == [r EXCEPT !.at = "ending", !.blind = TRUE]
    <3>1. Moves(p, q)
      BY <1>12, <2>2 DEF LoadFails
    <3>2. Good(p, q)
      BY <1>1, <2>1, <2>2, TurnsOfLoading
    <3>3. q.at = "ending" /\ q.messages = r.messages /\ q.archive = r.archive /\ q.of = r.of
      BY <1>1 DEF Process
    <3> HIDE DEF q, r
    <3> QED BY <1>3, <2>1, <3>1, <3>2, <3>3
  <2>3. CASE p \notin Screens
    <3>1. Moves(p, Gone(p)) /\ Good(p, Gone(p))
      BY <1>12, <2>3, BeginsWell DEF LoadFails
    <3>2. /\ Gone(p).messages = <<>> /\ Gone(p).archive = <<>> /\ Gone(p).of = NoSession
          /\ Gone(p).at = "exited"
      BY DEF Gone, Begin
    <3> HIDE DEF r
    <3> QED BY <1>4, <2>1, <3>1, <3>2
  <2> QED BY <2>2, <2>3
<1> QED BY <1>5, <1>6, <1>7, <1>8, <1>9, <1>10, <1>11, <1>12 DEF Open

LEMMA Failing ==
  ASSUME Typed, NEW p \in Processes, NEW s \in Sessions, SaveFails(p, s)
  PROVE  UNCHANGED db /\ left' \in [Countable -> Nat]
<1>1. left \in [Countable -> Nat] /\ "faults" \in Countable
  BY DEF Typed, Countable
<1> QED BY <1>1, Spending DEF SaveFails

LEMMA UnsavedOnly ==
  ASSUME NEW p \in Processes, NEW q, Good(p, q), NEW b \in BOOLEAN
  PROVE  LET v == [q EXCEPT !.unsaved = b]
         IN  /\ v.at = q.at /\ v.session = q.session /\ v.messages = q.messages
             /\ v.archive = q.archive /\ v.of = q.of /\ v.unsaved = b
BY DEF Good, Process

\* save_session, of either interface, on a conversation of the session it is on.
LEMMA SavingKinds ==
  ASSUME Typed, NEW p \in Processes, proc[p].at \in {"chat", "turn"}, NEW q, Good(p, q),
         \A b \in BOOLEAN : Good(p, [q EXCEPT !.unsaved = b]),
         q.at = "chat", q.session = proc[p].session, q.messages = proc[p].messages,
         q.archive = proc[p].archive, q.of = proc[p].of,
         Saves(p, proc[p].session, q), UNCHANGED <<said, deleted, overwritten>>
  PROVE  Moved(p) /\ Kinds(p)
<1> DEFINE r == proc[p]
           s == r.session
<1>1. r \in Process /\ Good(p, r) /\ (p \in Screens \/ p \in Lines)
      /\ ~(p \in Screens /\ p \in Lines)
  BY ProcessOf
<1>2. left \in [Countable -> Nat] /\ AllPlaced /\ overwritten \in SUBSET Sessions
  BY DEF Typed
<1>3. s \in Sessions /\ r.of = s
  BY <1>1 DEF Good, PlacedAt, ScreenPlaced, LinePlaced
<1>4. ASSUME NEW v, Moves(p, v), Good(p, v), v.at = "chat", v.session = s,
             v.messages = r.messages, v.archive = r.archive, v.of = r.of, SaveSucceeds(p, s)
      PROVE  Moved(p) /\ Kinds(p)
  <2>1. /\ AllPlaced' /\ proc'[p] = v
        /\ \A o \in Processes \ {p} : proc'[o] = proc[o]
    BY <1>2, <1>4, OneMoves
  <2>2. Stores(p)
    BY <1>2, <1>3, <1>4, <2>1 DEF Stores, SaveSucceeds, Keeps, At
  <2> QED BY <1>2, <1>4, <2>1, <2>2 DEF Moved, Kinds, SaveSucceeds
<1>5. CASE p \in Screens
  <2>1. CASE SaveSucceeds(p, s) /\ Moves(p, [q EXCEPT !.unsaved = FALSE])
    <3> DEFINE v == [q EXCEPT !.unsaved = FALSE]
    <3>1. Good(p, v) /\ Moves(p, v)
      BY <2>1
    <3>2. /\ v.at = "chat" /\ v.session = s /\ v.messages = r.messages
          /\ v.archive = r.archive /\ v.of = r.of
      BY UnsavedOnly
    <3> HIDE DEF v, r
    <3> QED BY <1>4, <2>1, <3>1, <3>2
  <2>2. CASE /\ SaveFails(p, s) /\ Moves(p, [q EXCEPT !.unsaved = TRUE])
             /\ UNCHANGED <<exported, reported>>
    <3> DEFINE v == [q EXCEPT !.unsaved = TRUE]
    <3>1. Good(p, v) /\ Moves(p, v)
      BY <2>2
    <3>2. /\ v.at = "chat" /\ v.messages = r.messages
          /\ v.archive = r.archive /\ v.of = r.of /\ v.unsaved
      BY UnsavedOnly
    <3> HIDE DEF v
    <3>3. /\ AllPlaced' /\ proc'[p] = v
          /\ \A o \in Processes \ {p} : proc'[o] = proc[o]
      BY <1>2, <3>1, OneMoves
    <3>4. UNCHANGED db /\ left' \in [Countable -> Nat]
      BY <1>3, <2>2, Failing
    <3>5. ~Rested(p)' /\ ~Shows(p)' /\ ~At(p, "loading archive")'
      BY <1>1, <1>5, <3>2, <3>3 DEF Rested, Shows, At
    <3>6. Walks(p)
      BY <2>2, <3>2, <3>3, <3>4, <3>5 DEF Walks, Keeps
    <3> QED BY <3>3, <3>4, <3>6 DEF Moved, Kinds
  <2> QED BY <1>5, <2>1, <2>2 DEF Saves, ChatSaves
<1>6. CASE p \notin Screens
  <2>1. CASE SaveSucceeds(p, s) /\ Moves(p, q)
    <3> HIDE DEF r
    <3> QED BY <1>4, <2>1 DEF r
  <2>2. CASE SaveFails(p, s) /\ Exports(p) /\ Moves(p, q)
    <3>3. /\ AllPlaced' /\ proc'[p] = q
          /\ \A o \in Processes \ {p} : proc'[o] = proc[o]
      BY <1>2, <2>2, OneMoves
    <3>4. UNCHANGED db /\ left' \in [Countable -> Nat]
      BY <1>3, <2>2, Failing
    <3>5. ~Shows(p)' /\ ~At(p, "loading archive")'
      BY <1>6, <3>3 DEF Shows, At
    <3>6. Rescues(p)
      BY <1>2, <2>2, <3>3, <3>4, <3>5 DEF Rescues, Keeps
    <3> QED BY <3>3, <3>4, <3>6 DEF Moved, Kinds
  <2> QED BY <1>6, <2>1, <2>2 DEF Saves, LineSaves
<1> QED BY <1>5, <1>6

\* A process that says the message of a number.
Spoken(r, n) == [Adds(r, Message(n, "plain"), r.messages) EXCEPT !.at = "turn"]

LEMMA SpeakingTurns ==
  ASSUME NEW p \in Processes, NEW r, Good(p, r), r.at \in {"chat", "turn"}, NEW n \in Nat
  PROVE  /\ Good(p, Spoken(r, n)) /\ Spoken(r, n).at = "turn" /\ Spoken(r, n).of = r.of
         /\ Spoken(r, n).messages = r.messages \o <<Message(n, "plain")>>
         /\ Spoken(r, n).archive = Append(r.archive, Event(n, Message(n, "plain")))
<1> DEFINE m == Message(n, "plain")
           a == Adds(r, m, r.messages)
           v == [a EXCEPT !.at = "turn"]
           ms == r.messages \o <<m>>
           as == Append(r.archive, Event(n, m))
<1>1. r \in Process /\ PlacedAt(p, r) /\ p \in Screens \union Lines
      /\ r.messages \in Seq(Messages) /\ r.archive \in Seq(Events)
  BY DEF Good, Processes, Process
<1>2. m \in Messages /\ Event(n, m) \in Events /\ m.n = n
  BY DEF Message, Messages, Forms, Event, Events
<1>3. ms \in Seq(Messages) /\ as \in Seq(Events)
  <2>1. <<m>> \in Seq(Messages)
    BY <1>2
  <2>2. ms \in Seq(Messages)
    BY <1>1, <2>1, ConcatProperties
  <2> QED BY <1>1, <1>2, <2>2, AppendProperties
<1>4. a = [r EXCEPT !.messages = ms, !.archive = as]
  BY <1>2 DEF Adds
<1>a. Spoken(r, n) = v
  BY DEF Spoken
<1> HIDE DEF ms, as, a
<1>5. /\ a \in Process /\ a.at = r.at /\ a.next = r.next /\ a.session = r.session
      /\ a.active = r.active /\ a.blind = r.blind /\ a.signalled = r.signalled
      /\ a.engine = r.engine /\ a.of = r.of /\ a.messages = ms /\ a.archive = as
  BY <1>1, <1>3, <1>4 DEF Process
<1>6. /\ v \in Process /\ v.at = "turn" /\ v.next = a.next /\ v.session = a.session
      /\ v.active = a.active /\ v.blind = a.blind /\ v.signalled = a.signalled
      /\ v.engine = a.engine /\ v.of = a.of /\ v.messages = ms /\ v.archive = as
  BY <1>5 DEF Process, Places
<1> HIDE DEF v
<1>7. PlacedAt(p, v)
  BY <1>1, <1>5, <1>6 DEF PlacedAt, ScreenPlaced, LinePlaced
<1> QED BY <1>a, <1>5, <1>6, <1>7 DEF Good, ms, as

LEMMA ShrinkingTurns ==
  ASSUME NEW p \in Processes, NEW r, Good(p, r), r.at \in {"chat", "turn"},
         Len(r.messages) > 2
  PROVE  LET ms == <<Message(0, "summary"), Last(r.messages)>>
             q == [r EXCEPT !.at = "turn", !.messages = ms]
         IN  /\ Good(p, q) /\ q.at = "turn" /\ q.of = r.of
             /\ q.messages = ms /\ q.archive = r.archive
<1> DEFINE ms == <<Message(0, "summary"), Last(r.messages)>>
           a == [r EXCEPT !.messages = ms]
           q == [a EXCEPT !.at = "turn"]
<1>1. r \in Process /\ PlacedAt(p, r) /\ p \in Screens \union Lines
      /\ r.messages \in Seq(Messages)
  BY DEF Good, Processes, Process
<1>2. ms \in Seq(Messages)
  <2>1. Len(r.messages) \in 1..Len(r.messages)
    BY <1>1, LenProperties
  <2>2. Last(r.messages) \in Messages
    BY <1>1, <2>1, ElementOfSeq DEF Last
  <2>3. Message(0, "summary") \in Messages
    BY DEF Message, Messages, Forms
  <2> QED BY <2>2, <2>3
<1> HIDE DEF ms
<1>5. /\ a \in Process /\ a.at = r.at /\ a.next = r.next /\ a.session = r.session
      /\ a.active = r.active /\ a.blind = r.blind /\ a.signalled = r.signalled
      /\ a.engine = r.engine /\ a.of = r.of /\ a.messages = ms /\ a.archive = r.archive
  BY <1>1, <1>2 DEF Process
<1>4. [r EXCEPT !.at = "turn", !.messages = ms] = q
  BY <1>1 DEF Process
<1> HIDE DEF a
<1>6. /\ q \in Process /\ q.at = "turn" /\ q.next = a.next /\ q.session = a.session
      /\ q.active = a.active /\ q.blind = a.blind /\ q.signalled = a.signalled
      /\ q.engine = a.engine /\ q.of = a.of /\ q.messages = ms /\ q.archive = a.archive
  BY <1>5 DEF Process, Places
<1> HIDE DEF q
<1>7. PlacedAt(p, q)
  BY <1>1, <1>5, <1>6 DEF PlacedAt, ScreenPlaced, LinePlaced
<1> QED BY <1>4, <1>5, <1>6, <1>7 DEF Good, ms

LEMMA ChatKinds ==
  ASSUME Typed, NEW p \in Processes, Chat(p)
  PROVE  Moved(p) /\ Kinds(p)
<1> DEFINE r == proc[p]
           s == r.session
<1>1. r \in Process /\ Good(p, r) /\ (p \in Screens \/ p \in Lines)
      /\ ~(p \in Screens /\ p \in Lines)
  BY ProcessOf
<1>2. left \in [Countable -> Nat] /\ AllPlaced /\ overwritten \in SUBSET Sessions
      /\ SaidFresh
  BY DEF Typed
<1>3. r.at \in {"chat", "turn"} => s \in Sessions /\ r.of = s
  BY <1>1 DEF Good, PlacedAt, ScreenPlaced, LinePlaced
<1>4. ASSUME NEW q, Good(p, q), q.at = "leaving", p \in Screens, r.at = "chat",
             q.messages = r.messages, q.archive = r.archive, q.of = r.of,
             UNCHANGED <<said, deleted, overwritten>>, LeavesSaved(p, q)
      PROVE  Moved(p) /\ Kinds(p)
  <2>1. /\ Moves(p, q) /\ UNCHANGED <<exported, reported, left>>
        /\ (~r.unsaved /\ UNCHANGED db) \/ SaveSucceeds(p, s)
    BY <1>4 DEF LeavesSaved, SaveSucceeds
  <2>2. /\ AllPlaced' /\ proc'[p] = q
        /\ \A o \in Processes \ {p} : proc'[o] = proc[o]
    BY <1>2, <1>4, <2>1, OneMoves
  <2>3. CASE ~r.unsaved /\ UNCHANGED db
    <3>1. Walks(p)
      BY <1>4, <2>1, <2>2, <2>3 DEF Walks, Keeps, Rested, Shows, At
    <3> QED BY <1>2, <2>1, <2>2, <3>1 DEF Moved, Kinds
  <2>4. CASE SaveSucceeds(p, s)
    <3>1. Stores(p)
      BY <1>2, <1>3, <1>4, <2>1, <2>2, <2>4 DEF Stores, SaveSucceeds, Keeps, Shows, At
    <3> QED BY <1>2, <2>1, <2>2, <3>1 DEF Moved, Kinds
  <2> QED BY <2>1, <2>3, <2>4
<1>5. CASE Says(p)
  <2> DEFINE n == Fresh
             m == Message(n, "plain")
             q == [Adds(r, m, r.messages) EXCEPT !.at = "turn"]
  <2>1. /\ r.at \in {"chat", "turn"} /\ Moves(p, q) /\ Spend("said")
        /\ said' = [said EXCEPT ![s] = @ \union {m.n}]
        /\ UNCHANGED <<db, exported, reported, deleted, overwritten>>
    BY <1>5 DEF Says, At
  <2>2. m.n = n /\ n \in Nat
    BY <1>2, FreshIsNew DEF Message
  <2> HIDE DEF n
  <2>3. /\ Good(p, q) /\ q.at = "turn" /\ q.of = r.of
        /\ q.messages = r.messages \o <<m>>
        /\ q.archive = Append(r.archive, Event(n, m))
    <3>1. Good(p, r) /\ r.at \in {"chat", "turn"} /\ n \in Nat
      BY <1>1, <2>1, <2>2
    <3>2. q = Spoken(r, n)
      BY DEF Spoken
    <3> HIDE DEF q, r
    <3> QED BY <3>1, <3>2, SpeakingTurns
  <2>4. left' \in [Countable -> Nat]
    BY <2>1, Spending DEF Countable
  <2> HIDE DEF q
  <2>5. /\ AllPlaced' /\ proc'[p] = q
        /\ \A o \in Processes \ {p} : proc'[o] = proc[o]
    BY <1>2, <2>1, <2>3, OneMoves
  <2>6. Speaks(p)
    BY <1>3, <2>1, <2>2, <2>3, <2>5 DEF Speaks, At, n
  <2> QED BY <2>4, <2>5, <2>6 DEF Moved, Kinds
<1>6. CASE Compacts(p)
  <2> DEFINE ms == <<Message(0, "summary"), Last(r.messages)>>
             q == [r EXCEPT !.at = "turn", !.messages = ms]
  <2>1. /\ r.at \in {"chat", "turn"} /\ Moves(p, q) /\ Spend("compactions")
        /\ Len(r.messages) > 2
        /\ UNCHANGED <<db, exported, reported, said, deleted, overwritten>>
    BY <1>6 DEF Compacts, At
  <2>2. /\ Good(p, q) /\ q.at = "turn" /\ q.of = r.of
        /\ q.messages = ms /\ q.archive = r.archive
    BY <1>1, <2>1, ShrinkingTurns
  <2>3. left' \in [Countable -> Nat]
    BY <2>1, Spending DEF Countable
  <2> HIDE DEF q
  <2>4. /\ AllPlaced' /\ proc'[p] = q
        /\ \A o \in Processes \ {p} : proc'[o] = proc[o]
    BY <1>2, <2>1, <2>2, OneMoves
  <2>5. Shrinks(p)
    BY <2>1, <2>2, <2>4 DEF Shrinks, At
  <2> QED BY <2>3, <2>4, <2>5 DEF Moved, Kinds
<1>7. CASE TurnEnds(p)
  <2> DEFINE q == [r EXCEPT !.at = "chat"]
  <2>1. r.at = "turn" /\ Saves(p, s, q) /\ UNCHANGED <<said, deleted, overwritten>>
    BY <1>7 DEF TurnEnds, At
  <2>2. Good(p, q) /\ \A b \in BOOLEAN : Good(p, [q EXCEPT !.unsaved = b])
    BY <1>1, <2>1, TurnsOfChat
  <2>3. /\ q.at = "chat" /\ q.session = r.session /\ q.messages = r.messages
        /\ q.archive = r.archive /\ q.of = r.of
    BY <1>1 DEF Process
  <2> HIDE DEF q
  <2> QED BY <2>1, <2>2, <2>3, SavingKinds
<1>8. CASE CommandSaves(p)
  <2>1. r.at = "chat" /\ Saves(p, s, r) /\ UNCHANGED <<said, deleted, overwritten>>
    BY <1>8 DEF CommandSaves, At
  <2>2. \A b \in BOOLEAN : Good(p, [r EXCEPT !.unsaved = b])
    BY <1>1, <2>1, TurnsOfChat
  <2> QED BY <1>1, <2>1, <2>2, SavingKinds
<1>9. CASE ChatLeaves(p)
  <2>1. p \in Screens /\ r.at = "chat" /\ UNCHANGED <<said, deleted, overwritten>>
    BY <1>9 DEF ChatLeaves, At
  <2>2. ASSUME NEW next \in {"home", "exited"}, LeavesSaved(p, Leaving(p, next))
        PROVE  Moved(p) /\ Kinds(p)
    <3> DEFINE q == [r EXCEPT !.at = "leaving", !.next = next, !.unsaved = FALSE]
    <3>1. Good(p, q)
      BY <1>1, <2>1, TurnsOfChat
    <3>2. q.at = "leaving" /\ q.messages = r.messages /\ q.archive = r.archive /\ q.of = r.of
      BY <1>1 DEF Process
    <3>3. LeavesSaved(p, q)
      BY <2>2 DEF Leaving
    <3> HIDE DEF q, r
    <3> QED BY <1>4, <2>1, <3>1, <3>2, <3>3
  <2>3. ASSUME NEW t \in Sessions, LeavesSaved(p, [Leaving(p, "opening") EXCEPT !.session = t])
        PROVE  Moved(p) /\ Kinds(p)
    <3> DEFINE q == [[r EXCEPT !.at = "leaving", !.next = "opening", !.unsaved = FALSE]
                       EXCEPT !.session = t]
    <3>1. Good(p, q)
      BY <1>1, <2>1, TurnsOfChat
    <3>2. q.at = "leaving" /\ q.messages = r.messages /\ q.archive = r.archive /\ q.of = r.of
      BY <1>1 DEF Process
    <3>3. LeavesSaved(p, q)
      BY <2>3 DEF Leaving
    <3> HIDE DEF q, r
    <3> QED BY <1>4, <2>1, <3>1, <3>2, <3>3
  <2> QED BY <1>9, <2>2, <2>3 DEF ChatLeaves
<1>10. CASE ChatSwitches(p)
  <2> DEFINE q == Leaving(p, "switching")
  <2>1. p \in Screens /\ r.at = "chat" /\ SaveSucceeds(p, s) /\ Moves(p, q)
        /\ UNCHANGED <<said, deleted, overwritten>>
    BY <1>10 DEF ChatSwitches, At
  <2>2. Good(p, q)
    BY <1>1, <2>1, TurnsOfChat DEF Leaving
  <2>3. q.at = "leaving" /\ q.messages = r.messages /\ q.archive = r.archive /\ q.of = r.of
    BY <1>1 DEF Process, Leaving
  <2> HIDE DEF q
  <2>4. /\ AllPlaced' /\ proc'[p] = q
        /\ \A o \in Processes \ {p} : proc'[o] = proc[o]
    BY <1>2, <2>1, <2>2, OneMoves
  <2>5. Stores(p)
    BY <1>2, <1>3, <2>1, <2>3, <2>4 DEF Stores, SaveSucceeds, Keeps, Shows, At
  <2> QED BY <1>2, <2>1, <2>4, <2>5 DEF Moved, Kinds, SaveSucceeds
<1>11. CASE ChatFails(p)
  <2> DEFINE q == [r EXCEPT !.at = "ending"]
  <2>1. p \in Screens /\ r.at \in {"chat", "turn"} /\ Moves(p, q) /\ Quietly
    BY <1>11 DEF ChatFails, At
  <2>2. Good(p, q)
    BY <1>1, <2>1, TurnsOfChat
  <2>3. /\ q.at = "ending" /\ q.messages = r.messages /\ q.archive = r.archive /\ q.of = r.of
        /\ q.engine = r.engine /\ q.active = r.active
    BY <1>1 DEF Process
  <2>a. r.engine /\ r.of = r.active
    BY <1>1, <2>1 DEF Good, PlacedAt, ScreenPlaced
  <2> HIDE DEF q
  <2>4. /\ AllPlaced' /\ proc'[p] = q
        /\ \A o \in Processes \ {p} : proc'[o] = proc[o]
    BY <1>2, <2>1, <2>2, OneMoves
  <2>5. Walks(p)
    BY <2>1, <2>3, <2>4, <2>a DEF Walks, Keeps, Rested, Shows, At, Quietly
  <2> QED BY <1>2, <2>1, <2>4, <2>5 DEF Moved, Kinds, Quietly
<1>12. CASE Left(p)
  <2>1. r.at = "leaving" /\ Quietly
    BY <1>12 DEF Left, At
  <2>2. CASE r.next = "exited"
    <3>1. Moves(p, Gone(p)) /\ Good(p, Gone(p))
      BY <1>12, <2>2, BeginsWell DEF Left
    <3>2. /\ AllPlaced' /\ proc'[p] = Gone(p)
          /\ \A o \in Processes \ {p} : proc'[o] = proc[o]
      BY <1>2, <3>1, OneMoves
    <3>3. Bare(p)
      BY <3>2 DEF Bare, Gone, Begin, At
    <3>4. Drops(p)
      BY <1>2, <2>1, <3>3 DEF Drops, Quietly, Rested
    <3> QED BY <1>2, <2>1, <3>2, <3>4 DEF Moved, Kinds, Quietly
  <2>3. CASE r.next # "exited"
    <3> DEFINE q == [r EXCEPT !.at = r.next, !.active = NoSession]
    <3>1. Moves(p, q) /\ Good(p, q)
      BY <1>1, <1>12, <2>1, <2>3, TurnsOfChat DEF Left
    <3>2. /\ q.at \in {"home", "opening", "switching"}
          /\ q.messages = r.messages /\ q.archive = r.archive /\ q.of = r.of
      BY <1>1, <2>3 DEF Process
    <3> HIDE DEF q
    <3>3. /\ AllPlaced' /\ proc'[p] = q
          /\ \A o \in Processes \ {p} : proc'[o] = proc[o]
      BY <1>2, <3>1, OneMoves
    <3>4. Walks(p)
      BY <2>1, <3>2, <3>3 DEF Walks, Keeps, Rested, Shows, At, Quietly
    <3> QED BY <1>2, <2>1, <3>3, <3>4 DEF Moved, Kinds, Quietly
  <2> QED BY <2>2, <2>3
<1> QED BY <1>5, <1>6, <1>7, <1>8, <1>9, <1>10, <1>11, <1>12 DEF Chat

LEMMA LineKinds ==
  ASSUME Typed, NEW p \in Processes, Line(p)
  PROVE  Moved(p) /\ Kinds(p)
<1> DEFINE r == proc[p]
<1>1. r \in Process /\ Good(p, r) /\ (p \in Screens \/ p \in Lines)
      /\ ~(p \in Screens /\ p \in Lines)
      /\ r.messages \in Seq(Messages) /\ r.archive \in Seq(Events)
  BY ProcessOf
<1>2. left \in [Countable -> Nat] /\ AllPlaced /\ overwritten \in SUBSET Sessions
  BY DEF Typed
<1>3. CASE LineExits(p)
  <2>1. p \in Lines /\ r.at = "chat" /\ Moves(p, Gone(p)) /\ Quietly
    BY <1>3 DEF LineExits, At
  <2>2. /\ AllPlaced' /\ proc'[p] = Gone(p)
        /\ \A o \in Processes \ {p} : proc'[o] = proc[o]
    BY <1>2, <2>1, BeginsWell, OneMoves
  <2>3. Bare(p)
    BY <2>2 DEF Bare, Gone, Begin, At
  <2>4. Drops(p)
    BY <1>2, <2>1, <2>3 DEF Drops, Quietly, Rested, At
  <2> QED BY <1>2, <2>1, <2>2, <2>4 DEF Moved, Kinds, Quietly
<1>4. ASSUME NEW s \in Sessions, LineStarts(p, s) \/ LineResumes(p, s)
      PROVE  Moved(p) /\ Kinds(p)
  <2> DEFINE q == [r EXCEPT !.at = "loading", !.session = s]
  <2>1. /\ p \in Lines /\ r.at \in {"start", "chat"} /\ Moves(p, q)
        /\ db' = db \/ CreateSession(s)
        /\ UNCHANGED <<exported, reported, said, deleted, overwritten>>
    BY <1>4 DEF LineStarts, LineResumes, Quietly, At
  <2>2. left' \in [Countable -> Nat]
    BY <1>2, <1>4, Spending DEF LineStarts, LineResumes, Quietly, Countable
  <2>3. Good(p, q)
    BY <1>1, <2>1, TurnsOfLoading
  <2>4. q.at = "loading" /\ q.messages = r.messages /\ q.archive = r.archive /\ q.of = r.of
    BY <1>1 DEF Process
  <2> HIDE DEF q
  <2>5. /\ AllPlaced' /\ proc'[p] = q
        /\ \A o \in Processes \ {p} : proc'[o] = proc[o]
    BY <1>2, <2>1, <2>3, OneMoves
  <2>6. Walks(p)
    BY <2>1, <2>4, <2>5 DEF Walks, Keeps, Rested, Shows, At
  <2> QED BY <2>2, <2>5, <2>6 DEF Moved, Kinds
<1> QED BY <1>3, <1>4 DEF Line

LEMMA EndKinds ==
  ASSUME Typed, NEW p \in Processes, End(p)
  PROVE  Moved(p) /\ Kinds(p)
<1> DEFINE r == proc[p]
<1>1. r \in Process /\ Good(p, r) /\ PlacedAt(p, r) /\ (p \in Screens \/ p \in Lines)
      /\ ~(p \in Screens /\ p \in Lines)
      /\ r.messages \in Seq(Messages) /\ r.archive \in Seq(Events)
  BY ProcessOf DEF Good
<1>2. left \in [Countable -> Nat] /\ AllPlaced /\ overwritten \in SUBSET Sessions
  BY DEF Typed
<1>3. CASE Signal(p)
  <2> DEFINE q == [r EXCEPT !.signalled = TRUE]
  <2>1. /\ p \in Screens /\ r.at # "exited" /\ Moves(p, q) /\ Spend("signals")
        /\ UNCHANGED <<db, exported, reported, said, deleted, overwritten>>
    BY <1>3 DEF Signal, At
  <2>2. left' \in [Countable -> Nat]
    BY <2>1, Spending DEF Countable
  <2>3. Good(p, q)
    BY <1>1, <2>1, TurnsOfChat
  <2>4. /\ q.at = r.at /\ q.messages = r.messages /\ q.archive = r.archive /\ q.of = r.of
        /\ q.session = r.session /\ q.unsaved = r.unsaved /\ q.engine = r.engine
        /\ q.active = r.active
    BY <1>1 DEF Process
  <2> HIDE DEF q
  <2>5. /\ AllPlaced' /\ proc'[p] = q
        /\ \A o \in Processes \ {p} : proc'[o] = proc[o]
    BY <1>2, <2>1, <2>3, OneMoves
  <2>6. Walks(p)
    BY <2>1, <2>4, <2>5 DEF Walks, Keeps, Rested, Shows, At
  <2> QED BY <2>2, <2>5, <2>6 DEF Moved, Kinds
<1>4. CASE ChatShutsDown(p)
  <2>1. r.at = "chat" /\ r.signalled /\ UNCHANGED <<said, deleted, overwritten>>
    BY <1>4 DEF ChatShutsDown, At
  <2>2. p \in Screens /\ r.session \in Sessions /\ r.of = r.session /\ r.active = r.session
        /\ r.engine
    BY <1>1, <2>1 DEF PlacedAt, ScreenPlaced, LinePlaced
  <2>3. CASE SaveSucceeds(p, r.session) /\ Moves(p, Leaving(p, "exited"))
    <3> DEFINE q == Leaving(p, "exited")
    <3>1. Good(p, q)
      BY <1>1, <2>1, <2>2, TurnsOfChat DEF Leaving
    <3>2. q.at = "leaving" /\ q.messages = r.messages /\ q.archive = r.archive /\ q.of = r.of
      BY <1>1 DEF Process, Leaving
    <3>3. Moves(p, q)
      BY <2>3
    <3> HIDE DEF q
    <3>4. /\ AllPlaced' /\ proc'[p] = q
          /\ \A o \in Processes \ {p} : proc'[o] = proc[o]
      BY <1>2, <3>1, <3>3, OneMoves
    <3>5. Stores(p)
      BY <1>2, <2>1, <2>2, <2>3, <3>2, <3>4 DEF Stores, SaveSucceeds, Keeps, Shows, At
    <3> QED BY <1>2, <2>3, <3>4, <3>5 DEF Moved, Kinds, SaveSucceeds
  <2>4. CASE /\ SaveFails(p, r.session) /\ Moves(p, [r EXCEPT !.at = "ending"])
             /\ UNCHANGED <<exported, reported>>
    <3> DEFINE q == [r EXCEPT !.at = "ending"]
    <3>1. Good(p, q)
      BY <1>1, <2>1, <2>2, TurnsOfChat
    <3>2. /\ q.at = "ending" /\ q.messages = r.messages /\ q.archive = r.archive
          /\ q.of = r.of /\ q.engine = r.engine /\ q.active = r.active
      BY <1>1 DEF Process
    <3>3. Moves(p, q)
      BY <2>4
    <3> HIDE DEF q
    <3>4. /\ AllPlaced' /\ proc'[p] = q
          /\ \A o \in Processes \ {p} : proc'[o] = proc[o]
      BY <1>2, <3>1, <3>3, OneMoves
    <3>5. UNCHANGED db /\ left' \in [Countable -> Nat]
      BY <2>2, <2>4, Failing
    <3>6. Walks(p)
      BY <2>1, <2>2, <2>4, <3>2, <3>4, <3>5 DEF Walks, Keeps, Rested, Shows, At
    <3> QED BY <3>4, <3>5, <3>6 DEF Moved, Kinds
  <2> QED BY <1>4, <2>3, <2>4 DEF ChatShutsDown
<1>5. CASE Forced(p)
  <2> DEFINE q == [r EXCEPT !.at = "ending"]
  <2>1. /\ r.signalled /\ r.at \in {"opening", "preparing", "switching", "turn", "leaving"}
        /\ Moves(p, q) /\ Quietly
    BY <1>5 DEF Forced
  <2>2. r.at = "turn" => r.engine /\ r.of = r.active
    BY <1>1, <2>1 DEF PlacedAt, ScreenPlaced, LinePlaced
  <2>3. Good(p, q)
    BY <1>1, <2>1, TurnsOfChat
  <2>4. /\ q.at = "ending" /\ q.messages = r.messages /\ q.archive = r.archive /\ q.of = r.of
        /\ q.engine = r.engine /\ q.active = r.active
    BY <1>1 DEF Process
  <2> HIDE DEF q
  <2>5. /\ AllPlaced' /\ proc'[p] = q
        /\ \A o \in Processes \ {p} : proc'[o] = proc[o]
    BY <1>2, <2>1, <2>3, OneMoves
  <2>6. Walks(p)
    BY <2>1, <2>2, <2>4, <2>5 DEF Walks, Keeps, Rested, Shows, At, Quietly
  <2> QED BY <1>2, <2>1, <2>5, <2>6 DEF Moved, Kinds, Quietly
<1>6. CASE Ends(p)
  <2> DEFINE s == r.active
  <2>1. /\ r.at = "ending" /\ UNCHANGED <<said, deleted>>
        /\ overwritten' = overwritten \union (IF r.blind THEN {s} ELSE {})
    BY <1>6 DEF Ends, At
  <2>2. /\ p \in Screens /\ s \in Sessions \union {NoSession}
        /\ s = NoSession \/ r.blind \/ (r.of = s /\ r.engine)
        /\ r.blind => s # NoSession
    BY <1>1, <2>1 DEF PlacedAt, ScreenPlaced, LinePlaced, Process
  <2>3. overwritten \subseteq overwritten' /\ overwritten' \subseteq Sessions
        /\ (r.blind => s \in overwritten')
    BY <1>2, <2>1, <2>2
  <2>4. Moves(p, Gone(p))
    BY <1>6 DEF Ends, LineSaves
  <2>5. /\ AllPlaced' /\ proc'[p] = Gone(p)
        /\ \A o \in Processes \ {p} : proc'[o] = proc[o]
    BY <1>2, <2>4, BeginsWell, OneMoves
  <2>6. Bare(p) /\ ~Shows(p)' /\ ~At(p, "loading archive")'
    BY <2>5 DEF Bare, Gone, Begin, At, Shows
  <2>7. CASE s = NoSession \/ ~r.engine
    <3>1. UNCHANGED <<db, exported, reported, left>>
      BY <1>6, <2>7 DEF Ends
    <3>2. Rested(p) \/ r.of = NoSession
      BY <2>1, <2>7 DEF Rested, At
    <3>3. Drops(p)
      BY <2>1, <2>3, <2>6, <3>1, <3>2 DEF Drops
    <3> QED BY <1>2, <2>5, <3>1, <3>3 DEF Moved, Kinds
  <2>8. CASE s # NoSession /\ r.engine
    <3>1. s \in Sessions /\ LineSaves(p, s, Gone(p))
      BY <1>6, <2>2, <2>8 DEF Ends
    <3>2. CASE SaveSucceeds(p, s)
      <4>1. r.of = s \/ (r.blind /\ Rested(p))
        BY <2>1, <2>2, <2>8 DEF Rested, At
      <4>2. Stores(p)
        BY <2>1, <2>3, <2>6, <3>1, <3>2, <4>1 DEF Stores, SaveSucceeds
      <4> QED BY <1>2, <2>5, <3>2, <4>2 DEF Moved, Kinds, SaveSucceeds
    <3>3. CASE SaveFails(p, s) /\ Exports(p)
      <4>1. UNCHANGED db /\ left' \in [Countable -> Nat]
        BY <3>1, <3>3, Failing
      <4>2. Rescues(p)
        BY <2>1, <2>3, <2>6, <3>3, <4>1 DEF Rescues
      <4> QED BY <2>5, <4>1, <4>2 DEF Moved, Kinds
    <3> QED BY <3>1, <3>2, <3>3 DEF LineSaves
  <2> QED BY <2>7, <2>8
<1> QED BY <1>3, <1>4, <1>5, <1>6 DEF End

LEMMA StepKinds ==
  ASSUME Typed, NEW p \in Processes, Home(p) \/ Open(p) \/ Chat(p) \/ Line(p) \/ End(p)
  PROVE  Moved(p) /\ Kinds(p)
BY HomeKinds, OpenKinds, ChatKinds, LineKinds, EndKinds

\* What a step does to the database.
StoreSteps(p) ==
    \/ db' = db
    \/ \E s \in Sessions : CreateSession(s) \/ ReadMessagesOf(s) \/ Saved(p, s)
    \/ \E s \in Sessions : Live(s) /\ DeleteSession(s)

LEMMA KindsOfStore ==
  ASSUME NEW p, Kinds(p)
  PROVE  StoreSteps(p)
<1>1. ASSUME Walks(p) \/ Drops(p) \/ Rescues(p) \/ Completes(p) \/ Speaks(p) \/ Shrinks(p)
      PROVE  StoreSteps(p)
  BY <1>1 DEF Walks, Drops, Rescues, Completes, Speaks, Shrinks, StoreSteps
<1>2. ASSUME Removes(p) \/ Stores(p) \/ Fetches(p)
      PROVE  StoreSteps(p)
  BY <1>2 DEF Removes, Stores, Fetches, StoreSteps
<1> QED BY <1>1, <1>2 DEF Kinds

LEMMA StoreStaysTyped ==
  ASSUME Typed, NEW p \in Processes, StoreSteps(p)
  PROVE  StoreTyped'
<1>1. StoreTyped /\ proc[p].messages \in Seq(Messages) /\ proc[p].archive \in Seq(Events)
  BY ProcessOf DEF Typed
<1>2. CASE db' = db
  BY <1>1, <1>2 DEF StoreTyped
<1>3. ASSUME NEW s \in Sessions, CreateSession(s) \/ ReadMessagesOf(s) \/ Saved(p, s)
      PROVE  StoreTyped'
  BY <1>1, <1>3, Creating, Reading, Saving DEF Saved
<1>4. ASSUME NEW s \in Sessions, DeleteSession(s)
      PROVE  StoreTyped'
  BY <1>1, <1>4, Deleting
<1> QED BY <1>2, <1>3, <1>4 DEF StoreSteps

LEMMA HeldIsNatural ==
  ASSUME NEW archive \in Seq(Events)
  PROVE  Archived(archive) \in SUBSET Nat
<1>1. \A i \in DOMAIN archive : archive[i] \in Events
  BY LenProperties, ElementOfSeq
<1> QED BY <1>1 DEF Archived, Events, Messages

LEMMA KeepsTyped ==
  ASSUME Typed, NEW p \in Processes, Moved(p), Kinds(p)
  PROVE  Typed'
<1>1. StoreTyped' /\ AllPlaced' /\ left' \in [Countable -> Nat]
  BY KindsOfStore, StoreStaysTyped DEF Moved
<1>2. /\ said \in [Sessions -> SUBSET Nat] /\ SaidFresh /\ StoreTyped
      /\ exported \in SUBSET Nat /\ reported \in SUBSET Nat /\ deleted \in SUBSET Nat
      /\ overwritten \in SUBSET Sessions
  BY DEF Typed
<1>3. said' \in [Sessions -> SUBSET Nat] /\ SaidFresh'
  <2>1. CASE said' = said
    BY <1>2, <2>1 DEF SaidFresh, Said, Old
  <2>2. CASE Speaks(p)
    BY <1>2, <2>2, SayingKeepsFresh DEF Speaks
  <2> QED BY <2>1, <2>2 DEF Kinds, Walks, Removes, Drops, Stores, Rescues, Fetches, Completes, Shrinks
<1>4. exported' \in SUBSET Nat /\ reported' \in SUBSET Nat
  <2>1. Held(p) \in SUBSET Nat
    BY ProcessOf, HeldIsNatural DEF Held
  <2>2. (exported' = exported /\ reported' = reported) \/ Exports(p)
    BY DEF Kinds, Walks, Removes, Drops, Stores, Rescues, Fetches, Completes, Speaks, Shrinks
  <2> QED BY <1>2, <2>1, <2>2 DEF Exports
<1>5. deleted' \in SUBSET Nat
  <2>1. deleted' = deleted \/ \E s \in Sessions : deleted' = deleted \union Archived(db[s].archive)
    BY DEF Kinds, Walks, Removes, Drops, Stores, Rescues, Fetches, Completes, Speaks, Shrinks
  <2>2. \A s \in Sessions : Archived(db[s].archive) \in SUBSET Nat
    BY <1>2, RowFields, HeldIsNatural
  <2> QED BY <1>2, <2>1, <2>2
<1>6. overwritten' \in SUBSET Sessions
  BY <1>2 DEF Kinds, Walks, Removes, Drops, Stores, Rescues, Fetches, Completes, Speaks, Shrinks
<1> QED BY <1>1, <1>3, <1>4, <1>5, <1>6 DEF Typed

LEMMA MigratedRow ==
  ASSUME NEW messages \in Seq(Messages), NEW archive \in Seq(Events)
  PROVE  /\ Migrated(messages, archive) \in Rows
         /\ Migrated(messages, archive).life = "live"
         /\ Migrated(messages, archive).messages = messages
         /\ Migrated(messages, archive).unreadable = Having({"broken"}, messages)
         /\ Archived(Migrated(messages, archive).archive) =
              IF archive = <<>> THEN Numbers(messages) ELSE Archived(archive)
<1> DEFINE got == [i \in DOMAIN messages |-> Replaced(messages[i], {"broken"})]
           kept == IF archive = <<>> THEN Recorded(got) ELSE archive
           aside == Having({"broken"}, messages)
<1>1. Len(messages) \in Nat /\ DOMAIN messages = 1..Len(messages)
      /\ \A i \in DOMAIN messages : messages[i] \in Messages
  BY LenProperties, ElementOfSeq
<1>2. \A m \in Messages : /\ Replaced(m, {"broken"}) \in Messages
                          /\ Replaced(m, {"broken"}).n = m.n
  BY DEF Messages, Message, Replaced, Forms
<1>3. got \in Seq(Messages)
  <2>1. got = [i \in 1..Len(messages) |-> Replaced(messages[i], {"broken"})]
    BY <1>1
  <2>2. \A i \in 1..Len(messages) : Replaced(messages[i], {"broken"}) \in Messages
    BY <1>1, <1>2
  <2> QED BY <1>1, <2>1, <2>2, IsASeq
<1>4. Numbers(got) = Numbers(messages)
  <2>1. DOMAIN got = DOMAIN messages /\ \A i \in DOMAIN messages : got[i].n = messages[i].n
    BY <1>1, <1>2
  <2> HIDE DEF got
  <2> QED BY <2>1 DEF Numbers
<1> HIDE DEF got
<1>5. /\ Recorded(got) \in Seq(Events) /\ Archived(Recorded(got)) = Numbers(got)
  BY <1>3, RecordingMessages
<1>6. kept \in Seq(Events)
      /\ Archived(kept) = IF archive = <<>> THEN Numbers(messages) ELSE Archived(archive)
  BY <1>4, <1>5
<1>7. aside \in SUBSET Nat
  <2>1. \A i \in DOMAIN messages : messages[i].n \in Nat
    BY <1>1 DEF Messages
  <2> QED BY <2>1 DEF Having
<1>8. Migrated(messages, archive) =
        [life |-> "live", messages |-> messages, archive |-> kept, unreadable |-> aside]
  BY DEF Migrated, got
<1> HIDE DEF kept, aside
<1>9. [life |-> "live", messages |-> messages, archive |-> kept, unreadable |-> aside] \in Rows
  BY <1>6, <1>7 DEF Rows
<1> QED BY <1>6, <1>8, <1>9 DEF aside

\* The database as it is found.
LEMMA RowsAtFirst ==
  ASSUME StoreInit
  PROVE  /\ StoreTyped
         /\ \A s \in Sessions :
              IF s \in DOMAIN OldMessages
              THEN /\ db[s].life = "live" /\ db[s].messages = OldMessages[s]
                   /\ db[s].unreadable = Having({"broken"}, OldMessages[s])
                   /\ Archived(db[s].archive) = IF OldArchives[s] = <<>> THEN Numbers(OldMessages[s])
                                                ELSE Archived(OldArchives[s])
              ELSE db[s].life = "never" /\ db[s].messages = <<>> /\ db[s].archive = <<>>
<1>1. \A s \in DOMAIN OldMessages : OldMessages[s] \in Seq(Messages) /\ OldArchives[s] \in Seq(Events)
  BY StoreAssumption
<1>2. NoRow \in Rows
  <2>1. <<>> \in Seq(Messages) /\ <<>> \in Seq(Events) /\ {} \in SUBSET Nat
    BY EmptySeq
  <2> QED BY <2>1 DEF NoRow, Rows
<1> DEFINE row(s) == IF s \in DOMAIN OldMessages
                     THEN Migrated(OldMessages[s], OldArchives[s]) ELSE NoRow
<1>3. db = [s \in Sessions |-> row(s)]
  BY DEF StoreInit
<1>4. \A s \in Sessions : row(s) \in Rows
  BY <1>1, <1>2, MigratedRow
<1>5. \A s \in Sessions :
        IF s \in DOMAIN OldMessages
        THEN /\ row(s).life = "live" /\ row(s).messages = OldMessages[s]
             /\ row(s).unreadable = Having({"broken"}, OldMessages[s])
             /\ Archived(row(s).archive) = IF OldArchives[s] = <<>> THEN Numbers(OldMessages[s])
                                           ELSE Archived(OldArchives[s])
        ELSE row(s).life = "never" /\ row(s).messages = <<>> /\ row(s).archive = <<>>
  BY <1>1, MigratedRow DEF NoRow
<1> HIDE DEF row
<1>6. StoreTyped /\ \A s \in Sessions : db[s] = row(s)
  BY <1>3, <1>4 DEF StoreTyped
<1> QED BY <1>5, <1>6

LEMMA BeginsTyped == Init => Typed
<1> SUFFICES ASSUME Init PROVE Typed
  OBVIOUS
<1>1. StoreTyped
  BY RowsAtFirst DEF Init
<1>2. AllPlaced
  BY BeginsWell DEF Init, AllPlaced, Good
<1>3. said = [s \in Sessions |-> {}] /\ Said = {}
  BY DEF Init, Said
<1>4. SaidFresh
  BY <1>3, FS_EmptySet DEF SaidFresh
<1>5. left \in [Countable -> Nat]
  BY FrontendsAssumption DEF Init
<1> QED BY <1>1, <1>2, <1>3, <1>4, <1>5 DEF Typed, Init

LEMMA StaysTyped ==
  ASSUME Typed, [Next]_vars
  PROVE  Typed'
<1>1. CASE UNCHANGED vars
  BY <1>1 DEF vars, Typed, StoreTyped, AllPlaced, SaidFresh, Said, Old
<1>2. CASE Next
  BY <1>2, StepKinds, KeepsTyped DEF Next
<1> QED BY <1>1, <1>2

LEMMA AlwaysTyped == Spec => []Typed
BY BeginsTyped, StaysTyped, PTL DEF Spec

\* The variables stay of their types.
THEOREM SessionTypes == Spec => []TypeOK
<1>1. Typed => TypeOK
  BY DEF Typed, TypeOK, StoreTyped, AllPlaced
<1> QED BY <1>1, AlwaysTyped, PTL

-----------------------------------------------------------------------------
(* The archive of a session is a log.                                      *)

Blank == \A s \in Sessions : ~Live(s) => db[s].messages = <<>> /\ db[s].archive = <<>>

OldLives == \A s \in DOMAIN OldMessages : db[s].life # "never"

LEMMA RowsInOrder ==
  ASSUME Typed, Blank, OldLives, NEW p \in Processes, StoreSteps(p)
  PROVE  Blank' /\ OldLives'
<1>1. StoreTyped /\ proc[p].messages \in Seq(Messages) /\ proc[p].archive \in Seq(Events)
  BY ProcessOf DEF Typed
<1>2. \A s \in DOMAIN OldMessages : s \in Sessions
  BY StoreAssumption
<1>3. CASE db' = db
  BY <1>3 DEF Blank, OldLives, Live
<1>4. ASSUME NEW s \in Sessions, CreateSession(s)
      PROVE  Blank' /\ OldLives'
  <2>1. db[s].life = "never" /\ db'[s].life = "live" /\ \A t \in Sessions \ {s} : db'[t] = db[t]
    BY <1>1, <1>4, Creating
  <2> QED BY <1>2, <2>1 DEF Blank, OldLives, Live
<1>5. ASSUME NEW s \in Sessions, ReadMessagesOf(s)
      PROVE  Blank' /\ OldLives'
  <2>1. /\ db'[s].life = db[s].life /\ db'[s].messages = db[s].messages
        /\ db'[s].archive = db[s].archive /\ \A t \in Sessions \ {s} : db'[t] = db[t]
    BY <1>1, <1>5, Reading
  <2> QED BY <1>2, <2>1 DEF Blank, OldLives, Live
<1>6. ASSUME NEW s \in Sessions, Saved(p, s)
      PROVE  Blank' /\ OldLives'
  <2>1. db'[s].life = "live" /\ \A t \in Sessions \ {s} : db'[t] = db[t]
    BY <1>1, <1>6, Saving DEF Saved
  <2> QED BY <1>2, <2>1 DEF Blank, OldLives, Live
<1>7. ASSUME NEW s \in Sessions, DeleteSession(s)
      PROVE  Blank' /\ OldLives'
  <2>1. /\ db'[s].life = "gone" /\ db'[s].messages = <<>> /\ db'[s].archive = <<>>
        /\ \A t \in Sessions \ {s} : db'[t] = db[t]
    BY <1>1, <1>7, Deleting
  <2> QED BY <1>2, <2>1 DEF Blank, OldLives, Live
<1> QED BY <1>3, <1>4, <1>5, <1>6, <1>7 DEF StoreSteps

StoreInv == Typed /\ Blank /\ OldLives

LEMMA AlwaysStored == Spec => []StoreInv
<1>1. Init => StoreInv
  <2>1. Init => Blank
    BY RowsAtFirst DEF Init, Blank, Live
  <2>2. Init => OldLives
    BY RowsAtFirst, StoreAssumption DEF Init, OldLives
  <2> QED BY <2>1, <2>2, BeginsTyped DEF StoreInv
<1>2. StoreInv /\ [Next]_vars => StoreInv'
  <2> SUFFICES ASSUME StoreInv, [Next]_vars PROVE StoreInv'
    OBVIOUS
  <2>1. Typed' /\ Typed
    BY StaysTyped DEF StoreInv
  <2>2. CASE UNCHANGED vars
    BY <2>1, <2>2 DEF vars, StoreInv, Blank, OldLives, Live
  <2>3. CASE Next
    <3>1. PICK p \in Processes : StoreSteps(p)
      BY <2>1, <2>3, StepKinds, KindsOfStore DEF Next
    <3> QED BY <2>1, <3>1, RowsInOrder DEF StoreInv
  <2> QED BY <2>2, <2>3
<1> QED BY <1>1, <1>2, PTL DEF Spec

\* What a sequence is followed by leaves it a prefix.
LEMMA PrefixOfBoth ==
  ASSUME NEW E, NEW a \in Seq(E), NEW b \in Seq(E)
  PROVE  IsPrefix(a, a \o b)
<1>1. /\ Len(a) \in Nat /\ Len(b) \in Nat /\ Len(a \o b) = Len(a) + Len(b)
      /\ \A i \in 1..(Len(a) + Len(b)) : (a \o b)[i] = IF i <= Len(a) THEN a[i] ELSE b[i - Len(a)]
      /\ a \o b \in Seq(E)
  BY ConcatProperties, LenProperties
<1>2. Len(a) <= Len(a \o b)
  BY <1>1
<1>3. SubSeq(a \o b, 1, Len(a)) = SubSeq(a, 1, Len(a))
  <2>1. CASE Len(a) = 0
    <3>1. SubSeq(a, 1, 0) = <<>> /\ SubSeq(a \o b, 1, 0) = <<>>
      BY SubSeqEmpty
    <3> QED BY <2>1, <3>1
  <2>2. CASE Len(a) # 0
    <3>1. 1 \in 1..Len(a) /\ Len(a) \in 1..Len(a)
      BY <1>1, <2>2
    <3> QED BY <3>1, SubSeqOfConcat1
  <2> QED BY <2>1, <2>2
<1> QED BY <1>2, <1>3 DEF IsPrefix

\* The row of a session, as ArchiveLog sees it.
LEMMA LogOf ==
  /\ \A s \in Sessions : Log!Others(s) <=>
        \A t \in Sessions \ {s} : db'[t].life = db[t].life /\ db'[t].archive = db[t].archive
  /\ \A s \in Sessions : Log!Create(s) <=>
        db[s].life = "never" /\ db'[s].life = "live" /\ db'[s].archive = <<>> /\ Log!Others(s)
  /\ \A s \in Sessions : Log!Extend(s) <=>
        /\ db[s].life = "live" /\ db'[s].life = "live"
        /\ IsPrefix(db[s].archive, db'[s].archive) /\ Log!Others(s)
  /\ \A s \in Sessions : Log!Delete(s) <=>
        db[s].life = "live" /\ db'[s].life = "gone" /\ db'[s].archive = <<>> /\ Log!Others(s)
<1>1. ASSUME NEW s \in Sessions
      PROVE  Log!Others(s) <=>
        \A t \in Sessions \ {s} : db'[t].life = db[t].life /\ db'[t].archive = db[t].archive
  BY DEF Log!Others
<1>2. ASSUME NEW s \in Sessions
      PROVE  Log!Create(s) <=>
        db[s].life = "never" /\ db'[s].life = "live" /\ db'[s].archive = <<>> /\ Log!Others(s)
  BY DEF Log!Create
<1>3. ASSUME NEW s \in Sessions
      PROVE  Log!Extend(s) <=>
        /\ db[s].life = "live" /\ db'[s].life = "live"
        /\ IsPrefix(db[s].archive, db'[s].archive) /\ Log!Others(s)
  BY DEF Log!Extend, Log!IsPrefix, IsPrefix
<1>4. ASSUME NEW s \in Sessions
      PROVE  Log!Delete(s) <=>
        db[s].life = "live" /\ db'[s].life = "gone" /\ db'[s].archive = <<>> /\ Log!Others(s)
  BY DEF Log!Delete
<1> QED BY <1>1, <1>2, <1>3, <1>4

LEMMA LogBegins ==
  ASSUME StoreInv
  PROVE  Log!Init
<1>1. \A s \in Sessions : db[s].life \in {"never", "live", "gone"}
  BY RowFields DEF StoreInv, Typed
<1>2. \A s \in Sessions : db[s].life # "live" => db[s].archive = <<>>
  BY DEF StoreInv, Blank, Live
<1> QED BY <1>1, <1>2 DEF Log!Init

\* A step of the processes is a step of the log, or none.
LEMMA LogSteps ==
  ASSUME StoreInv, NEW p \in Processes, StoreSteps(p)
  PROVE  \/ Log!Next
         \/ \A s \in Sessions : db'[s].life = db[s].life /\ db'[s].archive = db[s].archive
<1>1. StoreTyped /\ proc[p].messages \in Seq(Messages) /\ proc[p].archive \in Seq(Events)
      /\ Blank
  BY ProcessOf DEF StoreInv, Typed
<1>2. ASSUME NEW s \in Sessions, CreateSession(s)
      PROVE  Log!Next
  <2>1. /\ db[s].life = "never" /\ db'[s].life = "live" /\ db'[s].archive = db[s].archive
        /\ \A t \in Sessions \ {s} : db'[t] = db[t]
    BY <1>1, <1>2, Creating
  <2>2. Log!Create(s)
    BY <1>1, <2>1, LogOf DEF Blank, Live
  <2> QED BY <2>2 DEF Log!Next
<1>3. ASSUME NEW s \in Sessions, ReadMessagesOf(s)
      PROVE  \A t \in Sessions : db'[t].life = db[t].life /\ db'[t].archive = db[t].archive
  BY <1>1, <1>3, Reading
<1>4. ASSUME NEW s \in Sessions, Saved(p, s)
      PROVE  Log!Next
  <2>1. /\ db[s].life = "live" /\ db'[s].life = "live"
        /\ \A t \in Sessions \ {s} : db'[t] = db[t]
        /\ \E new \in Seq(Events) : db'[s].archive = db[s].archive \o new
    BY <1>1, <1>4, Saving DEF Saved
  <2>2. IsPrefix(db[s].archive, db'[s].archive)
    BY <1>1, <2>1, RowFields, PrefixOfBoth
  <2>3. Log!Extend(s)
    BY <2>1, <2>2, LogOf
  <2> QED BY <2>3 DEF Log!Next
<1>5. ASSUME NEW s \in Sessions, Live(s), DeleteSession(s)
      PROVE  Log!Next
  <2>1. /\ db[s].life = "live" /\ db'[s].life = "gone" /\ db'[s].archive = <<>>
        /\ \A t \in Sessions \ {s} : db'[t] = db[t]
    BY <1>1, <1>5, Deleting DEF Live
  <2>2. Log!Delete(s)
    BY <2>1, LogOf
  <2> QED BY <2>2 DEF Log!Next
<1> QED BY <1>2, <1>3, <1>4, <1>5 DEF StoreSteps

\* Whatever processes save, compact, fail and delete, the archive of a session is
\* the log that ArchiveLog describes: it grows at its end while the session lives,
\* and goes as a whole with it.
THEOREM ArchivesAreLogs == Spec => ArchiveIsALog
<1>1. StoreInv => Log!Init
  BY LogBegins
<1>2. StoreInv /\ [Next]_vars
        => [Log!Next]_<<[s \in Sessions |-> db[s].life], [s \in Sessions |-> db[s].archive]>>
  <2> SUFFICES ASSUME StoreInv, [Next]_vars
               PROVE  Log!Next \/ UNCHANGED <<[s \in Sessions |-> db[s].life],
                                             [s \in Sessions |-> db[s].archive]>>
    OBVIOUS
  <2>1. CASE \A s \in Sessions : db'[s].life = db[s].life /\ db'[s].archive = db[s].archive
    BY <2>1
  <2>2. CASE UNCHANGED vars
    BY <2>2 DEF vars
  <2>3. CASE Next
    <3>1. PICK p \in Processes : StoreSteps(p)
      BY <2>3, StepKinds, KindsOfStore DEF Next, StoreInv
    <3> QED BY <2>1, <3>1, LogSteps
  <2> QED BY <2>2, <2>3
<1> QED BY <1>1, <1>2, AlwaysStored, PTL DEF Spec, ArchiveIsALog, Log!Spec

-----------------------------------------------------------------------------
(* Whose conversation is written, and over which.                          *)

LEMMA WritesItsOwn ==
  ASSUME Typed, [Next]_vars, NEW p \in Processes, NEW s \in Sessions,
         Writes(p, s), ~proc[p].blind
  PROVE  proc[p].of = s
<1>0. StoreTyped /\ proc[p].messages \in Seq(Messages) /\ proc[p].archive \in Seq(Events)
  BY ProcessOf DEF Typed
<1>1. /\ proc'[p] # proc[p] /\ db'[s].messages # db[s].messages
      /\ db[s].life = "live" /\ db'[s].life = "live"
  BY DEF Writes, Live
<1>2. Next
  BY <1>1 DEF vars
<1>3. PICK o \in Processes : Moved(o) /\ Kinds(o)
  BY <1>2, StepKinds DEF Next
<1>4. o = p
  BY <1>1, <1>3 DEF Moved
<1>5. ~(\E t \in Sessions : CreateSession(t))
  BY <1>0, <1>1, Creating
<1>6. ~(\E t \in Sessions : ReadMessagesOf(t))
  BY <1>0, <1>1, Reading
<1>7. ~(\E t \in Sessions : DeleteSession(t))
  BY <1>0, <1>1, Deleting
<1>8. db' # db
  BY <1>1
<1>9. Stores(p)
  BY <1>3, <1>4, <1>5, <1>6, <1>7, <1>8
     DEF Kinds, Walks, Removes, Drops, Rescues, Fetches, Completes, Speaks, Shrinks
<1>10. PICK t \in Sessions : Saved(p, t) /\ (proc[p].of = t \/ proc[p].blind)
  BY <1>9 DEF Stores
<1>11. \A u \in Sessions \ {t} : db'[u] = db[u]
  BY <1>0, <1>10, Saving DEF Saved
<1>12. t = s
  BY <1>1, <1>11
<1> QED BY <1>10, <1>12

\* Switching sessions, resuming another and ending in between, a process writes
\* its conversation only over the session it loaded it from, unless that load
\* failed.
THEOREM WritesOverItsOwn == Spec => SavedOverItsOwn
<1>1. Typed /\ [Next]_vars
        => [\A p \in Processes, s \in Sessions :
              Writes(p, s) /\ ~proc[p].blind => proc[p].of = s]_vars
  BY WritesItsOwn
<1> QED BY <1>1, AlwaysTyped, PTL DEF Spec, SavedOverItsOwn

-----------------------------------------------------------------------------
(* What no build can read is kept.                                         *)

\* A process that is on a session of an older build has put aside what it could
\* not read of it.
Aside(p) ==
    LET s == proc[p].of
    IN  s \in DOMAIN OldMessages /\ Live(s) /\ s \notin overwritten
          => Having(Damaged, OldMessages[s]) \subseteq db[s].unreadable

AsideInv == StoreInv /\ OriginalsKept /\ \A p \in Processes : Aside(p)

\* What is put aside of a session stays, while it lives.
LEMMA UnreadableStays ==
  ASSUME StoreInv, NEW p \in Processes, StoreSteps(p), NEW s \in DOMAIN OldMessages,
         db'[s].life = "live"
  PROVE  Live(s) /\ db[s].unreadable \subseteq db'[s].unreadable
<1>1. StoreTyped /\ proc[p].messages \in Seq(Messages) /\ proc[p].archive \in Seq(Events)
  BY ProcessOf DEF StoreInv, Typed
<1>2. s \in Sessions /\ db[s].life # "never" /\ db'[s].life = "live"
  BY StoreAssumption DEF StoreInv, OldLives, Live
<1>3. CASE db' = db
  BY <1>2, <1>3 DEF Live
<1>4. ASSUME NEW t \in Sessions, CreateSession(t)
      PROVE  Live(s) /\ db[s].unreadable \subseteq db'[s].unreadable
  <2>1. t # s
    BY <1>1, <1>2, <1>4, Creating
  <2> QED BY <1>1, <1>2, <1>4, <2>1, Creating DEF Live
<1>5. ASSUME NEW t \in Sessions, ReadMessagesOf(t)
      PROVE  Live(s) /\ db[s].unreadable \subseteq db'[s].unreadable
  <2>1. CASE t = s
    <3>1. db'[s].life = db[s].life
          /\ db'[s].unreadable = db[s].unreadable \union Having(Damaged, db[s].messages)
      BY <1>1, <1>5, <2>1, Reading
    <3> QED BY <1>2, <3>1 DEF Live
  <2>2. CASE t # s
    <3>1. db'[s] = db[s]
      BY <1>1, <1>2, <1>5, <2>2, Reading
    <3> QED BY <1>2, <3>1 DEF Live
  <2> QED BY <2>1, <2>2
<1>6. ASSUME NEW t \in Sessions, Saved(p, t)
      PROVE  Live(s) /\ db[s].unreadable \subseteq db'[s].unreadable
  <2>1. /\ \A u \in Sessions \ {t} : db'[u] = db[u]
        /\ db[t].life = "live" /\ db'[t].unreadable = db[t].unreadable
    BY <1>1, <1>6, Saving DEF Saved
  <2>2. s = t \/ db'[s] = db[s]
    BY <1>2, <2>1
  <2> QED BY <1>2, <2>1, <2>2 DEF Live
<1>7. ASSUME NEW t \in Sessions, DeleteSession(t)
      PROVE  Live(s) /\ db[s].unreadable \subseteq db'[s].unreadable
  <2>1. /\ db'[t].life = "gone" /\ \A u \in Sessions \ {t} : db'[u] = db[u]
    BY <1>1, <1>7, Deleting
  <2> QED BY <1>2, <2>1 DEF Live
<1> QED BY <1>3, <1>4, <1>5, <1>6, <1>7 DEF StoreSteps

LEMMA OverwrittenGrows ==
  ASSUME NEW p, Kinds(p)
  PROVE  overwritten \subseteq overwritten'
BY DEF Kinds, Walks, Removes, Drops, Stores, Rescues, Fetches, Completes, Speaks, Shrinks

\* Whoever was on a session keeps what it knows of what is aside.
LEMMA AsideStays ==
  ASSUME StoreInv, NEW p \in Processes, Moved(p), Kinds(p), NEW o \in Processes, Aside(o),
         proc'[o].of = proc[o].of \/ proc'[o].of = NoSession
  PROVE  Aside(o)'
<1> DEFINE s == proc[o].of
<1>0. NoSession \notin DOMAIN OldMessages
  BY FrontendsAssumption, StoreAssumption
<1>1. CASE proc'[o].of = NoSession
  BY <1>0, <1>1 DEF Aside
<1>2. CASE proc'[o].of = s
  <2>1. SUFFICES ASSUME s \in DOMAIN OldMessages, db'[s].life = "live", s \notin overwritten'
                 PROVE  Having(Damaged, OldMessages[s]) \subseteq db'[s].unreadable
    BY <1>2 DEF Aside, Live
  <2>2. Live(s) /\ db[s].unreadable \subseteq db'[s].unreadable
    BY <2>1, KindsOfStore, UnreadableStays
  <2>3. s \notin overwritten
    BY <2>1, OverwrittenGrows
  <2> QED BY <2>1, <2>2, <2>3 DEF Aside
<1> QED BY <1>1, <1>2

\* Loading a session puts aside what was still in the conversation.
LEMMA FetchingPutsAside ==
  ASSUME StoreInv, OriginalsKept, NEW p \in Processes, Fetches(p)
  PROVE  Aside(p)'
<1> DEFINE s == proc[p].session
<1>1. /\ s \in Sessions /\ proc'[p].of = s /\ overwritten' = overwritten
      /\ ReadMessagesOf(s) /\ StoreTyped
  BY DEF Fetches, StoreInv, Typed
<1>2. /\ db'[s].life = db[s].life
      /\ db'[s].unreadable = db[s].unreadable \union Having(Damaged, db[s].messages)
  BY <1>1, Reading
<1>3. SUFFICES ASSUME s \in DOMAIN OldMessages, db'[s].life = "live", s \notin overwritten'
               PROVE  Having(Damaged, OldMessages[s]) \subseteq db'[s].unreadable
  BY <1>1 DEF Aside, Live
<1>4. Live(s) /\ s \notin overwritten
  BY <1>1, <1>2, <1>3 DEF Live
<1>5. Having(Damaged, OldMessages[s])
        \subseteq Having(Damaged, db[s].messages) \union db[s].unreadable
  BY <1>3, <1>4 DEF OriginalsKept
<1> QED BY <1>2, <1>5

LEMMA AsideKept ==
  ASSUME AsideInv, NEW p \in Processes, Moved(p), Kinds(p)
  PROVE  \A o \in Processes : Aside(o)'
<1> TAKE o \in Processes
<1>1. CASE proc'[o].of = proc[o].of \/ proc'[o].of = NoSession
  BY <1>1, AsideStays DEF AsideInv
<1>2. CASE ~(proc'[o].of = proc[o].of \/ proc'[o].of = NoSession)
  <2>1. o = p
    BY <1>2 DEF Moved
  <2>2. Fetches(p)
    BY <1>2, <2>1 DEF Kinds, Keeps, Bare, Walks, Removes, Drops, Stores, Rescues, Completes,
                      Speaks, Shrinks
  <2> QED BY <2>1, <2>2, FetchingPutsAside DEF AsideInv
<1> QED BY <1>1, <1>2

LEMMA OriginalsStay ==
  ASSUME AsideInv, NEW p \in Processes, Moved(p), Kinds(p)
  PROVE  OriginalsKept'
<1>1. SUFFICES ASSUME NEW s \in DOMAIN OldMessages, db'[s].life = "live", s \notin overwritten'
               PROVE  Having(Damaged, OldMessages[s])
                        \subseteq Having(Damaged, db'[s].messages) \union db'[s].unreadable
  BY DEF OriginalsKept, Live
<1>2. /\ StoreInv /\ StoreTyped /\ s \in Sessions
      /\ proc[p].messages \in Seq(Messages) /\ proc[p].archive \in Seq(Events)
  BY ProcessOf, StoreAssumption DEF AsideInv, StoreInv, Typed
<1>3. Live(s) /\ s \notin overwritten /\ db[s].unreadable \subseteq db'[s].unreadable
  BY <1>1, <1>2, KindsOfStore, UnreadableStays, OverwrittenGrows
<1>4. Having(Damaged, OldMessages[s])
        \subseteq Having(Damaged, db[s].messages) \union db[s].unreadable
  BY <1>3 DEF AsideInv, OriginalsKept
<1>5. CASE db'[s].messages = db[s].messages
  BY <1>3, <1>4, <1>5
<1>6. CASE db'[s].messages # db[s].messages
  <2>1. ~(\E t \in Sessions : CreateSession(t))
    BY <1>2, <1>6, Creating
  <2>2. ~(\E t \in Sessions : ReadMessagesOf(t))
    BY <1>2, <1>6, Reading
  <2>3. ~(\E t \in Sessions : DeleteSession(t))
    BY <1>1, <1>2, <1>6, Deleting DEF Live
  <2>4. db' # db
    BY <1>6
  <2>5. Stores(p)
    BY <2>1, <2>2, <2>3, <2>4
       DEF Kinds, Walks, Removes, Drops, Rescues, Fetches, Completes, Speaks, Shrinks
  <2>6. PICK t \in Sessions : Saved(p, t) /\ (proc[p].of = t \/ t \in overwritten')
    BY <2>5 DEF Stores
  <2>7. \A u \in Sessions \ {t} : db'[u] = db[u]
    BY <1>2, <2>6, Saving DEF Saved
  <2>8. t = s
    BY <1>2, <1>6, <2>7
  <2>9. proc[p].of = s
    BY <1>1, <2>6, <2>8
  <2>10. Having(Damaged, OldMessages[s]) \subseteq db[s].unreadable
    BY <1>3, <2>9 DEF AsideInv, Aside
  <2> QED BY <1>3, <2>10
<1> QED BY <1>5, <1>6

\* A message that no build can read is still there as it was, in the conversation
\* or put aside, whoever reads and saves the session in whatever order.
THEOREM OriginalsAreKept == Spec => []OriginalsKept
<1>1. Init => AsideInv
  <2> SUFFICES ASSUME Init PROVE AsideInv
    OBVIOUS
  <2>1. Typed /\ StoreInit
    BY BeginsTyped DEF Init
  <2>2. Blank
    BY <2>1, RowsAtFirst DEF Blank, Live
  <2>3. OldLives
    BY <2>1, RowsAtFirst, StoreAssumption DEF OldLives
  <2>4. OriginalsKept
    BY <2>1, RowsAtFirst, StoreAssumption DEF OriginalsKept
  <2>5. \A p \in Processes : proc[p].of = NoSession
    BY DEF Init, Begin
  <2>6. \A p \in Processes : Aside(p)
    BY <2>5, FrontendsAssumption, StoreAssumption DEF Aside
  <2> QED BY <2>1, <2>2, <2>3, <2>4, <2>6 DEF AsideInv, StoreInv
<1>2. AsideInv /\ StoreInv' /\ [Next]_vars => AsideInv'
  <2> SUFFICES ASSUME AsideInv, StoreInv', [Next]_vars PROVE AsideInv'
    OBVIOUS
  <2>1. CASE UNCHANGED vars
    BY <2>1 DEF vars, AsideInv, OriginalsKept, Aside, Live
  <2>2. CASE Next
    <3>1. PICK p \in Processes : Moved(p) /\ Kinds(p)
      BY <2>2, StepKinds DEF Next, AsideInv, StoreInv
    <3> QED BY <3>1, AsideKept, OriginalsStay DEF AsideInv
  <2> QED BY <2>1, <2>2
<1>3. AsideInv => OriginalsKept
  BY DEF AsideInv
<1> QED BY <1>1, <1>2, <1>3, AlwaysStored, PTL DEF Spec

-----------------------------------------------------------------------------
(* Nothing that was said is lost.                                          *)

\* The numbers in use: an older build's, those said, and the summaries'.
Known == Old \union Said \union {0}

StoreKnown ==
    \A s \in Sessions : Archived(db[s].archive) \union Numbers(db[s].messages) \subseteq Known

\* Only an older build left events that cannot be read.
Intact ==
    \A s \in Sessions : \A k \in DOMAIN db[s].archive :
        db[s].archive[k].m.form \in Damaged => db[s].archive[k].m.n \in Old

\* What is said and in a conversation on disk is in its archive as well.
SavedWhole ==
    \A s \in Sessions : Numbers(db[s].messages) \intersect Said \subseteq Archived(db[s].archive)

Readable(p) == \A i \in DOMAIN proc[p].archive : proc[p].archive[i].m.form \notin Damaged

HeldKnown(p) == Held(p) \union Numbers(proc[p].messages) \subseteq Known

HeldWhole(p) == Numbers(proc[p].messages) \intersect Said \subseteq Held(p)

\* Between the two reads of a load another process may save, or delete.
Loading(p) ==
    At(p, "loading archive") =>
        \A n \in Held(p) \intersect Said :
            \/ n \in Archived(db[proc[p].session].archive)
            \/ db[proc[p].session].life = "gone" /\ n \in deleted

Kept(p) ==
    Rested(p) /\ proc[p].of # NoSession =>
        \A n \in Held(p) \intersect said[proc[p].of] :
            n \in Archived(db[proc[p].of].archive) \union exported \union reported \union deleted

Shown(p) ==
    Shows(p) => (Held(p) \intersect Said) \ deleted \subseteq Archived(db[proc[p].of].archive)

Holds(p) == Readable(p) /\ HeldKnown(p) /\ HeldWhole(p) /\ Loading(p) /\ Kept(p) /\ Shown(p)

Remembered ==
    \A s \in Sessions : \A n \in said[s] \ (exported \union reported \union deleted) :
        \/ n \in Archived(db[s].archive)
        \/ \E p \in Processes : proc[p].of = s /\ n \in Held(p)

LossInv ==
    /\ StoreInv /\ StoreKnown /\ Intact /\ SavedWhole
    /\ \A p \in Processes : Holds(p)
    /\ Remembered

\* What a step cannot take back.
Grows ==
    /\ \A s \in Sessions : \A n \in Archived(db[s].archive) :
          n \in Archived(db'[s].archive) \/ (db'[s].life = "gone" /\ n \in deleted')
    /\ \A s \in Sessions : db[s].life = "gone" => db'[s].life = "gone"
    /\ deleted \subseteq deleted' /\ exported \subseteq exported' /\ reported \subseteq reported'
    /\ Known \subseteq Known' /\ 0 \notin Said'
    /\ \A n \in Known : n \in Said' <=> n \in Said
    /\ \A s \in Sessions : \A n \in Known : n \in said'[s] <=> n \in said[s]

LEMMA SaidGrows ==
  ASSUME StoreInv, NEW p \in Processes, Kinds(p)
  PROVE  /\ Known \subseteq Known' /\ 0 \notin Said'
         /\ \A n \in Known : n \in Said' <=> n \in Said
         /\ \A s \in Sessions : \A n \in Known : n \in said'[s] <=> n \in said[s]
<1>1. said \in [Sessions -> SUBSET Nat] /\ SaidFresh /\ Old' = Old
  BY DEF StoreInv, Typed, Old
<1>2. CASE said' = said
  BY <1>1, <1>2 DEF Known, Said, SaidFresh
<1>3. CASE Speaks(p)
  <2>1. PICK s \in Sessions : said' = [said EXCEPT ![s] = @ \union {Fresh}]
    BY <1>3 DEF Speaks
  <2>2. /\ Said' = Said \union {Fresh}
        /\ \A t \in Sessions : said'[t] = IF t = s THEN said[t] \union {Fresh} ELSE said[t]
    BY <1>1, <2>1, SayingKeepsFresh
  <2>3. Fresh # 0 /\ Fresh \notin Old /\ Fresh \notin Said
    BY <1>1, FreshIsNew
  <2>4. Fresh \notin Known /\ 0 \notin Said
    BY <1>1, <2>3 DEF Known, SaidFresh
  <2>5. Known \subseteq Known' /\ 0 \notin Said'
    BY <1>1, <2>2, <2>3, <2>4 DEF Known
  <2>6. \A n \in Known : n \in Said' <=> n \in Said
    BY <2>2, <2>4
  <2>7. \A t \in Sessions : \A n \in Known : n \in said'[t] <=> n \in said[t]
    BY <2>2, <2>4
  <2> QED BY <2>5, <2>6, <2>7
<1> QED BY <1>2, <1>3 DEF Kinds, Walks, Removes, Drops, Stores, Rescues, Fetches, Completes, Shrinks

LEMMA StoreGrows ==
  ASSUME StoreInv, NEW p \in Processes, Kinds(p)
  PROVE  /\ \A s \in Sessions : \A n \in Archived(db[s].archive) :
               n \in Archived(db'[s].archive) \/ (db'[s].life = "gone" /\ n \in deleted')
         /\ \A s \in Sessions : db[s].life = "gone" => db'[s].life = "gone"
<1>1. StoreTyped /\ proc[p].messages \in Seq(Messages) /\ proc[p].archive \in Seq(Events)
  BY ProcessOf DEF StoreInv, Typed
<1>2. CASE db' = db
  BY <1>2
<1>3. ASSUME NEW t \in Sessions, CreateSession(t) \/ ReadMessagesOf(t)
      PROVE  \A s \in Sessions : /\ db'[s].archive = db[s].archive
                                 /\ db[s].life = "gone" => db'[s].life = "gone"
  <2>1. CASE CreateSession(t)
    BY <1>1, <2>1, Creating
  <2>2. CASE ReadMessagesOf(t)
    BY <1>1, <2>2, Reading
  <2> QED BY <1>3, <2>1, <2>2
<1>4. ASSUME NEW t \in Sessions, Saved(p, t)
      PROVE  \A s \in Sessions : /\ Archived(db[s].archive) \subseteq Archived(db'[s].archive)
                                 /\ db[s].life = "gone" => db'[s].life = "gone"
  <2>1. /\ \A u \in Sessions \ {t} : db'[u] = db[u]
        /\ db[t].life = "live" /\ Archived(db[t].archive) \subseteq Archived(db'[t].archive)
    BY <1>1, <1>4, Saving DEF Saved
  <2> QED BY <2>1
<1>5. CASE Removes(p)
  <2>1. PICK t \in Sessions : DeleteSession(t) /\ deleted' = deleted \union Archived(db[t].archive)
    BY <1>5 DEF Removes
  <2>2. db'[t].life = "gone" /\ \A u \in Sessions \ {t} : db'[u] = db[u]
    BY <1>1, <2>1, Deleting
  <2> QED BY <2>1, <2>2
<1>6. \/ db' = db \/ Removes(p)
      \/ \E t \in Sessions : CreateSession(t) \/ ReadMessagesOf(t) \/ Saved(p, t)
  BY DEF Kinds, Walks, Drops, Stores, Rescues, Fetches, Completes, Speaks, Shrinks
<1> QED BY <1>2, <1>3, <1>4, <1>5, <1>6

LEMMA EverythingGrows ==
  ASSUME StoreInv, NEW p \in Processes, Kinds(p)
  PROVE  Grows
<1>1. deleted \subseteq deleted'
  BY DEF Kinds, Walks, Removes, Drops, Stores, Rescues, Fetches, Completes, Speaks, Shrinks
<1>2. exported \subseteq exported' /\ reported \subseteq reported'
  BY DEF Kinds, Walks, Removes, Drops, Stores, Rescues, Exports, Fetches, Completes, Speaks, Shrinks
<1> QED BY <1>1, <1>2, SaidGrows, StoreGrows DEF Grows

LEMMA SafeStays ==
  ASSUME Grows, NEW s \in Sessions, NEW n,
         n \in Archived(db[s].archive) \union exported \union reported \union deleted
  PROVE  n \in Archived(db'[s].archive) \union exported' \union reported' \union deleted'
BY DEF Grows

\* What holds of a process whose conversation stays as it is.
LEMMA ContentStays ==
  ASSUME Grows, NEW p \in Processes, Keeps(p), Readable(p), HeldKnown(p), HeldWhole(p)
  PROVE  Readable(p)' /\ HeldKnown(p)' /\ HeldWhole(p)'
<1> DEFINE held == Archived(proc[p].archive)
           numbers == Numbers(proc[p].messages)
<1>1. Archived(proc'[p].archive) = held /\ Numbers(proc'[p].messages) = numbers
      /\ proc'[p].archive = proc[p].archive
  BY DEF Keeps
<1>2. held \union numbers \subseteq Known /\ numbers \intersect Said \subseteq held
  BY DEF HeldKnown, HeldWhole, Held
<1>3. Readable(p)'
  BY <1>1 DEF Readable
<1> HIDE DEF held, numbers
<1>4. held \union numbers \subseteq Known'
  BY <1>2 DEF Grows
<1>5. numbers \intersect Said' \subseteq held
  BY <1>2 DEF Grows
<1>6. HeldKnown(p)'
  BY <1>1, <1>4 DEF HeldKnown, Held
<1>7. HeldWhole(p)'
  BY <1>1, <1>5 DEF HeldWhole, Held
<1> QED BY <1>3, <1>6, <1>7

LEMMA LoadingStays ==
  ASSUME Typed, Grows, NEW p \in Processes, Keeps(p), HeldKnown(p), Loading(p),
         At(p, "loading archive")' =>
            At(p, "loading archive") /\ proc'[p].session = proc[p].session
  PROVE  Loading(p)'
<1> SUFFICES ASSUME At(p, "loading archive")', NEW n \in Held(p)', n \in Said'
             PROVE  \/ n \in Archived(db'[proc'[p].session].archive)
                    \/ db'[proc'[p].session].life = "gone" /\ n \in deleted'
  BY DEF Loading
<1> DEFINE s == proc[p].session
<1>1. At(p, "loading archive") /\ proc'[p].session = s
  OBVIOUS
<1>2. s \in Sessions
  BY <1>1, ProcessOf DEF Good, PlacedAt, ScreenPlaced, LinePlaced, At
<1>3. n \in Held(p) /\ n \in Known
  BY DEF Keeps, Held, HeldKnown
<1>4. n \in Said
  BY <1>3 DEF Grows
<1>5. n \in Archived(db[s].archive) \/ (db[s].life = "gone" /\ n \in deleted)
  BY <1>1, <1>3, <1>4 DEF Loading
<1> QED BY <1>1, <1>2, <1>5 DEF Grows

LEMMA KeptStays ==
  ASSUME Typed, Grows, NEW p \in Processes, Keeps(p), HeldKnown(p), Kept(p),
         Rested(p)' => Rested(p)
  PROVE  Kept(p)'
<1> DEFINE s == proc[p].of
<1>1. SUFFICES ASSUME Rested(p)', proc'[p].of # NoSession,
                      NEW n \in Held(p)', n \in said'[proc'[p].of]
               PROVE  n \in Archived(db'[proc'[p].of].archive) \union exported'
                              \union reported' \union deleted'
  BY DEF Kept
<1>2. Rested(p) /\ proc'[p].of = s /\ s # NoSession
  BY <1>1 DEF Keeps
<1>3. s \in Sessions
  BY <1>2, ProcessOf DEF Process
<1>4. n \in Held(p) /\ n \in Known
  BY <1>1 DEF Keeps, Held, HeldKnown
<1>5. n \in said[s]
  BY <1>1, <1>2, <1>3, <1>4 DEF Grows
<1>6. n \in Archived(db[s].archive) \union exported \union reported \union deleted
  BY <1>2, <1>4, <1>5 DEF Kept
<1>7. n \in Archived(db'[s].archive) \union exported' \union reported' \union deleted'
  BY <1>3, <1>6, SafeStays
<1> QED BY <1>2, <1>7

LEMMA ShownStays ==
  ASSUME Typed, Grows, NEW p \in Processes, Keeps(p), HeldKnown(p), Shown(p),
         Shows(p)' => Shows(p)
  PROVE  Shown(p)'
<1> DEFINE s == proc[p].of
<1>1. SUFFICES ASSUME Shows(p)', NEW n \in Held(p)', n \in Said', n \notin deleted'
               PROVE  n \in Archived(db'[proc'[p].of].archive)
  BY DEF Shown
<1>2. Shows(p) /\ proc'[p].of = s
  BY <1>1 DEF Keeps
<1>3. s \in Sessions
  BY <1>2, ProcessOf DEF Good, PlacedAt, ScreenPlaced, LinePlaced, At, Shows
<1>4. n \in Held(p) /\ n \in Known
  BY <1>1 DEF Keeps, Held, HeldKnown
<1>5. n \in Said /\ n \notin deleted
  BY <1>1, <1>4 DEF Grows
<1>6. n \in Archived(db[s].archive)
  BY <1>2, <1>4, <1>5 DEF Shown
<1> QED BY <1>1, <1>2, <1>3, <1>6 DEF Grows

LEMMA BareHolds ==
  ASSUME NEW p \in Processes, Bare(p)
  PROVE  Holds(p)'
<1>1. /\ proc'[p].messages = <<>> /\ proc'[p].archive = <<>> /\ proc'[p].of = NoSession
      /\ ~At(p, "loading archive")'
  BY DEF Bare
<1>2. Numbers(<<>>) = {} /\ Archived(<<>>) = {}
  BY DEF Numbers, Archived
<1>3. Held(p)' = {} /\ Numbers(proc'[p].messages) = {}
  BY <1>1, <1>2 DEF Held
<1>a. Readable(p)'
  <2>1. \A i \in DOMAIN <<>> : FALSE
    OBVIOUS
  <2>2. DOMAIN proc'[p].archive = DOMAIN <<>>
    BY <1>1
  <2> QED BY <2>1, <2>2, Zenon DEF Readable
<1>b. HeldKnown(p)'
  BY <1>3 DEF HeldKnown
<1>c. HeldWhole(p)'
  BY <1>3 DEF HeldWhole
<1>4. Readable(p)' /\ HeldKnown(p)' /\ HeldWhole(p)'
  BY <1>a, <1>b, <1>c
<1>5. Loading(p)' /\ Kept(p)' /\ Shown(p)'
  BY <1>1, <1>3 DEF Loading, Kept, Shown
<1> QED BY <1>4, <1>5 DEF Holds

\* The others, and whoever only walks.
LEMMA StillHolds ==
  ASSUME Typed, Grows, NEW p \in Processes, Holds(p), Keeps(p),
         Rested(p)' => Rested(p), Shows(p)' => Shows(p),
         At(p, "loading archive")' =>
            At(p, "loading archive") /\ proc'[p].session = proc[p].session
  PROVE  Holds(p)'
BY ContentStays, LoadingStays, KeptStays, ShownStays DEF Holds

LEMMA UnmovedHolds ==
  ASSUME Typed, Grows, NEW p \in Processes, Holds(p), proc'[p] = proc[p]
  PROVE  Holds(p)'
<1>1. Keeps(p) /\ (Rested(p)' => Rested(p)) /\ (Shows(p)' => Shows(p))
      /\ (At(p, "loading archive")' =>
            At(p, "loading archive") /\ proc'[p].session = proc[p].session)
  BY DEF Keeps, Rested, Shows, At
<1> QED BY <1>1, StillHolds

-----------------------------------------------------------------------------
(* What holds of the process that moves.                                   *)

LEMMA StoringHolds ==
  ASSUME LossInv, Grows, NEW p \in Processes, Stores(p)
  PROVE  Holds(p)'
<1>1. StoreTyped /\ proc[p].messages \in Seq(Messages) /\ proc[p].archive \in Seq(Events)
      /\ Typed
  BY ProcessOf DEF LossInv, StoreInv, Typed
<1>2. CASE Bare(p)
  BY <1>2, BareHolds
<1>3. CASE ~Bare(p)
  <2>1. PICK s \in Sessions : Saved(p, s) /\ proc[p].of = s /\ Keeps(p)
    BY <1>3 DEF Stores
  <2>2. Held(p) \subseteq Archived(db'[s].archive)
    BY <1>1, <2>1, Saving DEF Saved, Held
  <2>3. Readable(p)' /\ HeldKnown(p)' /\ HeldWhole(p)'
    BY <2>1, ContentStays DEF LossInv, Holds
  <2>4. Held(p)' = Held(p) /\ proc'[p].of = s
    BY <2>1 DEF Keeps, Held
  <2>5. Loading(p)'
    BY DEF Stores, Loading
  <2>6. Kept(p)'
    BY <2>2, <2>4 DEF Kept
  <2>7. Shown(p)'
    BY <2>2, <2>4 DEF Shown
  <2> QED BY <2>3, <2>5, <2>6, <2>7 DEF Holds
<1> QED BY <1>2, <1>3

LEMMA RescuingHolds ==
  ASSUME LossInv, Grows, NEW p \in Processes, Rescues(p)
  PROVE  Holds(p)'
<1>1. CASE Bare(p)
  BY <1>1, BareHolds
<1>2. CASE ~Bare(p)
  <2>1. Keeps(p) /\ Exports(p) /\ ~Shows(p)' /\ ~At(p, "loading archive")'
    BY <1>2 DEF Rescues
  <2>2. Readable(p)' /\ HeldKnown(p)' /\ HeldWhole(p)'
    BY <2>1, ContentStays DEF LossInv, Holds
  <2>3. Held(p)' = Held(p)
    BY <2>1 DEF Keeps, Held
  <2>4. Held(p) \subseteq exported' \union reported'
    BY <2>1 DEF Exports
  <2>5. Loading(p)'
    BY <2>1 DEF Loading
  <2>6. Kept(p)'
    BY <2>3, <2>4 DEF Kept
  <2>7. Shown(p)'
    BY <2>1 DEF Shown
  <2> QED BY <2>2, <2>5, <2>6, <2>7 DEF Holds
<1> QED BY <1>1, <1>2

LEMMA FetchingHolds ==
  ASSUME LossInv, Grows, NEW p \in Processes, Fetches(p)
  PROVE  Holds(p)'
<1> DEFINE s == proc[p].session
           numbers == Numbers(db[s].messages)
<1>1. /\ s \in Sessions /\ proc'[p].of = s /\ proc'[p].session = s /\ ReadMessagesOf(s)
      /\ proc'[p].messages = ReadMessages(db[s].messages)
      /\ proc'[p].archive = Recorded(proc'[p].messages)
      /\ At(p, "loading archive")' /\ said' = said
  BY DEF Fetches
<1>2. StoreTyped /\ said \in [Sessions -> SUBSET Nat]
  BY DEF LossInv, StoreInv, Typed
<1>3. db[s].messages \in Seq(Messages) /\ db'[s].archive = db[s].archive
  BY <1>1, <1>2, RowFields, Reading
<1>4. /\ proc'[p].messages \in Seq(Messages) /\ Numbers(proc'[p].messages) = numbers
      /\ \A i \in DOMAIN proc'[p].messages : proc'[p].messages[i].form \notin Damaged
  BY <1>1, <1>3, ReadingMessages
<1>5. /\ DOMAIN proc'[p].archive = DOMAIN proc'[p].messages
      /\ \A i \in DOMAIN proc'[p].messages : proc'[p].archive[i].m = proc'[p].messages[i]
      /\ Archived(proc'[p].archive) = numbers
  BY <1>1, <1>4, RecordingMessages
<1>6. numbers \subseteq Known /\ numbers \intersect Said \subseteq Archived(db'[s].archive)
  BY <1>1, <1>3 DEF LossInv, StoreKnown, SavedWhole
<1>7. Held(p)' = numbers
  BY <1>5 DEF Held
<1>8. Readable(p)'
  BY <1>4, <1>5 DEF Readable
<1> HIDE DEF numbers
<1>9. numbers \subseteq Known' /\ numbers \intersect Said' \subseteq Archived(db'[s].archive)
  BY <1>6 DEF Grows
<1>10. HeldKnown(p)'
  BY <1>4, <1>7, <1>9 DEF HeldKnown
<1>11. HeldWhole(p)'
  BY <1>4, <1>7 DEF HeldWhole
<1>12. Loading(p)'
  BY <1>1, <1>7, <1>9 DEF Loading
<1>13. Kept(p)'
  <2>1. said'[s] \subseteq Said'
    BY <1>1, <1>2 DEF Said
  <2> QED BY <1>1, <1>7, <1>9, <2>1 DEF Kept
<1>14. Shown(p)'
  BY <1>1 DEF Shown, Shows, At
<1> QED BY <1>8, <1>10, <1>11, <1>12, <1>13, <1>14 DEF Holds

LEMMA CompletingHolds ==
  ASSUME LossInv, Grows, NEW p \in Processes, Completes(p)
  PROVE  Holds(p)'
<1> DEFINE s == proc[p].session
           archive == ReadArchive(s)
<1>1. /\ s \in Sessions /\ proc[p].of = s /\ proc'[p].of = s /\ proc'[p].session = s
      /\ db' = db /\ said' = said /\ Rested(p) /\ At(p, "loading archive") /\ At(p, "chat")'
      /\ exported' = exported /\ reported' = reported /\ deleted' = deleted
      /\ proc'[p].messages = proc[p].messages
      /\ proc'[p].archive = IF archive = <<>> THEN proc[p].archive ELSE archive
  BY DEF Completes
<1>2. StoreTyped /\ SaidFresh /\ Blank /\ Holds(p) /\ Intact /\ StoreKnown
  BY DEF LossInv, StoreInv, Typed
<1>3. /\ \A k \in DOMAIN archive : archive[k].m.form \notin Damaged
      /\ Archived(archive) \subseteq Archived(db[s].archive)
      /\ \A i \in DOMAIN db[s].archive :
           db[s].archive[i].m.form \notin Damaged => db[s].archive[i].m.n \in Archived(archive)
      /\ archive \in Seq(Events)
  BY <1>1, <1>2, ReadingArchive
<1>4. Known' = Known /\ Said' = Said
  BY <1>1 DEF Known, Said, Old
<1>5. \A n \in Held(p) \intersect Said :
         n \in Archived(db[s].archive) \/ (db[s].life = "gone" /\ n \in deleted)
  BY <1>1, <1>2 DEF Holds, Loading
<1>6. ~At(p, "loading archive")'
  BY <1>1 DEF At
<1>7. CASE archive = <<>>
  <2>1. proc'[p].archive = proc[p].archive
    BY <1>1, <1>7
  <2>2. Keeps(p) /\ Held(p)' = Held(p)
    BY <1>1, <2>1 DEF Keeps, Held
  <2>3. Readable(p)' /\ HeldKnown(p)' /\ HeldWhole(p)'
    BY <1>2, <2>2, ContentStays DEF Holds
  <2>4. Loading(p)'
    BY <1>6 DEF Loading
  <2>5. Kept(p)'
    BY <1>1, <1>2, <2>2 DEF Holds, Kept
  <2>6. Shown(p)'
    BY <1>1, <1>4, <1>5, <2>2 DEF Shown
  <2> QED BY <2>3, <2>4, <2>5, <2>6 DEF Holds
<1>8. CASE archive # <<>>
  <2>1. proc'[p].archive = archive /\ Held(p)' = Archived(archive)
    BY <1>1, <1>8 DEF Held
  <2>2. Readable(p)'
    BY <1>3, <2>1 DEF Readable
  <2>3. db[s].life # "gone"
    <3>1. SUFFICES ASSUME db[s].life = "gone" PROVE FALSE
      OBVIOUS
    <3>2. db[s].archive = <<>>
      BY <1>1, <1>2, <3>1 DEF Blank, Live
    <3>3. Archived(archive) = {}
      <4>1. Archived(<<>>) = {}
        BY DEF Archived
      <4> HIDE DEF archive
      <4> QED BY <1>3, <3>2, <4>1
    <3>4. archive[1].m.n \in Archived(archive)
      <4> HIDE DEF archive
      <4>1. Len(archive) \in Nat /\ DOMAIN archive = 1..Len(archive) /\ Len(archive) # 0
        BY <1>3, <1>8, LenProperties, EmptySeq
      <4>2. 1 \in DOMAIN archive
        BY <4>1
      <4> QED BY <4>2 DEF Archived
    <3> QED BY <3>3, <3>4
  <2>4. \A n \in Archived(db[s].archive) : n \in Said => n \in Archived(archive)
    <3> SUFFICES ASSUME NEW i \in DOMAIN db[s].archive, db[s].archive[i].m.n \in Said
                 PROVE  db[s].archive[i].m.n \in Archived(archive)
      BY DEF Archived
    <3>1. db[s].archive[i].m.n \notin Old
      BY <1>2 DEF SaidFresh
    <3>2. db[s].archive[i].m.form \notin Damaged
      BY <1>1, <1>2, <3>1 DEF Intact
    <3> QED BY <1>3, <3>2
  <2>5. Numbers(proc[p].messages) \intersect Said \subseteq Archived(archive)
    BY <1>2, <1>5, <2>3, <2>4 DEF Holds, HeldWhole
  <2>6. HeldWhole(p)'
    BY <1>1, <1>4, <2>1, <2>5 DEF HeldWhole
  <2>7. Archived(archive) \subseteq Known /\ Numbers(proc[p].messages) \subseteq Known
    BY <1>1, <1>2, <1>3 DEF StoreKnown, Holds, HeldKnown
  <2>8. HeldKnown(p)'
    BY <1>1, <1>4, <2>1, <2>7 DEF HeldKnown
  <2>9. Loading(p)'
    BY <1>6 DEF Loading
  <2>10. Held(p)' \subseteq Archived(db'[s].archive)
    BY <1>1, <1>3, <2>1
  <2>11. Kept(p)' /\ Shown(p)'
    BY <1>1, <2>10 DEF Kept, Shown
  <2> QED BY <2>2, <2>6, <2>8, <2>9, <2>11 DEF Holds
<1> QED BY <1>7, <1>8

LEMMA NumbersOfBoth ==
  ASSUME NEW a \in Seq(Messages), NEW m \in Messages
  PROVE  Numbers(a \o <<m>>) = Numbers(a) \union {m.n}
<1>1. /\ Len(a) \in Nat /\ DOMAIN a = 1..Len(a) /\ Len(<<m>>) = 1 /\ <<m>>[1] = m
      /\ <<m>> \in Seq(Messages)
  BY LenProperties
<1>2. /\ Len(a \o <<m>>) = Len(a) + 1 /\ a \o <<m>> \in Seq(Messages)
      /\ \A i \in 1..(Len(a) + 1) :
           (a \o <<m>>)[i] = IF i <= Len(a) THEN a[i] ELSE <<m>>[i - Len(a)]
  BY <1>1, ConcatProperties
<1>3. DOMAIN (a \o <<m>>) = 1..(Len(a) + 1)
  BY <1>1, <1>2, LenProperties
<1> DEFINE b == a \o <<m>>
<1>4. \A i \in 1..Len(a) : i \in DOMAIN b /\ b[i] = a[i]
  BY <1>1, <1>2, <1>3
<1>5. Len(a) + 1 \in DOMAIN b /\ b[Len(a) + 1] = m
  <2>1. Len(a) + 1 \in 1..(Len(a) + 1) /\ ~(Len(a) + 1 <= Len(a)) /\ (Len(a) + 1) - Len(a) = 1
    BY <1>1
  <2> QED BY <1>1, <1>2, <1>3, <2>1
<1>6. \A i \in DOMAIN b : i \in 1..Len(a) \/ i = Len(a) + 1
  BY <1>1, <1>3
<1> HIDE DEF b
<1>7. Numbers(b) = Numbers(a) \union {m.n}
  BY <1>1, <1>4, <1>5, <1>6 DEF Numbers
<1> QED BY <1>7 DEF b

LEMMA ArchivedWithOneMore ==
  ASSUME NEW a \in Seq(Events), NEW e \in Events
  PROVE  /\ Archived(Append(a, e)) = Archived(a) \union {e.m.n}
         /\ \A i \in DOMAIN Append(a, e) :
              (\E k \in DOMAIN a : Append(a, e)[i] = a[k]) \/ Append(a, e)[i] = e
<1>1. Len(a) \in Nat /\ DOMAIN a = 1..Len(a)
  BY LenProperties
<1> DEFINE b == Append(a, e)
<1>2. /\ DOMAIN b = 1..(Len(a) + 1)
      /\ \A i \in 1..Len(a) : b[i] = a[i]
      /\ b[Len(a) + 1] = e
  <2>1. b \in Seq(Events) /\ Len(b) = Len(a) + 1
        /\ (\A i \in 1..Len(a) : b[i] = a[i]) /\ b[Len(a) + 1] = e
    BY AppendProperties
  <2> QED BY <2>1, LenProperties
<1>3. \A i \in 1..Len(a) : i \in DOMAIN b /\ b[i] = a[i]
  BY <1>1, <1>2
<1>4. Len(a) + 1 \in DOMAIN b
  BY <1>1, <1>2
<1>5. \A i \in DOMAIN b : i \in 1..Len(a) \/ i = Len(a) + 1
  BY <1>1, <1>2
<1> HIDE DEF b
<1>6. Archived(b) = Archived(a) \union {e.m.n}
  BY <1>1, <1>2, <1>3, <1>4, <1>5 DEF Archived
<1>7. \A i \in DOMAIN b : (\E k \in DOMAIN a : b[i] = a[k]) \/ b[i] = e
  BY <1>1, <1>2, <1>3, <1>5
<1> QED BY <1>6, <1>7 DEF b

LEMMA SpeakingHolds ==
  ASSUME LossInv, NEW p \in Processes, Speaks(p)
  PROVE  Holds(p)'
<1> DEFINE n == Fresh
           m == Message(n, "plain")
           e == Event(n, m)
<1>1. /\ At(p, "turn")'
      /\ proc'[p].messages = proc[p].messages \o <<m>>
      /\ proc'[p].archive = Append(proc[p].archive, e)
  BY DEF Speaks
<1>2. /\ proc[p].messages \in Seq(Messages) /\ proc[p].archive \in Seq(Events)
      /\ SaidFresh /\ said \in [Sessions -> SUBSET Nat]
      /\ Readable(p) /\ HeldKnown(p) /\ HeldWhole(p)
  BY ProcessOf DEF LossInv, StoreInv, Typed, Holds
<1>3. n \in Nat /\ n # 0 /\ n \notin Old /\ n \notin Said
  BY <1>2, FreshIsNew
<1>4. Said' = Said \union {n}
  BY <1>2, SayingKeepsFresh DEF Speaks
<1> HIDE DEF n
<1>5. m \in Messages /\ e \in Events /\ m.n = n /\ e.m = m /\ m.form = "plain"
  BY <1>3 DEF Message, Messages, Forms, Event, Events
<1> HIDE DEF m, e
<1>6. Numbers(proc'[p].messages) = Numbers(proc[p].messages) \union {n}
  BY <1>1, <1>2, <1>5, NumbersOfBoth
<1>7. Held(p)' = Held(p) \union {n}
  BY <1>1, <1>2, <1>5, ArchivedWithOneMore DEF Held
<1>8. Readable(p)'
  <2>1. \A i \in DOMAIN proc'[p].archive :
          (\E k \in DOMAIN proc[p].archive : proc'[p].archive[i] = proc[p].archive[k])
          \/ proc'[p].archive[i] = e
    BY <1>1, <1>2, <1>5, ArchivedWithOneMore
  <2>2. m.form \notin Damaged
    BY <1>5 DEF Damaged
  <2> QED BY <1>2, <1>5, <2>1, <2>2 DEF Readable
<1>9. HeldKnown(p)'
  <2>1. Known' = Known \union {n}
    BY <1>4 DEF Known, Old
  <2>2. Held(p) \union Numbers(proc[p].messages) \subseteq Known
    BY <1>2 DEF HeldKnown
  <2> QED BY <1>6, <1>7, <2>1, <2>2 DEF HeldKnown
<1>10. HeldWhole(p)'
  <2>1. Numbers(proc[p].messages) \intersect Said \subseteq Held(p)
    BY <1>2 DEF HeldWhole
  <2> QED BY <1>4, <1>6, <1>7, <2>1 DEF HeldWhole
<1>11. Loading(p)' /\ Kept(p)' /\ Shown(p)'
  BY <1>1 DEF Loading, Kept, Rested, Shown, Shows, At
<1> QED BY <1>8, <1>9, <1>10, <1>11 DEF Holds

LEMMA ShrinkingHolds ==
  ASSUME LossInv, Grows, NEW p \in Processes, Shrinks(p)
  PROVE  Holds(p)'
<1> DEFINE last == Last(proc[p].messages)
           m == Message(0, "summary")
<1>1. /\ At(p, "turn")' /\ said' = said /\ Len(proc[p].messages) > 2
      /\ proc'[p].messages = <<m, last>> /\ proc'[p].archive = proc[p].archive
  BY DEF Shrinks
<1>2. /\ proc[p].messages \in Seq(Messages)
      /\ Readable(p) /\ HeldKnown(p) /\ HeldWhole(p)
  BY ProcessOf DEF LossInv, StoreInv, Typed, Holds
<1>3. last.n \in Numbers(proc[p].messages)
  <2>1. /\ Len(proc[p].messages) \in Nat
        /\ DOMAIN proc[p].messages = 1..Len(proc[p].messages)
    BY <1>2, LenProperties
  <2>2. Len(proc[p].messages) \in DOMAIN proc[p].messages
    BY <1>1, <2>1
  <2> QED BY <2>2 DEF Numbers, Last
<1>4. m.n = 0
  BY DEF Message
<1> HIDE DEF m, last
<1>5. Numbers(<<m, last>>) = {m.n, last.n}
  BY DEF Numbers
<1>6. Held(p)' = Held(p) /\ Known' = Known /\ Said' = Said /\ 0 \notin Said /\ 0 \in Known
  BY <1>1 DEF Held, Known, Said, Old, Grows
<1>7. Readable(p)'
  BY <1>1, <1>2 DEF Readable
<1>8. HeldKnown(p)'
  BY <1>1, <1>2, <1>3, <1>4, <1>5, <1>6 DEF HeldKnown
<1>9. HeldWhole(p)'
  BY <1>1, <1>2, <1>3, <1>4, <1>5, <1>6 DEF HeldWhole
<1>10. Loading(p)' /\ Kept(p)' /\ Shown(p)'
  BY <1>1 DEF Loading, Kept, Rested, Shown, Shows, At
<1> QED BY <1>7, <1>8, <1>9, <1>10 DEF Holds

LEMMA AllStillHold ==
  ASSUME LossInv, Grows, NEW p \in Processes, Moved(p), Kinds(p)
  PROVE  \A o \in Processes : Holds(o)'
<1> TAKE o \in Processes
<1>0. Typed /\ Holds(o) /\ Holds(p)
  BY DEF LossInv, StoreInv
<1>1. CASE proc'[o] = proc[o]
  BY <1>0, <1>1, UnmovedHolds
<1>2. CASE proc'[o] # proc[o]
  <2>1. o = p
    BY <1>2 DEF Moved
  <2>2. CASE Walks(p)
    BY <1>0, <2>1, <2>2, StillHolds DEF Walks
  <2>3. CASE Removes(p)
    BY <1>2, <2>3 DEF Removes
  <2>4. CASE Drops(p)
    BY <2>1, <2>4, BareHolds DEF Drops
  <2> QED BY <2>1, <2>2, <2>3, <2>4, StoringHolds, RescuingHolds, FetchingHolds,
             CompletingHolds, SpeakingHolds, ShrinkingHolds DEF Kinds
<1> QED BY <1>1, <1>2

\* What is on disk stays within what is known, and whole.
LEMMA StoreStaysWhole ==
  ASSUME LossInv, Grows, NEW p \in Processes, Kinds(p)
  PROVE  StoreKnown' /\ Intact' /\ SavedWhole'
<1> DEFINE Whole(s) ==
             /\ Archived(db'[s].archive) \union Numbers(db'[s].messages) \subseteq Known
             /\ \A k \in DOMAIN db'[s].archive :
                  db'[s].archive[k].m.form \in Damaged => db'[s].archive[k].m.n \in Old
             /\ Numbers(db'[s].messages) \intersect Said \subseteq Archived(db'[s].archive)
<1>1. StoreTyped /\ proc[p].messages \in Seq(Messages) /\ proc[p].archive \in Seq(Events)
  BY ProcessOf DEF LossInv, StoreInv, Typed
<1>2. /\ \A s \in Sessions : /\ Archived(db[s].archive) \union Numbers(db[s].messages) \subseteq Known
                             /\ Numbers(db[s].messages) \intersect Said \subseteq Archived(db[s].archive)
      /\ Intact
  BY DEF LossInv, StoreKnown, SavedWhole
<1>3. ASSUME NEW s \in Sessions, db'[s].messages = db[s].messages, db'[s].archive = db[s].archive
      PROVE  Whole(s)
  BY <1>2, <1>3 DEF Intact
<1>4. ASSUME NEW t \in Sessions, CreateSession(t) \/ ReadMessagesOf(t), NEW s \in Sessions
      PROVE  Whole(s)
  <2>1. db'[s].messages = db[s].messages /\ db'[s].archive = db[s].archive
    <3>1. CASE CreateSession(t)
      BY <1>1, <3>1, Creating
    <3>2. CASE ReadMessagesOf(t)
      BY <1>1, <3>2, Reading
    <3> QED BY <1>4, <3>1, <3>2
  <2> HIDE DEF Whole
  <2> QED BY <1>3, <2>1
<1>5. ASSUME NEW t \in Sessions, DeleteSession(t), NEW s \in Sessions
      PROVE  Whole(s)
  <2>1. db'[t].messages = <<>> /\ db'[t].archive = <<>> /\ \A u \in Sessions \ {t} : db'[u] = db[u]
    BY <1>1, <1>5, Deleting
  <2>2. CASE s = t
    <3>1. Archived(<<>>) = {} /\ Numbers(<<>>) = {}
      BY DEF Archived, Numbers
    <3>2. \A k \in DOMAIN <<>> : FALSE
      OBVIOUS
    <3>3. Archived(db'[s].archive) = {} /\ Numbers(db'[s].messages) = {}
      BY <2>1, <2>2, <3>1
    <3>4. \A k \in DOMAIN db'[s].archive : FALSE
      <4>1. DOMAIN db'[s].archive = DOMAIN <<>>
        BY <2>1, <2>2
      <4> QED BY <3>2, <4>1, Zenon
    <3> QED BY <3>3, <3>4
  <2>3. CASE s # t
    <3>1. db'[s] = db[s]
      BY <2>1, <2>3
    <3> HIDE DEF Whole
    <3> QED BY <1>3, <3>1
  <2> QED BY <2>2, <2>3
<1>6. ASSUME NEW t \in Sessions, Saved(p, t), NEW s \in Sessions
      PROVE  Whole(s)
  <2>1. SaveConversation(t, proc[p].messages, proc[p].archive)
    BY <1>6 DEF Saved
  <2>2. /\ \A u \in Sessions \ {t} : db'[u] = db[u]
        /\ db'[t].messages = proc[p].messages
        /\ Archived(db'[t].archive) = Archived(db[t].archive) \union Held(p)
    BY <1>1, <2>1, Saving DEF Held
  <2>3. PICK new \in Seq(Events) :
          /\ db'[t].archive = db[t].archive \o new
          /\ \A k \in DOMAIN new : \E i \in DOMAIN proc[p].archive : new[k] = proc[p].archive[i]
    BY <1>1, <2>1, Saving
  <2>4. Readable(p) /\ HeldKnown(p) /\ HeldWhole(p)
    BY DEF LossInv, Holds
  <2>5. CASE s # t
    <3>1. db'[s] = db[s]
      BY <2>2, <2>5
    <3> HIDE DEF Whole
    <3> QED BY <1>3, <3>1
  <2>6. CASE s = t
    <3>1. Archived(db'[t].archive) \union Numbers(db'[t].messages) \subseteq Known
      BY <1>2, <2>2, <2>4 DEF HeldKnown
    <3>2. Numbers(db'[t].messages) \intersect Said \subseteq Archived(db'[t].archive)
      BY <2>2, <2>4 DEF HeldWhole
    <3>3. ASSUME NEW k \in DOMAIN db'[t].archive, db'[t].archive[k].m.form \in Damaged
          PROVE  db'[t].archive[k].m.n \in Old
      <4>1. db[t].archive \in Seq(Events)
        BY <1>1, RowFields
      <4>2. (\E i \in DOMAIN db[t].archive : db'[t].archive[k] = db[t].archive[i])
            \/ (\E i \in DOMAIN new : db'[t].archive[k] = new[i])
        BY <2>3, <3>3, <4>1, ArchivedOfBoth
      <4>3. ~(\E i \in DOMAIN new : db'[t].archive[k] = new[i])
        BY <2>3, <2>4, <3>3 DEF Readable
      <4> QED BY <1>2, <3>3, <4>2, <4>3 DEF Intact
    <3> QED BY <2>6, <3>1, <3>2, <3>3
  <2> QED BY <2>5, <2>6
<1> HIDE DEF Whole
<1>7. \A s \in Sessions : Whole(s)
  <2>1. CASE db' = db
    BY <1>3, <2>1
  <2> QED BY <1>4, <1>5, <1>6, <2>1, KindsOfStore DEF StoreSteps
<1>8. StoreKnown'
  <2>1. Known \subseteq Known'
    BY DEF Grows
  <2> QED BY <1>7, <2>1 DEF Whole, StoreKnown
<1>9. Intact'
  <2>1. Old' = Old
    BY DEF Old
  <2> QED BY <1>7, <2>1 DEF Whole, Intact
<1>10. SavedWhole'
  BY <1>7 DEF Whole, SavedWhole, Grows
<1> QED BY <1>8, <1>9, <1>10

LEMMA StillRemembered ==
  ASSUME LossInv, Grows, NEW p \in Processes, Moved(p), Kinds(p)
  PROVE  Remembered'
<1>1. SUFFICES ASSUME NEW s \in Sessions, NEW n \in said'[s],
                      n \notin exported', n \notin reported', n \notin deleted'
               PROVE  \/ n \in Archived(db'[s].archive)
                      \/ \E o \in Processes : proc'[o].of = s /\ n \in Held(o)'
  BY DEF Remembered
<1>2. /\ Remembered /\ \A o \in Processes : Holds(o)
      /\ StoreTyped /\ proc[p].messages \in Seq(Messages) /\ proc[p].archive \in Seq(Events)
      /\ SaidFresh /\ said \in [Sessions -> SUBSET Nat]
  BY ProcessOf DEF LossInv, StoreInv, Typed
<1>3. s # NoSession
  BY FrontendsAssumption
<1>4. CASE n \notin said[s]
  <2>1. Speaks(p)
    BY <1>1, <1>4 DEF Kinds, Walks, Removes, Drops, Stores, Rescues, Fetches, Completes, Shrinks
  <2> DEFINE m == Message(Fresh, "plain")
  <2>2. /\ proc'[p].of = proc[p].session /\ proc[p].session \in Sessions
        /\ said' = [said EXCEPT ![proc[p].session] = @ \union {Fresh}]
        /\ proc'[p].archive = Append(proc[p].archive, Event(Fresh, m))
    BY <2>1 DEF Speaks
  <2>3. said'[s] = IF s = proc[p].session THEN said[s] \union {Fresh} ELSE said[s]
    BY <1>2, <2>2, SayingKeepsFresh
  <2>4. s = proc[p].session /\ n = Fresh
    BY <1>1, <1>4, <2>3
  <2>5. Event(Fresh, m) \in Events /\ Event(Fresh, m).m.n = Fresh
    <3>1. Fresh \in Nat
      BY <1>2, FreshIsNew
    <3> QED BY <3>1 DEF Event, Events, Message, Messages, Forms
  <2> HIDE DEF m
  <2>6. n \in Held(p)'
    BY <1>2, <2>2, <2>4, <2>5, ArchivedWithOneMore DEF Held
  <2> QED BY <2>2, <2>4, <2>6
<1>5. CASE n \in said[s]
  <2>1. n \notin exported /\ n \notin reported /\ n \notin deleted
    BY <1>1 DEF Grows
  <2>2. CASE n \in Archived(db[s].archive)
    BY <1>1, <2>2 DEF Grows
  <2>3. ASSUME NEW o \in Processes, proc[o].of = s, n \in Held(o)
        PROVE  \/ n \in Archived(db'[s].archive)
               \/ \E v \in Processes : proc'[v].of = s /\ n \in Held(v)'
    <3>1. CASE Rested(o)
      <4>1. n \in Archived(db[s].archive)
        BY <1>2, <1>3, <1>5, <2>1, <2>3, <3>1 DEF Holds, Kept
      <4> QED BY <2>2, <4>1
    <3>2. CASE Keeps(o)
      <4>1. proc'[o].of = s /\ n \in Held(o)'
        BY <2>3, <3>2 DEF Keeps, Held
      <4> QED BY <4>1
    <3>3. CASE ~Rested(o) /\ ~Keeps(o)
      <4>1. proc'[o] # proc[o]
        BY <3>3 DEF Keeps
      <4>2. o = p
        BY <4>1 DEF Moved
      <4>3. Stores(p) \/ Rescues(p) \/ Speaks(p) \/ Shrinks(p)
        <5>1. ~Removes(p)
          BY <4>1 DEF Removes
        <5>2. ~Drops(p)
          BY <1>3, <2>3, <3>3, <4>2 DEF Drops
        <5>3. ~Walks(p) /\ ~Fetches(p) /\ ~Completes(p)
          BY <3>3, <4>2 DEF Walks, Fetches, Completes
        <5> QED BY <5>1, <5>2, <5>3 DEF Kinds
      <4>4. CASE Stores(p)
        <5>1. Saved(p, s)
          BY <2>3, <3>3, <4>2, <4>4 DEF Stores
        <5>2. Archived(db'[s].archive) = Archived(db[s].archive) \union Held(p)
          BY <1>2, <5>1, Saving DEF Saved, Held
        <5> QED BY <2>3, <4>2, <5>2
      <4>5. CASE Rescues(p)
        <5>1. Exports(p)
          BY <4>5 DEF Rescues
        <5> QED BY <1>1, <2>3, <4>2, <5>1 DEF Exports
      <4>6. CASE Speaks(p)
        <5> DEFINE m == Message(Fresh, "plain")
        <5>1. /\ proc'[p].of = proc[p].of
              /\ proc'[p].archive = Append(proc[p].archive, Event(Fresh, m))
          BY <4>6 DEF Speaks
        <5>2. Event(Fresh, m) \in Events
          <6>1. Fresh \in Nat
            BY <1>2, FreshIsNew
          <6> QED BY <6>1 DEF Event, Events, Message, Messages, Forms
        <5> HIDE DEF m
        <5>3. n \in Held(p)'
          BY <1>2, <2>3, <4>2, <5>1, <5>2, ArchivedWithOneMore DEF Held
        <5> QED BY <2>3, <4>2, <5>1, <5>3
      <4>7. CASE Shrinks(p)
        <5>1. proc'[p].of = s /\ n \in Held(p)'
          BY <2>3, <4>2, <4>7 DEF Shrinks, Held
        <5> QED BY <5>1
      <4> QED BY <4>3, <4>4, <4>5, <4>6, <4>7
    <3> QED BY <3>1, <3>2, <3>3
  <2>4. \/ n \in Archived(db[s].archive)
        \/ \E o \in Processes : proc[o].of = s /\ n \in Held(o)
    BY <1>2, <1>5, <2>1 DEF Remembered
  <2> QED BY <2>2, <2>3, <2>4
<1> QED BY <1>4, <1>5

LEMMA LossInvBegins ==
  ASSUME Init, StoreInv
  PROVE  LossInv
<1>1. /\ StoreInit /\ said = [s \in Sessions |-> {}] /\ proc = [p \in Processes |-> Begin(p)]
  BY DEF Init
<1>2. Said = {}
  BY <1>1 DEF Said
<1>3. ASSUME NEW s \in Sessions
      PROVE  Archived(db[s].archive) \subseteq Old /\ Numbers(db[s].messages) \subseteq Old
  <2>1. CASE s \in DOMAIN OldMessages
    <3>1. /\ db[s].messages = OldMessages[s]
          /\ Archived(db[s].archive) = IF OldArchives[s] = <<>> THEN Numbers(OldMessages[s])
                                       ELSE Archived(OldArchives[s])
      BY <1>1, <2>1, RowsAtFirst
    <3>2. Numbers(OldMessages[s]) \union Archived(OldArchives[s]) \subseteq Old
      BY <2>1 DEF Old
    <3> QED BY <3>1, <3>2
  <2>2. CASE s \notin DOMAIN OldMessages
    <3>1. db[s].messages = <<>> /\ db[s].archive = <<>>
      BY <1>1, <2>2, RowsAtFirst
    <3>2. Archived(<<>>) = {} /\ Numbers(<<>>) = {}
      BY DEF Archived, Numbers
    <3>3. Archived(db[s].archive) = {} /\ Numbers(db[s].messages) = {}
      BY <3>1, <3>2
    <3> QED BY <3>3
  <2> QED BY <2>1, <2>2
<1>4. StoreKnown
  BY <1>3 DEF StoreKnown, Known
<1>5. Intact
  BY <1>3 DEF Intact, Archived
<1>6. SavedWhole
  BY <1>2 DEF SavedWhole
<1>7. ASSUME NEW p \in Processes
      PROVE  Holds(p)
  <2>1. /\ proc[p].messages = <<>> /\ proc[p].archive = <<>> /\ proc[p].of = NoSession
        /\ ~At(p, "loading archive")
    BY <1>1 DEF Begin, At
  <2>2. Archived(<<>>) = {} /\ Numbers(<<>>) = {}
    BY DEF Archived, Numbers
  <2>3. Held(p) = {} /\ Numbers(proc[p].messages) = {}
    BY <2>1, <2>2 DEF Held
  <2>4. Readable(p)
    <3>1. \A i \in DOMAIN <<>> : FALSE
      OBVIOUS
    <3>2. DOMAIN proc[p].archive = DOMAIN <<>>
      BY <2>1
    <3> QED BY <3>1, <3>2, Zenon DEF Readable
  <2>5. HeldKnown(p)
    BY <2>3 DEF HeldKnown
  <2>6. HeldWhole(p)
    BY <2>3 DEF HeldWhole
  <2>7. Loading(p) /\ Kept(p) /\ Shown(p)
    BY <2>1, <2>3 DEF Loading, Kept, Shown
  <2> QED BY <2>4, <2>5, <2>6, <2>7 DEF Holds
<1>8. Remembered
  BY <1>1 DEF Remembered
<1> QED BY <1>4, <1>5, <1>6, <1>7, <1>8 DEF LossInv

\* Whatever the processes do, and whichever saves fail, something said is in the
\* archive of its session, in a recovery file, reported as lost, deleted with the
\* session, or in the memory of a process that is on it; and what a chat without a
\* save error shows is on disk.
THEOREM NothingIsLost == Spec => []NothingLost
<1>1. Init /\ StoreInv => LossInv
  BY LossInvBegins
<1>2. LossInv /\ StoreInv' /\ [Next]_vars => LossInv'
  <2> SUFFICES ASSUME LossInv, StoreInv', [Next]_vars PROVE LossInv'
    OBVIOUS
  <2>1. CASE UNCHANGED vars
    <3>1. /\ db' = db /\ proc' = proc /\ said' = said /\ exported' = exported
          /\ reported' = reported /\ deleted' = deleted
      BY <2>1 DEF vars
    <3>2. Said' = Said /\ Known' = Known /\ Old' = Old
      BY <3>1 DEF Said, Known, Old
    <3>3. StoreKnown' /\ Intact' /\ SavedWhole'
      BY <3>1, <3>2 DEF LossInv, StoreKnown, Intact, SavedWhole
    <3>4. Grows
      BY <3>1, <3>2 DEF Grows, LossInv, StoreInv, Typed, SaidFresh
    <3>5. \A p \in Processes : Holds(p)'
      BY <3>1, <3>4, UnmovedHolds DEF LossInv, StoreInv
    <3>6. Remembered'
      BY <3>1 DEF LossInv, Remembered, Held
    <3> QED BY <3>3, <3>5, <3>6 DEF LossInv
  <2>2. CASE Next
    <3>1. PICK p \in Processes : Moved(p) /\ Kinds(p)
      BY <2>2, StepKinds DEF Next, LossInv, StoreInv
    <3>2. Grows
      BY <3>1, EverythingGrows DEF LossInv
    <3> QED BY <3>1, <3>2, AllStillHold, StoreStaysWhole, StillRemembered DEF LossInv
  <2> QED BY <2>1, <2>2
<1>3. LossInv => NothingLost
  <2> SUFFICES ASSUME LossInv PROVE NothingLost
    OBVIOUS
  <2>1. \A p \in Processes : At(p, "exited") => proc[p].of = NoSession
    BY ProcessOf DEF LossInv, StoreInv, Good, PlacedAt, At
  <2>2. \A p \in Processes : Shows(p) => proc[p].of = proc[p].session
    BY ProcessOf DEF LossInv, StoreInv, Good, PlacedAt, At, Shows
  <2>3. ASSUME NEW s \in Sessions, NEW n \in said[s] \ (exported \union reported \union deleted)
        PROVE  \/ n \in Archived(db[s].archive)
               \/ \E p \in Processes : proc[p].of = s /\ ~At(p, "exited") /\ n \in Held(p)
    <3>1. s # NoSession
      BY FrontendsAssumption
    <3> QED BY <2>1, <2>3, <3>1 DEF LossInv, Remembered
  <2>4. ASSUME NEW p \in Screens, At(p, "chat"), ~proc[p].unsaved
        PROVE  (Held(p) \intersect Said) \ deleted \subseteq Archived(db[proc[p].session].archive)
    <3>1. p \in Processes /\ Shows(p)
      BY <2>4 DEF Processes, Shows
    <3>2. Shown(p) /\ proc[p].of = proc[p].session
      BY <2>2, <3>1 DEF LossInv, Holds
    <3> QED BY <3>1, <3>2 DEF Shown
  <2> QED BY <2>3, <2>4 DEF NothingLost
<1> QED BY <1>1, <1>2, <1>3, AlwaysStored, PTL DEF Spec

=============================================================================
