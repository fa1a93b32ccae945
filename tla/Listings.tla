------------------------------- MODULE Listings -------------------------------
(***************************************************************************)
(* The paged lists.  A page is a count and a findMany with skip and take,  *)
(* two queries that see the table at two moments; the order is by the      *)
(* column the query names, whose ties PostgreSQL breaks as it likes.  A    *)
(* client reads one page after the other until the pages, of the limit it  *)
(* is told, cover the total it was last given, while rows come, move and   *)
(* go.                                                                     *)
(***************************************************************************)
EXTENDS Naturals, Sequences, FiniteSets, SequencesExt

CONSTANTS
  Rows,
  Keys,       \* values of the column, in the order of the list: 1..n
  Limits,     \* rows of a page that a client may ask for
  Most,       \* rows of a page where the repository clamps the limit: 100
  Changes,    \* changes of the table while a client reads
  Unborn, Gone

VARIABLES
  list,     \* the list that is read
  key,      \* the column of each row
  reader

vars == <<list, key, reader>>

(* Whether the count comes first or along with the rows; whether the limit *)
(* is taken as asked, clamped while the answer repeats what was asked, or  *)
(* clamped and told so; and what may be answered instead of the page: one  *)
(* that the cache kept, or after an error an empty one.                    *)
List(count, limit, instead) == [count |-> count, limit |-> limit, instead |-> instead]
ListHandBags == List("along", "clamped", "nothing")
ListBagColors == List("along", "clamped", "nothing")
ListBagColorProcesses == List("along", "clamped", "nothing")
ListBagProcesses == List("along", "clamped", "nothing")
ListBagGroupRates == List("along", "clamped", "nothing")
ListGroups == List("along", "clamped", "nothing")
ListGroupsWithPerformanceStats == List("first", "clamped", "nothing")
ListRoles == List("along", "asked", "kept")
ListPermissions == List("along", "asked", "kept")
ListUsers == List("first", "asked", "nothing")
ListFactories == List("along", "asked", "empty")
ListLinesOrTeams == List("along", "told", "nothing")
ListDigitalForms == List("along", "clamped", "nothing")
Lists ==
  {ListHandBags, ListBagColors, ListBagColorProcesses, ListBagProcesses, ListBagGroupRates,
   ListGroups, ListGroupsWithPerformanceStats, ListRoles, ListPermissions, ListUsers,
   ListFactories, ListLinesOrTeams, ListDigitalForms}

Present(x) == key[x] \in Keys
Here == {x \in Rows : Present(x)}
Idle == [page |-> 0, over |-> FALSE]
Over == [page |-> 0, over |-> TRUE]
Reads == reader.page > 0

(* The rows of a page, and what the answer says of it.                     *)
Size == IF list.limit # "asked" /\ reader.limit > Most THEN Most ELSE reader.limit
Told == IF list.limit = "told" THEN Size ELSE reader.limit

(* todo: the queries of this page still to come; stayed: the rows there    *)
(* from the start; excused: those a change may have put on another page;   *)
(* other: a page was not what the table holds.                             *)
TypeOK ==
  /\ list \in Lists
  /\ key \in [Rows -> Keys \cup {Unborn, Gone}]
  /\ Reads =>
       /\ reader.page \in 1..(Cardinality(Rows) + 1) /\ reader.limit \in Limits
       /\ reader.todo \subseteq {"count", "rows"}
       /\ reader.total \in 0..Cardinality(Rows)
       /\ reader.shown \subseteq Rows
       /\ reader.stayed \subseteq Here /\ reader.changes \in 0..Changes
       /\ reader.other => list.instead # "nothing"

Init ==
  /\ list \in Lists
  /\ key \in [Rows -> Keys \cup {Unborn}]
  /\ reader = Idle

-----------------------------------------------------------------------------
(* The table changes.  A deletion pulls up what comes after the row; a row *)
(* that comes between a count and its rows pushes what comes after it      *)
(* beyond the total; a row that moves does both.                           *)
After(k) == {y \in Here : key[y] >= k}
Put(x, k, excused) ==
  /\ Reads /\ reader.changes < Changes
  /\ key' = [key EXCEPT ![x] = k]
  /\ reader' = [reader EXCEPT !.stayed = @ \cap Here', !.changes = @ + 1, !.excused = @ \cup excused]
  /\ UNCHANGED list

Insert(x, k) ==
  /\ key[x] = Unborn
  /\ Put(x, k, IF reader.todo = {"rows"} THEN After(k) ELSE {})
Delete(x) ==
  /\ Present(x)
  /\ Put(x, Gone, After(key[x]))
Move(x, k) ==
  /\ Present(x) /\ k # key[x]
  /\ Put(x, k, {x} \cup After(key[x]) \cup After(k))

-----------------------------------------------------------------------------
(* One client is followed.                                                 *)
Start(limit) ==
  /\ reader = Idle
  /\ reader' = [page |-> 1, limit |-> limit, todo |-> {"count", "rows"}, total |-> 0, shown |-> {},
                stayed |-> Here, excused |-> {}, other |-> FALSE, changes |-> 0]
  /\ UNCHANGED <<list, key>>

Count ==
  /\ Reads /\ "count" \in reader.todo
  /\ reader' = [reader EXCEPT !.todo = @ \ {"count"}, !.total = Cardinality(Here)]
  /\ UNCHANGED <<list, key>>

(* Fault: the pages are counted from 0.                                    *)
SkipFromZero(p) == p * Size
Skip(p) == (p - 1) * Size

Sorted(s) == \A i, j \in DOMAIN s : i < j => key[s[i]] <= key[s[j]]
Page(s, p) == {s[i] : i \in {n \in DOMAIN s : Skip(p) < n /\ n <= Skip(p) + Size}}

FindMany ==
  /\ Reads /\ "rows" \in reader.todo
  /\ list.count = "first" => reader.todo = {"rows"}
  /\ \E s \in {t \in SetToSeqs(Here) : Sorted(t)} :
       LET rows == Page(s, reader.page) IN
       reader' = [reader EXCEPT !.todo = @ \ {"rows"}, !.shown = @ \cup rows]
  /\ UNCHANGED <<list, key>>

(* A page that was kept is as the table was before a change, for it was    *)
(* not cleared away in time (see Permissions); its rows and its total are  *)
(* left open, and its rows not noted.  A page that was kept and is as the  *)
(* table is now is what the two queries give.                              *)
AnswerInstead ==
  /\ Reads /\ reader.todo = {"count", "rows"} /\ list.instead # "nothing"
  /\ \E n \in IF list.instead = "empty" THEN {0} ELSE 0..Cardinality(Rows) :
       reader' = [reader EXCEPT !.todo = {}, !.total = n, !.other = TRUE]
  /\ UNCHANGED <<list, key>>

(* The client has both and asks for the next page, or has had enough.      *)
Answered == Reads /\ reader.todo = {}
Ends == Answered /\ reader.page * Told >= reader.total
NextPage ==
  /\ Answered
  /\ reader' = IF Ends THEN Over
               ELSE [reader EXCEPT !.page = @ + 1, !.todo = {"count", "rows"}]
  /\ UNCHANGED <<list, key>>

Next ==
  \/ Count \/ FindMany \/ AnswerInstead \/ NextPage
  \/ \E limit \in Limits : Start(limit)
  \/ \E x \in Rows : Delete(x) \/ \E k \in Keys : Insert(x, k) \/ Move(x, k)

Spec == Init /\ [][Next]_vars

-----------------------------------------------------------------------------
(* A row that was there while a client read all pages is on one of them,   *)
(* unless a row before it was deleted or moved, a row came before it       *)
(* between a count and its rows, or another row ties with it; or the pager *)
(* was given a page as it was before a change, or an empty one for an      *)
(* error; or it asked for more rows than a page holds and was told it has  *)
(* them.  Only then does the pager lose a row.                             *)
PagesMissForReason ==
  [][Ends /\ reader'.page = 0 =>
       \A x \in reader.stayed \ reader.shown :
         \/ x \in reader.excused \/ \E y \in Rows \ {x} : key[y] = key[x]
         \/ reader.other \/ Told > Size]_vars
=============================================================================
