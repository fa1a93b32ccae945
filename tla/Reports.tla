------------------------------- MODULE Reports -------------------------------
(***************************************************************************)
(* The production reports (digital-form-report.service.ts) and the         *)
(* production statistics (production-report.service.ts) of one factory,    *)
(* line, team or group.  Each is a series of queries: the units below it,  *)
(* the forms, their entries, and for some breakdowns the entries again,    *)
(* unit by unit, all asked for at once.  Between two queries forms,        *)
(* entries, units and workers change.                                      *)
(***************************************************************************)
EXTENDS Naturals, Sequences, FiniteSets, SequencesExt, FiniteSetsExt, Functions

CONSTANTS
  Units,       \* those below what is reported on, now or at another time
  Workers,
  Places,      \* of a worker: [inside, unit], unit in Units or Elsewhere
  Forms, Entries,
  WorkerOf,    \* form -> the worker
  DayOf,       \* form -> its date
  FormOf,      \* entry -> the form
  BagOf, ProcessOf,   \* entry -> its bag, its process
  Values,      \* of an entry: [total, hours, issues], hours a function from slots,
               \* issues a sequence of [type, impact]
  Scenes,      \* where a report may begin: [units, place, form, entry]
  MaxChanges,  \* while a report is made
  Elsewhere, Unborn, Gone

VARIABLES
  units,   \* the units below, as it is now
  place,   \* worker -> where the row of the worker says
  form,    \* form -> [place, status], the place the worker had at its creation
  entry,   \* entry -> its value
  rep      \* the report that is being made

vars == <<units, place, form, entry, rep>>

Statuses == {"DRAFT", "PENDING", "REJECTED", "GONE"}
There(f) == form[f] # Unborn /\ form[f].status # "GONE"
Kept(e) == entry[e] \notin {Unborn, Gone}
EntriesOf(F) == [e \in {d \in Entries : Kept(d) /\ FormOf[d] \in F} |-> entry[e]]

-----------------------------------------------------------------------------
(* What each report reads, in this order; what it then reads for each row  *)
(* of its breakdown; what a row stands for; and whether only submitted     *)
(* forms count.                                                            *)
Kind(reads, row, by, settled) == [reads |-> reads, row |-> row, by |-> by, settled |-> settled]

ByFactory == Kind(<<"units", "forms", "entries">>, <<>>, "unit", FALSE)
ByLine == Kind(<<"forms", "entries", "units">>, <<>>, "unit", FALSE)
ByTeam == Kind(<<"forms", "entries", "units">>, <<"members", "entries">>, "unit", FALSE)
ByGroup == Kind(<<"forms", "entries", "units">>, <<"entries">>, "worker", FALSE)
CompareTeams == Kind(<<"units">>, <<"forms", "entries">>, "unit", FALSE)
CompareGroups == Kind(<<"units">>, <<"forms", "members", "entries">>, "unit", FALSE)

(* findMany with `include` is a query for the forms and one for entries.   *)
FactoryStats == Kind(<<"forms", "entries">>, <<>>, "none", TRUE)
LineStats == Kind(<<"forms", "entries">>, <<>>, "unit", TRUE)
TeamStats == Kind(<<"forms", "entries">>, <<>>, "unit", TRUE)
GroupStats == Kind(<<"forms", "entries">>, <<>>, "worker", TRUE)
DashboardStats == Kind(<<"forms", "entries">>, <<>>, "none", FALSE)
CompareStats == Kind(<<"units">>, <<"forms", "entries">>, "unit", TRUE)

Reports ==
  {ByFactory, ByLine, ByTeam, ByGroup, CompareTeams, CompareGroups,
   FactoryStats, LineStats, TeamStats, GroupStats, DashboardStats, CompareStats}

Empty == <<>>
Idle == [pc |-> "idle"]
Answered == [pc |-> "answered"]
Goes == rep.pc = "reads"

(* todo: the reads still to come; row: per unit the same; forms, seen: what *)
(* was read; then: what the forms of a statistic held when they were read. *)
(* The rest is noted for the properties: what changed since the start.     *)
Started(k) ==
  [pc |-> "reads", kind |-> k, todo |-> k.reads, forms |-> {}, seen |-> Empty, row |-> Empty,
   then |-> Empty, joined |-> {}, moved |-> {}, edited |-> {}, changes |-> 0]

TypeOK ==
  /\ units \subseteq Units /\ place \in [Workers -> Places]
  /\ \A f \in Forms : form[f] = Unborn \/ (form[f].place \in Places /\ form[f].status \in Statuses)
  /\ \A e \in Entries : entry[e] \in Values \cup {Unborn, Gone} /\ (Kept(e) => There(FormOf[e]))
  /\ Goes =>
       /\ rep.kind \in Reports /\ rep.forms \subseteq Forms /\ DOMAIN rep.seen \subseteq Entries
       /\ DOMAIN rep.row \subseteq Units \cup Workers /\ rep.changes \in 0..MaxChanges

Init ==
  /\ \E s \in Scenes : units = s.units /\ place = s.place /\ form = s.form /\ entry = s.entry
  /\ rep = Idle

-----------------------------------------------------------------------------
(* Changes while a report is made: forms are filled in, submitted, decided *)
(* and deleted, workers and units are moved.  What a request has found is  *)
(* left out, for it need not hold any more when the request writes: see    *)
(* DigitalForm, where a form is submitted or deleted, and an entry stored, *)
(* upon a status read before, and an entry deleted upon another form's.    *)
Noted(edited, moved, joined) ==
  /\ Goes /\ rep.changes < MaxChanges
  /\ rep' = [rep EXCEPT !.edited = @ \cup edited, !.moved = @ \cup moved,
                        !.joined = @ \cup joined, !.changes = @ + 1]

CreateForm(f) ==
  /\ form[f] = Unborn
  /\ form' = [form EXCEPT ![f] = [place |-> place[WorkerOf[f]], status |-> "DRAFT"]]
  /\ Noted({f}, {}, {}) /\ UNCHANGED <<units, place, entry>>

(* An entry is added, changed or, with Gone, deleted.                      *)
WriteEntry(e, v) ==
  /\ There(FormOf[e]) /\ entry[e] # Gone /\ entry[e] # v /\ (v = Gone => Kept(e))
  /\ entry' = [entry EXCEPT ![e] = v]
  /\ Noted({e}, {}, {}) /\ UNCHANGED <<units, place, form>>

(* Only what was submitted is rejected, and nothing is a draft again.      *)
SetStatus(f, s) ==
  /\ There(f) /\ form[f].status # s /\ (s = "REJECTED" => form[f].status # "DRAFT")
  /\ form' = [form EXCEPT ![f].status = s]
  /\ entry' = [e \in Entries |-> IF s = "GONE" /\ FormOf[e] = f /\ Kept(e) THEN Gone ELSE entry[e]]
  /\ Noted({e \in Entries : entry'[e] # entry[e]}, {}, {})
  /\ UNCHANGED <<units, place>>

MoveWorker(w, p) ==
  /\ place[w] # p
  /\ place' = [place EXCEPT ![w] = p]
  /\ Noted({}, {w}, {}) /\ UNCHANGED <<units, form, entry>>

(* A unit is made or moved here, or it is deleted or moved away.           *)
MoveUnit(x) ==
  /\ units' = IF x \in units THEN units \ {x} ELSE units \cup {x}
  /\ Noted({}, {}, {x}) /\ UNCHANGED <<place, form, entry>>

-----------------------------------------------------------------------------
(* The reads.                                                              *)
ReadsOnly == UNCHANGED <<units, place, form, entry>>
Next1(what) == Goes /\ rep.todo # <<>> /\ Head(rep.todo) = what

(* One report is followed: none of them writes anything.                   *)
Start(k) ==
  /\ rep = Idle /\ rep' = Started(k) /\ ReadsOnly

(* status: { in: ['CONFIRMED', 'PENDING'] }; the model has one for both.   *)
Counts(f, k) == There(f) /\ (k.settled => form[f].status = "PENDING")

Was(F) == IF rep.kind.settled THEN EntriesOf(F) ELSE Empty
Joined(s, t) == [e \in DOMAIN s \cup DOMAIN t |-> IF e \in DOMAIN s THEN s[e] ELSE t[e]]

(* The units, or for a group its workers; each will be a row.  A           *)
(* comparison that finds none is refused.                                  *)
GroupWorkers == {w \in Workers : place[w].inside}
ReadUnits ==
  LET below == IF rep.kind.by = "worker" THEN GroupWorkers ELSE units IN
  /\ Next1("units")
  /\ rep' = IF below = {} /\ rep.kind.reads = <<"units">> THEN Answered
            ELSE [rep EXCEPT !.todo = Tail(@),
                    !.row = [x \in below |->
                       [todo |-> rep.kind.row, forms |-> rep.forms, got |-> Empty,
                        members |-> IF rep.kind.by = "worker" THEN {x} ELSE Workers]]]
  /\ ReadsOnly

(* No forms, no report.                                                    *)
ReadForms ==
  LET F == {f \in Forms : Counts(f, rep.kind) /\ form[f].place.inside} IN
  /\ Next1("forms")
  /\ rep' = [rep EXCEPT !.todo = IF F = {} THEN <<>> ELSE Tail(@), !.forms = F, !.then = Was(F)]
  /\ ReadsOnly

(* Fault: the entries of the forms that count by now.                      *)
ReadEntriesByStatus ==
  /\ Next1("entries")
  /\ rep' = [rep EXCEPT !.todo = Tail(@), !.seen = EntriesOf({f \in rep.forms : Counts(f, rep.kind)})]
  /\ ReadsOnly
ReadEntries ==
  /\ Next1("entries")
  /\ rep' = [rep EXCEPT !.todo = Tail(@), !.seen = EntriesOf(rep.forms)]
  /\ ReadsOnly

(* The reads of one row.                                                   *)
NextOf(x, what) ==
  /\ Goes /\ rep.todo = <<>> /\ x \in DOMAIN rep.row
  /\ rep.row[x].todo # <<>> /\ Head(rep.row[x].todo) = what
Turned(x) == [rep.row[x] EXCEPT !.todo = Tail(rep.row[x].todo)]
ReadFormsOf(x) ==
  LET F == {f \in Forms : Counts(f, rep.kind) /\ form[f].place.unit = x} IN
  /\ NextOf(x, "forms")
  /\ rep' = [rep EXCEPT !.row[x] = [Turned(x) EXCEPT !.forms = F], !.then = Joined(Was(F), @)]
  /\ ReadsOnly
ReadMembersOf(x) ==
  /\ NextOf(x, "members")
  /\ rep' = [rep EXCEPT !.row[x] =
       [Turned(x) EXCEPT !.members = {w \in Workers : place[w].unit = x}]]
  /\ ReadsOnly

(* Fault: the entries of the members under whatever form.                  *)
RowEntriesOfMembers(r) == [e \in {d \in Entries : Kept(d) /\ WorkerOf[FormOf[d]] \in r.members} |-> entry[e]]
RowEntries(r) ==
  LET all == EntriesOf(r.forms) IN
  [e \in {d \in DOMAIN all : WorkerOf[FormOf[d]] \in r.members} |-> all[e]]
ReadEntriesOf(x) ==
  /\ NextOf(x, "entries")
  /\ rep' = [rep EXCEPT !.row[x] = [Turned(x) EXCEPT !.got = RowEntries(rep.row[x])]]
  /\ ReadsOnly

Done == Goes /\ rep.todo = <<>> /\ \A x \in DOMAIN rep.row : rep.row[x].todo = <<>>
Finish == Done /\ rep' = Answered /\ ReadsOnly

-----------------------------------------------------------------------------
(* What is answered.                                                       *)
Total(s) == SumFunction([e \in DOMAIN s |-> s[e].total])
Part(s, key, k) == Restrict(s, {e \in DOMAIN s : key[e] = k})
(* By a key that every entry has.                                          *)
Grouped(s, key) ==
  [k \in {key[e] : e \in DOMAIN s} |-> Total(Part(s, key, k))]

DayOfEntry == [e \in Entries |-> DayOf[FormOf[e]]]
DailyBreakdown(s) == Grouped(s, DayOfEntry)
OutputByBag(s) == Grouped(s, BagOf)
OutputByProcess(s) == Grouped(s, ProcessOf)

(* Each slot an entry has counts under its label.                          *)
HourlyBreakdown(s) ==
  [h \in UNION {DOMAIN s[e].hours : e \in DOMAIN s} |->
     SumFunction([e \in {d \in DOMAIN s : h \in DOMAIN s[d].hours} |-> s[e].hours[h]])]

(* Each problem noted on an entry counts under its type.                   *)
ProductionIssues(s) ==
  LET all == UNION {{<<e, n>> : n \in DOMAIN s[e].issues} : e \in DOMAIN s}
      Issue(i) == s[i[1]].issues[i[2]]
      Of(t) == {i \in all : Issue(i).type = t}
  IN [t \in {Issue(i).type : i \in all} |->
        [occurrences |-> Cardinality(Of(t)),
         totalImpact |-> SumFunction([i \in Of(t) |-> Issue(i).impact])]]

(* The rows: those read again, or the entries sorted by the unit or the    *)
(* worker of their form, for the units that were read or, in a statistic,  *)
(* for those that occur.                                                   *)
RowOf ==
  [e \in DOMAIN rep.seen |->
     IF rep.kind.by = "worker" THEN WorkerOf[FormOf[e]] ELSE form[FormOf[e]].place.unit]
RowsOf(X) == [x \in X |-> Part(rep.seen, RowOf, x)]
RowsThatOccur == RowsOf({RowOf[e] : e \in DOMAIN rep.seen})
Rows ==
  IF rep.kind.row # <<>> THEN [x \in DOMAIN rep.row |-> rep.row[x].got]
  ELSE IF rep.kind.settled THEN RowsThatOccur
  ELSE RowsOf(DOMAIN rep.row)

(* The tables of a comparison: the output of every row under every key.    *)
(* A bag or a process that made nothing in any row is left out; a day      *)
(* counts when a row has a form of it.                                     *)
Table(keys, key) ==
  [k \in keys |-> [x \in DOMAIN Rows |-> Total(Part(Rows[x], key, k))]]
Made(t) == [k \in {j \in DOMAIN t : \E x \in DOMAIN Rows : t[j][x] > 0} |-> t[k]]
InRows == UNION {DOMAIN Rows[x] : x \in DOMAIN Rows}
CompareBags == Made(Table({BagOf[e] : e \in InRows}, BagOf))
CompareProcesses == Made(Table({ProcessOf[e] : e \in InRows}, ProcessOf))
TimeSeries ==
  Table({DayOf[f] : f \in UNION {rep.row[x].forms : x \in DOMAIN Rows}}, DayOfEntry)

Change ==
  \/ \E f \in Forms : CreateForm(f) \/ \E s \in {"PENDING", "REJECTED", "GONE"} : SetStatus(f, s)
  \/ \E e \in Entries, v \in Values \cup {Gone} : WriteEntry(e, v)
  \/ \E w \in Workers, p \in Places : MoveWorker(w, p)
  \/ \E x \in Units : MoveUnit(x)
Next ==
  \/ Change
  \/ \E k \in Reports : Start(k)
  \/ ReadUnits \/ ReadForms \/ ReadEntries \/ Finish
  \/ \E x \in Units \cup Workers : ReadFormsOf(x) \/ ReadMembersOf(x) \/ ReadEntriesOf(x)

Spec == Init /\ [][Next]_vars

-----------------------------------------------------------------------------
(* The units that are below all the time, and their members.               *)
Stays(x) == x \in units \ rep.joined
Expected(e) ==
  LET w == WorkerOf[FormOf[e]]  unit == form[FormOf[e]].place.unit IN
  \/ rep.kind.settled
  \/ rep.kind.row = <<>> /\ Stays(unit)
  \/ /\ rep.kind.row # <<>> /\ w \notin rep.moved /\ e \notin rep.edited
     /\ IF rep.kind.by = "worker" THEN place[w].inside ELSE Stays(place[w].unit)
Holding(e) == {x \in DOMAIN Rows : e \in DOMAIN Rows[x]}

(* The breakdowns of a report account for its total: by day, by bag, by    *)
(* process and, where every total is the sum of its slots, by hour they    *)
(* add up to it, the tables of a comparison to the output of each row, and *)
(* the problems by type to the problems of the entries.                    *)
(* Every entry of the total is in exactly one row, with the output it has  *)
(* in the total, unless its unit was not below all the time or, where rows *)
(* are read by members, its worker is or was elsewhere or the entry        *)
(* changed; and no entry is in two rows unless its worker moved meanwhile. *)
(* A statistic needs none of these excuses.  The units of a comparison are *)
(* taken as a set: one that is asked for twice has two rows that are the   *)
(* same, and its entries are in both, for nothing drops the second id.     *)
BreakdownsAccount ==
  Done =>
    /\ \A parts \in {DailyBreakdown(rep.seen), OutputByBag(rep.seen), OutputByProcess(rep.seen)} :
         SumFunction(parts) = Total(rep.seen)
    /\ (\A e \in DOMAIN rep.seen : SumFunction(rep.seen[e].hours) = rep.seen[e].total) =>
         SumFunction(HourlyBreakdown(rep.seen)) = Total(rep.seen)
    /\ LET issues == ProductionIssues(rep.seen) IN
       SumFunction([t \in DOMAIN issues |-> issues[t].occurrences])
         = SumFunction([e \in DOMAIN rep.seen |-> Len(rep.seen[e].issues)])
    /\ rep.kind \in {CompareTeams, CompareGroups} =>
         \A t \in {CompareBags, CompareProcesses, TimeSeries} : \A x \in DOMAIN Rows :
           SumFunction([k \in DOMAIN t |-> t[k][x]]) = Total(Rows[x])
    /\ rep.kind.by # "none" /\ rep.forms # {} =>
         \A e \in DOMAIN rep.seen : Expected(e) =>
           \E x \in Holding(e) : Holding(e) = {x} /\ Rows[x][e] = rep.seen[e]
    /\ \A e \in Entries :
         Cardinality(Holding(e)) > 1 => rep.kind = ByTeam /\ WorkerOf[FormOf[e]] \in rep.moved

(* A statistic shows the moment at which its forms were read: although its *)
(* entries are read after its forms, it has those its forms had then, with *)
(* the outputs they had then, whatever was submitted, decided or moved in  *)
(* between.  Only an entry that was itself written or deleted meanwhile,   *)
(* or went with its form, may be another or missing: nothing holds the     *)
(* entries of a submitted form fast.                                       *)
AsThen(s, F) ==
  \A e \in Entries \ rep.edited :
    /\ e \in DOMAIN s <=> e \in DOMAIN rep.then /\ FormOf[e] \in F
    /\ e \in DOMAIN s => s[e] = rep.then[e]
StatisticsOfOneMoment ==
  Done /\ rep.kind.settled =>
    IF rep.kind.row = <<>> THEN AsThen(rep.seen, rep.forms)
    ELSE \A x \in DOMAIN Rows : AsThen(Rows[x], rep.row[x].forms)
=============================================================================
