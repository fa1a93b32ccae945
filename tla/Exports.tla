------------------------------- MODULE Exports -------------------------------
(***************************************************************************)
(* Reports written to files that clients then fetch                        *)
(* (report-export.service.ts and the route export/:reportType).  The name  *)
(* of a file is made of the kind of report, the code of the unit and the   *)
(* clock in milliseconds; nothing looks whether the file is there.         *)
(***************************************************************************)
EXTENDS Naturals, FiniteSets

CONSTANTS
  Requests,    \* each exports once
  UnitTypes,   \* of what a report may be about: factory, line, team, group
  Compared,    \* of what a comparison may be about: comparison_team, comparison_group
  Codes,       \* of units
  MaxTime,     \* the clock
  NoCode       \* of a unit that is not found, and of a comparison

VARIABLES
  now,
  export,   \* request -> where it is
  file      \* name -> the requests whose report is in it

vars == <<now, export, file>>

Types == UnitTypes \cup Compared
Formats == {"pdf", "excel"}    \* a table, csv, goes as a workbook does
Names == Types \X (Codes \cup {NoCode}) \X (0..MaxTime) \X Formats

Named(r) == "code" \in DOMAIN export[r]
At(r, state) == export[r].pc = state

TypeOK ==
  /\ now \in 0..MaxTime
  /\ \A n \in DOMAIN file : n \in Names /\ file[n] \subseteq Requests
  /\ \A r \in Requests :
       /\ export[r].pc \in {"idle", "query", "open", "fill", "answered", "failed", "refused", "lost"}
       /\ Named(r) => export[r].time \in 0..now /\ export[r].type \in Types
  /\ \A r \in Requests : At(r, "fill") => \E n \in DOMAIN file : n[1] = export[r].type

Init ==
  /\ now = 0 /\ file = [n \in {} |-> {}]
  /\ export = [r \in Requests |-> [pc |-> "idle"]]

Move(r, state) == export' = [export EXCEPT ![r].pc = state]

-----------------------------------------------------------------------------
(* The figures are read, then the unit; one that is not found has no code. *)
ExportReport(r, type, format) ==
  /\ At(r, "idle") /\ type \in UnitTypes
  /\ export' = [export EXCEPT ![r] = [pc |-> "query", type |-> type, format |-> format]]
  /\ UNCHANGED <<now, file>>
ExportComparison(r, type, format) ==
  /\ At(r, "idle") /\ type \in Compared
  /\ export' = [export EXCEPT ![r] = [pc |-> "query", type |-> type, format |-> format]]
  /\ UNCHANGED <<now, file>>

(* With the last answer of the database the file is named, the sheets or   *)
(* the pages are made and the file is about to be opened.                  *)
NameReport(r, code) ==
  /\ At(r, "query") /\ export[r].type \in UnitTypes
  /\ export' = [export EXCEPT ![r] =
       [pc |-> "open", type |-> @.type, format |-> @.format, code |-> code, time |-> now]]
  /\ UNCHANGED <<now, file>>
NameComparison(r) ==
  /\ At(r, "query") /\ export[r].type \in Compared
  /\ export' = [export EXCEPT ![r] =
       [pc |-> "open", type |-> @.type, format |-> @.format, code |-> NoCode, time |-> now]]
  /\ UNCHANGED <<now, file>>
QueryFails(r) ==
  /\ At(r, "query") /\ Move(r, "refused")
  /\ UNCHANGED <<now, file>>

(* Fault: the name has no time.                                            *)
NameUntimed(r) == <<export[r].type, export[r].code, 0, export[r].format>>
Name(r) == <<export[r].type, export[r].code, export[r].time, export[r].format>>

(* Opening empties the file; what two write into one file is mixed.        *)
Open(r) ==
  /\ At(r, "open")
  /\ file' = [n \in DOMAIN file \cup {Name(r)} |-> IF n = Name(r) THEN {} ELSE file[n]]
  /\ Move(r, "fill") /\ UNCHANGED now
Fill(r) ==
  /\ At(r, "fill") /\ export[r].type \in UnitTypes
  /\ file' = [file EXCEPT ![Name(r)] = @ \cup {r}]
  /\ Move(r, "answered") /\ UNCHANGED now
FillComparison(r) ==
  /\ At(r, "fill") /\ export[r].type \in Compared
  /\ file' = [file EXCEPT ![Name(r)] = @ \cup {r}]
  /\ Move(r, "answered") /\ UNCHANGED now

(* A workbook or a table that cannot be written fails the request.         *)
WriteFails(r) ==
  /\ At(r, "open") \/ At(r, "fill")
  /\ export[r].format # "pdf" /\ Move(r, "failed")
  /\ UNCHANGED <<now, file>>
(* The stream of a PDF has no handler for its error: the process ends, and *)
(* with it every request under way.                                        *)
StreamFails(r) ==
  /\ At(r, "open") \/ At(r, "fill")
  /\ export[r].format = "pdf"
  /\ export' = [s \in Requests |->
       IF export[s].pc \in {"query", "open", "fill"} THEN [export[s] EXCEPT !.pc = "lost"]
       ELSE export[s]]
  /\ UNCHANGED <<now, file>>

Tick ==
  /\ now < MaxTime /\ now' = now + 1
  /\ UNCHANGED <<export, file>>

Next ==
  \/ Tick
  \/ \E r \in Requests :
       \/ \E type \in Types, format \in Formats :
            ExportReport(r, type, format) \/ ExportComparison(r, type, format)
       \/ \E code \in Codes \cup {NoCode} : NameReport(r, code)
       \/ NameComparison(r) \/ QueryFails(r) \/ Open(r) \/ Fill(r) \/ FillComparison(r)
       \/ WriteFails(r) \/ StreamFails(r)

Spec == Init /\ [][Next]_vars

-----------------------------------------------------------------------------
SameName(r, s) ==
  /\ export[r].type = export[s].type /\ export[r].code = export[s].code
  /\ export[r].time = export[s].time /\ export[r].format = export[s].format

(* The file whose address was answered holds the report of that request    *)
(* and nothing else, also later, unless another export of the same kind,   *)
(* unit and format began in the same millisecond: then it may be the       *)
(* other's, or both mixed.                                                 *)
FilesHoldReports ==
  \A r \in Requests :
    At(r, "answered") /\ (\A s \in Requests \ {r} : Named(s) => ~SameName(r, s)) =>
      \E n \in DOMAIN file : file[n] = {r}
=============================================================================
