------------------------- MODULE DigitalFormProofs -------------------------
(***************************************************************************)
(* Theorems about DigitalForm, for every number of forms, entries, callers *)
(* and requests: first what holds however requests overlap (Spec), then    *)
(* what holds when the requests of a form come one after the other         *)
(* (OrderlySpec): what a handler checked then still holds when it writes,  *)
(* and the handlers implement FormWorkflow.                                *)
(***************************************************************************)
EXTENDS DigitalForm, TLAPS

-----------------------------------------------------------------------------
(* Type correctness.                                                       *)

PCs == {"next", "find", "list", "write"}

LEMMA CallType ==
  ASSUME NEW op \in Ops, NEW pc \in PCs, NEW u \in Users, NEW f \in Forms
  PROVE  Call(op, pc, u, f) \in InFlight
  BY DEF Call, InFlight, PCs

LEMMA StartType ==
  ASSUME TypeOK, NEW r \in Requests, NEW call \in InFlight, Start(r, call)
  PROVE  req' \in [Requests -> Request]
  BY DEF Start, TypeOK, Request

(* A request that is at some operation is in flight.                       *)
LEMMA AtInFlight ==
  ASSUME TypeOK, NEW r \in Requests, req[r].op # "none"
  PROVE  req[r] \in InFlight
  BY DEF TypeOK, Request, Idle

LEMMA GotoType ==
  ASSUME TypeOK, NEW r \in Requests, req[r].op # "none",
         NEW pc \in PCs, Goto(r, pc)
  PROVE  req' \in [Requests -> Request]
  <1>1. [req[r] EXCEPT !.pc = pc] \in InFlight
    BY AtInFlight DEF InFlight, PCs
  <1>2. QED
    BY <1>1 DEF Goto, TypeOK, Request

LEMMA FinishType ==
  ASSUME TypeOK, NEW r \in Requests, Finish(r)
  PROVE  req' \in [Requests -> Request]
  BY DEF Finish, TypeOK, Request

LEMMA InitType == Init => TypeOK
  BY DEF Init, TypeOK, FormRow, EntryRow, Request

LEMMA BeginType ==
  ASSUME TypeOK, NEW r \in Requests, NEW u \in Users, NEW f \in Forms,
         Begin(r, u, f)
  PROVE  TypeOK'
  <1> USE StartType DEF TypeOK
  <1>1. CASE StartUpdateForm(r, u, f)
    BY <1>1, CallType DEF StartUpdateForm, Ops, PCs
  <1>2. CASE StartDeleteForm(r, u, f)
    BY <1>2, CallType DEF StartDeleteForm, Ops, PCs
  <1>3. CASE StartSubmit(r, u, f)
    BY <1>3, CallType DEF StartSubmit, Ops, PCs
  <1>4. CASE StartApprove(r, u, f)
    BY <1>4, CallType DEF StartApprove, Ops, PCs
  <1>5. CASE StartReject(r, u, f)
    BY <1>5, CallType DEF StartReject, Ops, PCs
  <1>6. ASSUME NEW w \in Workers, NEW i \in Items, StartAddEntry(r, u, f, w, i)
        PROVE  TypeOK'
    <2>1. [Call("addEntry", "find", u, f) EXCEPT !.worker = w, !.item = i]
            \in InFlight
      BY DEF Call, InFlight, Ops
    <2>2. QED
      BY <1>6, <2>1 DEF StartAddEntry
  <1>7. ASSUME NEW S \in SUBSET Items, StartBulkEntries(r, u, f, S)
        PROVE  TypeOK'
    <2>1. forms[f].worker \in Workers \cup {Null}
      BY DEF FormRow
    <2>2. ASSUME NEW w \in Workers \cup {Null}
          PROVE  [Call("bulkEntries", "next", u, f)
                    EXCEPT !.worker = w, !.todo = S] \in InFlight
      BY DEF Call, InFlight, Ops
    <2>3. QED
      BY <1>7, <2>1, <2>2 DEF StartBulkEntries
  <1>8. ASSUME NEW e \in Entries, NEW i \in Items \cup {Null},
               StartUpdateEntry(r, u, f, e, i)
        PROVE  TypeOK'
    <2>1. [Call("updateEntry", "list", u, f) EXCEPT !.entry = e, !.item = i]
            \in InFlight
      BY DEF Call, InFlight, Ops
    <2>2. QED
      BY <1>8, <2>1 DEF StartUpdateEntry
  <1>9. ASSUME NEW e \in Entries, StartDeleteEntry(r, u, f, e)
        PROVE  TypeOK'
    <2>1. [Call("deleteEntry", "write", u, f) EXCEPT !.entry = e] \in InFlight
      BY DEF Call, InFlight, Ops
    <2>2. QED
      BY <1>9, <2>1 DEF StartDeleteEntry
  <1>10. QED
    BY <1>1, <1>2, <1>3, <1>4, <1>5, <1>6, <1>7, <1>8, <1>9 DEF Begin

LEMMA ProceedType ==
  ASSUME TypeOK, NEW r \in Requests, Proceed(r)
  PROVE  TypeOK'
  <1> USE AtInFlight, GotoType, FinishType DEF TypeOK, At, PCs
  <1>1. CASE ListForSubmit(r)
    BY <1>1 DEF ListForSubmit
  <1>2. ASSUME NEW i \in Items, NextBulkEntry(r, i)
        PROVE  TypeOK'
    <2>1. [req[r] EXCEPT !.pc = "find", !.item = i, !.todo = req[r].todo \ {i}]
            \in InFlight
      BY <1>2 DEF NextBulkEntry, InFlight
    <2>2. QED
      BY <1>2, <2>1 DEF NextBulkEntry, Request
  <1>3. CASE FindForAdd(r)
    BY <1>3 DEF FindForAdd
  <1>4. CASE ListForUpdate(r)
    BY <1>4 DEF ListForUpdate
  <1>5. CASE FindForUpdate(r)
    BY <1>5 DEF FindForUpdate
  <1>6. CASE WriteUpdateForm(r)
    <2>1. req[r] \in InFlight
      BY <1>6 DEF WriteUpdateForm
    <2>2. /\ forms[req[r].form] \in FormRow
          /\ req[r].by \in Users
      BY <2>1 DEF InFlight
    <2>3. [forms[req[r].form] EXCEPT !.updater = req[r].by] \in FormRow
      BY <2>2 DEF FormRow, RecordStatus
    <2>4. QED
      BY <1>6, <2>3 DEF WriteUpdateForm
  <1>7. CASE WriteDeleteForm(r)
    <2>1. [forms[req[r].form] EXCEPT !.status = "DELETED"] \in FormRow
      BY <1>7 DEF WriteDeleteForm, InFlight, FormRow
    <2>2. forms' \in [Forms -> FormRow]
      BY <1>7, <2>1 DEF WriteDeleteForm
    <2>3. entries' \in [Entries -> EntryRow]
      BY <1>7 DEF WriteDeleteForm, EntryRow
    <2>4. QED
      BY <1>7, <2>2, <2>3 DEF WriteDeleteForm
  <1>8. CASE WriteSubmit(r)
    <2>1. req[r] \in InFlight
      BY <1>8 DEF WriteSubmit
    <2>2. /\ forms[req[r].form] \in FormRow
          /\ req[r].by \in Users
      BY <2>1 DEF InFlight
    <2>3. [forms[req[r].form] EXCEPT !.status = "PENDING", !.submitted = TRUE,
                                     !.updater = req[r].by] \in FormRow
      BY <2>2 DEF FormRow, RecordStatus
    <2>4. QED
      BY <1>8, <2>3 DEF WriteSubmit
  <1>9. CASE WriteApprove(r)
    <2>1. req[r] \in InFlight
      BY <1>9 DEF WriteApprove
    <2>2. /\ forms[req[r].form] \in FormRow
          /\ req[r].by \in Users
      BY <2>1 DEF InFlight
    <2>3. [forms[req[r].form] EXCEPT !.status = "CONFIRMED", !.approved = TRUE,
                                     !.updater = req[r].by] \in FormRow
      BY <2>2 DEF FormRow, RecordStatus
    <2>4. QED
      BY <1>9, <2>3 DEF WriteApprove
  <1>10. CASE WriteReject(r)
    <2>1. req[r] \in InFlight
      BY <1>10 DEF WriteReject
    <2>2. /\ forms[req[r].form] \in FormRow
          /\ req[r].by \in Users
      BY <2>1 DEF InFlight
    <2>3. [forms[req[r].form] EXCEPT !.status = "REJECTED",
                                     !.updater = req[r].by] \in FormRow
      BY <2>2 DEF FormRow, RecordStatus
    <2>4. QED
      BY <1>10, <2>3 DEF WriteReject
  <1>11. ASSUME NEW e \in Entries, NEW c \in Contents, InsertEntry(r, e, c)
         PROVE  TypeOK'
    <2>1. req[r] \in InFlight
      BY <1>11 DEF InsertEntry
    <2>2. req' \in [Requests -> Request]
      BY <1>11 DEF InsertEntry
    <2>3. entries' \in [Entries -> EntryRow]
      BY <1>11, <2>1 DEF InsertEntry, InFlight, EntryRow
    <2>4. QED
      BY <1>11, <2>2, <2>3 DEF InsertEntry
  <1>12. ASSUME NEW c \in Contents, WriteUpdateEntry(r, c)
         PROVE  TypeOK'
    BY <1>12 DEF WriteUpdateEntry, EntryRow
  <1>13. CASE WriteDeleteEntry(r)
    <2> DEFINE st == IF entries[req[r].entry].form = req[r].form THEN "DELETED" ELSE "STRAYED"
    <2>1. st \in {"DELETED", "STRAYED"} /\ entries' = [entries EXCEPT ![req[r].entry].state = st]
      BY <1>13 DEF WriteDeleteEntry
    <2> HIDE DEF st
    <2>2. entries' \in [Entries -> EntryRow]
      BY <2>1 DEF EntryRow
    <2>3. QED
      BY <1>13, <2>2 DEF WriteDeleteEntry
  <1>14. CASE Fail(r)
    BY <1>14 DEF Fail
  <1>15. QED
    BY <1>1, <1>2, <1>3, <1>4, <1>5, <1>6, <1>7, <1>8, <1>9, <1>10, <1>11,
       <1>12, <1>13, <1>14 DEF Proceed

LEMMA NextType == TypeOK /\ [Next]_vars => TypeOK'
  <1> SUFFICES ASSUME TypeOK, [Next]_vars PROVE TypeOK'
    OBVIOUS
  <1>1. ASSUME NEW u \in Users, NEW w \in Workers, NEW f \in Forms,
               CreateForm(u, w, f)
        PROVE  TypeOK'
    BY <1>1 DEF CreateForm, TypeOK, FormRow, RecordStatus
  <1>2. CASE UNCHANGED vars
    BY <1>2 DEF vars, TypeOK
  <1>3. QED
    BY <1>1, <1>2, BeginType, ProceedType DEF Next

(* The tables and the requests keep their shape in every behaviour.        *)
THEOREM TypeCorrect == Spec => []TypeOK
  BY InitType, NextType, PTL DEF Spec

-----------------------------------------------------------------------------
(* Safety under every interleaving.  The invariants of the tables are      *)
(* inductive only together with what the requests in flight still know.    *)

TablesOK == StampsTellHistory /\ EntriesBelong /\ NoCombinationTwice /\ UpdaterEntitled

RaceInv == TypeOK /\ TablesOK /\ CheckedFactsLast

(* How any step may change a form: it stays created, keeps its creator and *)
(* its worker, and keeps its submitTime.                                   *)
FormsAdvance ==
  \A f \in Forms : forms[f].status # "UNBORN" =>
    /\ forms'[f].status # "UNBORN"
    /\ forms'[f].creator = forms[f].creator
    /\ forms'[f].worker = forms[f].worker
    /\ forms[f].submitted => forms'[f].submitted

(* How a request that goes on changes: its arguments stay.                 *)
SameCalls ==
  \A r \in Requests : req'[r] # Idle =>
    /\ req[r] # Idle
    /\ req'[r].op = req[r].op
    /\ req'[r].by = req[r].by
    /\ req'[r].form = req[r].form
    /\ req'[r].worker = req[r].worker

LEMMA InitRace == Init => RaceInv
  BY InitType DEF Init, RaceInv, TablesOK, StampsTellHistory, EntriesBelong,
     NoCombinationTwice, UpdaterEntitled, CheckedFactsLast, Exists, Stored,
     RecordStatus

LEMMA FactsKept ==
  ASSUME RaceInv, TypeOK', FormsAdvance, SameCalls
  PROVE  CheckedFactsLast'
  <1> SUFFICES ASSUME NEW r \in Requests, req'[r] # Idle
               PROVE  LET q == req'[r]
                          f == req'[r].form
                      IN /\ forms'[f].status # "UNBORN"
                         /\ q.op \in {"updateForm", "submit"} 
                              => q.by = forms'[f].creator \/ q.by \in Admins
                         /\ q.op \in {"approve", "reject"}
                              => q.by \in Admins /\ forms'[f].submitted
                         /\ q.op \in {"addEntry", "bulkEntries"}
                              => q.worker = forms'[f].worker
    BY DEF CheckedFactsLast, MayEdit
  <1>1. req[r] \in InFlight
    BY DEF SameCalls, RaceInv, TypeOK, Request
  <1>2. req[r].form \in Forms
    BY <1>1 DEF InFlight
  <1>3. QED
    BY <1>2 DEF RaceInv, CheckedFactsLast, SameCalls, FormsAdvance, MayEdit

(* A step that writes one form row, and no entry.                          *)
LEMMA RowWritten ==
  ASSUME RaceInv, NEW g \in Forms, NEW row \in FormRow, Exists(g),
         row.status \in RecordStatus,
         row.worker = forms[g].worker,
         row.creator = forms[g].creator,
         MayEdit(row.updater, g),
         row.submitted <=> row.status # "DRAFT",
         forms[g].submitted => row.submitted,
         row.approved => row.submitted,
         row.status = "CONFIRMED" => row.approved,
         forms' = [forms EXCEPT ![g] = row],
         UNCHANGED entries
  PROVE  TablesOK' /\ FormsAdvance
  <1> USE DEF RaceInv, TypeOK, Exists
  <1>1. \A f \in Forms : forms'[f] = IF f = g THEN row ELSE forms[f]
    OBVIOUS
  <1>2. StampsTellHistory'
    BY <1>1 DEF TablesOK, StampsTellHistory
  <1>3. EntriesBelong'
    <2> SUFFICES ASSUME NEW e \in Entries, Stored(e)
                 PROVE  /\ entries[e].form \in Forms
                        /\ forms'[entries[e].form].status \in RecordStatus
                        /\ entries[e].worker = forms'[entries[e].form].worker
      BY DEF EntriesBelong, Stored
    <2>1. /\ entries[e].form \in Forms
          /\ Exists(entries[e].form)
          /\ entries[e].worker = forms[entries[e].form].worker
      BY DEF TablesOK, EntriesBelong
    <2>2. QED
      BY <1>1, <2>1
  <1>4. NoCombinationTwice'
    BY DEF TablesOK, NoCombinationTwice, Stored
  <1>5. UpdaterEntitled'
    BY <1>1 DEF TablesOK, UpdaterEntitled, MayEdit
  <1>6. FormsAdvance
    BY <1>1 DEF FormsAdvance, TablesOK, StampsTellHistory, RecordStatus
  <1>7. QED
    BY <1>2, <1>3, <1>4, <1>5, <1>6 DEF TablesOK

(* A step that touches neither table.                                      *)
LEMMA TablesUntouched ==
  ASSUME RaceInv, UNCHANGED <<forms, entries>>
  PROVE  TablesOK' /\ FormsAdvance
  BY DEF RaceInv, TablesOK, StampsTellHistory, EntriesBelong, NoCombinationTwice,
     UpdaterEntitled, FormsAdvance, Exists, Stored, MayEdit

(* A step that changes entries only, all of which then belong to existing  *)
(* forms and differ.                                                       *)
LEMMA EntriesWritten ==
  ASSUME RaceInv, UNCHANGED forms, EntriesBelong', NoCombinationTwice'
  PROVE  TablesOK' /\ FormsAdvance
  BY DEF RaceInv, TablesOK, StampsTellHistory, UpdaterEntitled, FormsAdvance,
     Exists, MayEdit

LEMMA CreateRace ==
  ASSUME RaceInv, TypeOK', NEW u \in Users, NEW w \in Workers, NEW g \in Forms,
         CreateForm(u, w, g)
  PROVE  RaceInv' /\ FormsAdvance
  <1> USE DEF RaceInv, TypeOK, TablesOK, Exists, Stored, CreateForm
  <1>1. forms' = [forms EXCEPT ![g] =
                    [status |-> "DRAFT", worker |-> w, creator |-> u,
                     updater |-> u, submitted |-> FALSE, approved |-> FALSE]]
    OBVIOUS
  <1>2. StampsTellHistory'
    BY DEF StampsTellHistory
  <1>3. EntriesBelong'
    BY DEF EntriesBelong, RecordStatus
  <1>4. NoCombinationTwice'
    BY DEF NoCombinationTwice
  <1>5. UpdaterEntitled'
    BY DEF UpdaterEntitled, MayEdit
  <1>6. FormsAdvance
    BY DEF FormsAdvance
  <1>7. SameCalls
    BY DEF SameCalls
  <1>8. QED
    BY <1>2, <1>3, <1>4, <1>5, <1>6, <1>7, FactsKept

LEMMA BeginRace ==
  ASSUME RaceInv, TypeOK', NEW r \in Requests, NEW u \in Users, NEW g \in Forms,
         Begin(r, u, g)
  PROVE  RaceInv' /\ FormsAdvance
  <1> DEFINE Informed ==
        /\ UNCHANGED <<forms, entries>>
        /\ Exists(g)
        /\ \A s \in Requests : s # r => req'[s] = req[s]
        /\ req'[r].form = g
        /\ req'[r].op \in {"updateForm", "submit"} => MayEdit(req'[r].by, g)
        /\ req'[r].op \in {"approve", "reject"}
             => req'[r].by \in Admins /\ forms[g].status = "PENDING"
        /\ req'[r].op \in {"addEntry", "bulkEntries"}
             => req'[r].worker = forms[g].worker
  <1>1. Informed
    <2> USE DEF RaceInv, TypeOK, Start, Call
    <2>1. CASE StartUpdateForm(r, u, g)
      BY <2>1 DEF StartUpdateForm, Editable
    <2>2. CASE StartDeleteForm(r, u, g)
      BY <2>2 DEF StartDeleteForm, Editable
    <2>3. CASE StartSubmit(r, u, g)
      BY <2>3 DEF StartSubmit, Editable
    <2>4. CASE StartApprove(r, u, g)
      BY <2>4 DEF StartApprove, Decidable
    <2>5. CASE StartReject(r, u, g)
      BY <2>5 DEF StartReject, Decidable
    <2>6. ASSUME NEW w \in Workers, NEW i \in Items, StartAddEntry(r, u, g, w, i)
          PROVE  Informed
      BY <2>6 DEF StartAddEntry, Editable
    <2>7. ASSUME NEW S \in SUBSET Items, StartBulkEntries(r, u, g, S)
          PROVE  Informed
      BY <2>7 DEF StartBulkEntries
    <2>8. ASSUME NEW e \in Entries, NEW i \in Items \cup {Null},
                 StartUpdateEntry(r, u, g, e, i)
          PROVE  Informed
      BY <2>8 DEF StartUpdateEntry, Editable
    <2>9. ASSUME NEW e \in Entries, StartDeleteEntry(r, u, g, e)
          PROVE  Informed
      BY <2>9 DEF StartDeleteEntry, Editable
    <2>10. QED
      BY <2>1, <2>2, <2>3, <2>4, <2>5, <2>6, <2>7, <2>8, <2>9 DEF Begin
  <1>2. TablesOK' /\ FormsAdvance
    BY <1>1, TablesUntouched
  <1>3. forms[g].status = "PENDING" => forms[g].submitted
    BY <1>1 DEF RaceInv, TablesOK, StampsTellHistory
  <1>4. CheckedFactsLast'
    BY <1>1, <1>3 DEF RaceInv, CheckedFactsLast, MayEdit, Exists, RecordStatus
  <1>5. QED
    BY <1>2, <1>4 DEF RaceInv

LEMMA ProceedRace ==
  ASSUME RaceInv, TypeOK', NEW r \in Requests, Proceed(r)
  PROVE  RaceInv' /\ FormsAdvance
  <1> DEFINE f == req[r].form
             q == req[r]
  <1> USE DEF At, Goto, Finish
  <1>1. SameCalls
    <2>1. CASE Finish(r)
      BY <2>1 DEF SameCalls, RaceInv, TypeOK
    <2>2. ASSUME NEW pc \in PCs, q.op # "none", Goto(r, pc)
          PROVE  SameCalls
      <3>1. q \in InFlight
        BY <2>2, AtInFlight DEF RaceInv
      <3>2. req'[r] = [q EXCEPT !.pc = pc]
        BY <2>2 DEF RaceInv, TypeOK
      <3>3. \A s \in Requests : s # r => req'[s] = req[s]
        BY <2>2 DEF RaceInv, TypeOK
      <3>4. q # Idle
        BY <2>2 DEF Idle
      <3>5. QED
        BY <3>1, <3>2, <3>3, <3>4 DEF SameCalls, InFlight
    <2>3. ASSUME NEW i \in Items, NextBulkEntry(r, i)
          PROVE  SameCalls
      <3>1. q \in InFlight
        BY <2>3, AtInFlight DEF RaceInv, NextBulkEntry
      <3>2. req'[r] = [q EXCEPT !.pc = "find", !.item = i, !.todo = q.todo \ {i}]
        BY <2>3 DEF NextBulkEntry, RaceInv, TypeOK
      <3>3. \A s \in Requests : s # r => req'[s] = req[s]
        BY <2>3 DEF NextBulkEntry, RaceInv, TypeOK
      <3>4. q # Idle
        BY <2>3 DEF NextBulkEntry, Idle
      <3>5. /\ req'[r].op = q.op
            /\ req'[r].by = q.by
            /\ req'[r].form = q.form
            /\ req'[r].worker = q.worker
        BY <3>1, <3>2 DEF InFlight
      <3>6. QED
        BY <3>3, <3>4, <3>5 DEF SameCalls
    <2>4. ASSUME NEW e \in Entries, NEW c \in Contents, InsertEntry(r, e, c)
          PROVE  SameCalls
      BY <2>4, <2>1, <2>2 DEF InsertEntry, PCs
    <2>5. QED
      BY <2>1, <2>2, <2>3, <2>4 DEF Proceed, ListForSubmit, FindForAdd,
         ListForUpdate, FindForUpdate, WriteUpdateForm, WriteDeleteForm,
         WriteSubmit, WriteApprove, WriteReject, WriteUpdateEntry,
         WriteDeleteEntry, Fail, PCs
  <1>2. ASSUME q.op # "none"
        PROVE  q \in InFlight /\ f \in Forms /\ q # Idle
    BY <1>2, AtInFlight DEF RaceInv, InFlight, Idle
  <1>3. ASSUME q.op # "none", Exists(f)
        PROVE  /\ forms[f] \in FormRow
               /\ forms[f].submitted <=> forms[f].status # "DRAFT"
               /\ forms[f].approved => forms[f].submitted
               /\ forms[f].status = "CONFIRMED" => forms[f].approved
               /\ MayEdit(forms[f].updater, f)
               /\ q.op \in {"updateForm", "submit"} => MayEdit(q.by, f)
               /\ q.op \in {"approve", "reject"} => q.by \in Admins /\ forms[f].submitted
               /\ q.op \in {"addEntry", "bulkEntries"} => q.worker = forms[f].worker
    BY <1>2, <1>3 DEF RaceInv, TypeOK, TablesOK, StampsTellHistory,
       UpdaterEntitled, CheckedFactsLast
  <1>4. TablesOK' /\ FormsAdvance
    <2> USE <1>2, <1>3 DEF RaceInv, TypeOK
    <2>1. CASE UNCHANGED <<forms, entries>>
      BY <2>1, TablesUntouched
    <2>2. CASE WriteUpdateForm(r)
      <3> DEFINE row == [forms[f] EXCEPT !.updater = q.by]
      <3>1. q.op = "updateForm" /\ Exists(f)
        BY <2>2 DEF WriteUpdateForm
      <3>2. /\ row \in FormRow
            /\ row.status = forms[f].status
            /\ row.worker = forms[f].worker
            /\ row.creator = forms[f].creator
            /\ row.submitted = forms[f].submitted
            /\ row.approved = forms[f].approved
            /\ row.updater = q.by
        BY <3>1 DEF FormRow, InFlight
      <3>3. forms' = [forms EXCEPT ![f] = row] /\ UNCHANGED entries
        BY <2>2 DEF WriteUpdateForm
      <3> HIDE DEF row
      <3>4. QED
        BY <3>1, <3>2, <3>3, RowWritten DEF Exists
    <2>3. CASE WriteSubmit(r)
      <3> DEFINE row == [forms[f] EXCEPT !.status = "PENDING", !.submitted = TRUE,
                                          !.updater = q.by]
      <3>1. q.op = "submit" /\ Exists(f)
        BY <2>3 DEF WriteSubmit
      <3>2. /\ row \in FormRow
            /\ row.status = "PENDING"
            /\ row.worker = forms[f].worker
            /\ row.creator = forms[f].creator
            /\ row.submitted = TRUE
            /\ row.approved = forms[f].approved
            /\ row.updater = q.by
        BY <3>1 DEF FormRow, InFlight, RecordStatus
      <3>3. forms' = [forms EXCEPT ![f] = row] /\ UNCHANGED entries
        BY <2>3 DEF WriteSubmit
      <3> HIDE DEF row
      <3>4. QED
        BY <3>1, <3>2, <3>3, RowWritten DEF Exists, MayEdit, RecordStatus
    <2>4. CASE WriteApprove(r)
      <3> DEFINE row == [forms[f] EXCEPT !.status = "CONFIRMED", !.approved = TRUE,
                                          !.updater = q.by]
      <3>1. q.op = "approve" /\ Exists(f)
        BY <2>4 DEF WriteApprove
      <3>2. /\ row \in FormRow
            /\ row.status = "CONFIRMED"
            /\ row.worker = forms[f].worker
            /\ row.creator = forms[f].creator
            /\ row.submitted = forms[f].submitted
            /\ row.approved = TRUE
            /\ row.updater = q.by
        BY <3>1 DEF FormRow, InFlight, RecordStatus
      <3>3. forms' = [forms EXCEPT ![f] = row] /\ UNCHANGED entries
        BY <2>4 DEF WriteApprove
      <3> HIDE DEF row
      <3>4. QED
        BY <3>1, <3>2, <3>3, RowWritten DEF Exists, MayEdit, RecordStatus
    <2>5. CASE WriteReject(r)
      <3> DEFINE row == [forms[f] EXCEPT !.status = "REJECTED",
                                          !.updater = q.by]
      <3>1. q.op = "reject" /\ Exists(f)
        BY <2>5 DEF WriteReject
      <3>2. /\ row \in FormRow
            /\ row.status = "REJECTED"
            /\ row.worker = forms[f].worker
            /\ row.creator = forms[f].creator
            /\ row.submitted = forms[f].submitted
            /\ row.approved = forms[f].approved
            /\ row.updater = q.by
        BY <3>1 DEF FormRow, InFlight, RecordStatus
      <3>3. forms' = [forms EXCEPT ![f] = row] /\ UNCHANGED entries
        BY <2>5 DEF WriteReject
      <3> HIDE DEF row
      <3>4. QED
        BY <3>1, <3>2, <3>3, RowWritten DEF Exists, MayEdit, RecordStatus
    <2>6. CASE WriteDeleteForm(r)
      <3> USE <2>6 DEF WriteDeleteForm, EntriesOf, Stored, Exists
      <3>1. f \in Forms /\ forms[f].status \in RecordStatus
        OBVIOUS
      <3>2. \A g \in Forms : forms'[g] =
              IF g = f THEN [forms[g] EXCEPT !.status = "DELETED"] ELSE forms[g]
        BY <3>1
      <3>3. StampsTellHistory'
        BY <3>2 DEF TablesOK, StampsTellHistory, RecordStatus, FormRow
      <3>4. UpdaterEntitled'
        BY <3>2 DEF TablesOK, UpdaterEntitled, MayEdit, RecordStatus, FormRow
      <3>5. ASSUME NEW e \in Entries, Stored(e)'
            PROVE  Stored(e) /\ entries'[e] = entries[e] /\ entries[e].form # f
        BY <3>5 DEF EntryRow
      <3>6. EntriesBelong'
        BY <3>2, <3>5 DEF TablesOK, EntriesBelong
      <3>7. NoCombinationTwice'
        BY <3>5 DEF TablesOK, NoCombinationTwice
      <3>8. FormsAdvance
        BY <3>2 DEF FormsAdvance, FormRow
      <3>9. QED
        BY <3>3, <3>4, <3>6, <3>7, <3>8 DEF TablesOK
    <2>7. ASSUME NEW e \in Entries, NEW c \in Contents, InsertEntry(r, e, c)
          PROVE  TablesOK' /\ FormsAdvance
      <3> USE <2>7 DEF InsertEntry, InsertAllowed, Stored, Exists
      <3>1. /\ q.op \in {"addEntry", "bulkEntries"} /\ q.op # "none"
            /\ Exists(f) /\ q.worker = forms[f].worker /\ f \in Forms
        OBVIOUS
      <3>2. \A d \in Entries : entries'[d] =
              IF d = e
                THEN [state |-> "STORED", form |-> f, worker |-> q.worker,
                      item |-> q.item, content |-> c]
                ELSE entries[d]
        OBVIOUS
      <3>3. EntriesBelong'
        BY <3>1, <3>2 DEF TablesOK, EntriesBelong
      <3>4. NoCombinationTwice'
        BY <3>2 DEF TablesOK, NoCombinationTwice, Recorded, EntriesOf
      <3>5. QED
        BY <3>3, <3>4, EntriesWritten
    <2>8. ASSUME NEW c \in Contents, WriteUpdateEntry(r, c)
          PROVE  TablesOK' /\ FormsAdvance
      <3> USE <2>8 DEF WriteUpdateEntry, Stored
      <3>1. \A d \in Entries :
              /\ entries'[d].state = entries[d].state
              /\ entries'[d].form = entries[d].form
              /\ entries'[d].worker = entries[d].worker
              /\ entries'[d].item = entries[d].item
        BY DEF EntryRow
      <3>2. EntriesBelong' /\ NoCombinationTwice'
        BY <3>1 DEF TablesOK, EntriesBelong, NoCombinationTwice, Exists
      <3>3. QED
        BY <3>2, EntriesWritten
    <2>9. CASE WriteDeleteEntry(r)
      <3> USE <2>9 DEF WriteDeleteEntry, Stored
      <3>1. \A d \in Entries : entries'[d].state = "STORED"
              => entries'[d] = entries[d]
        BY DEF EntryRow
      <3>2. EntriesBelong' /\ NoCombinationTwice'
        BY <3>1 DEF TablesOK, EntriesBelong, NoCombinationTwice, Exists
      <3>3. QED
        BY <3>2, EntriesWritten
    <2>10. QED
      BY <2>1, <2>2, <2>3, <2>4, <2>5, <2>6, <2>7, <2>8, <2>9 DEF Proceed,
         ListForSubmit, NextBulkEntry, FindForAdd, ListForUpdate,
         FindForUpdate, Fail
  <1>5. QED
    BY <1>1, <1>4, FactsKept DEF RaceInv

LEMMA NextRace == RaceInv /\ [Next]_vars => RaceInv' /\ FormsAdvance
  <1> SUFFICES ASSUME RaceInv, [Next]_vars PROVE RaceInv' /\ FormsAdvance
    OBVIOUS
  <1>1. TypeOK'
    BY NextType DEF RaceInv
  <1>2. CASE UNCHANGED vars
    <2>1. TablesOK' /\ FormsAdvance
      BY <1>2, TablesUntouched DEF vars
    <2>2. CheckedFactsLast'
      BY <1>2 DEF vars, RaceInv, CheckedFactsLast, MayEdit
    <2>3. QED
      BY <1>1, <2>1, <2>2 DEF RaceInv
  <1>3. QED
    BY <1>1, <1>2, CreateRace, BeginRace, ProceedRace DEF Next

LEMMA RaceInvariant == Spec => []RaceInv
  BY InitRace, NextRace, PTL DEF Spec

-----------------------------------------------------------------------------
(* However requests interleave, the time stamps of a form tell whether it  *)
(* was submitted and whether it was approved.                              *)
THEOREM StampsTheorem == Spec => []StampsTellHistory
  <1>1. RaceInv => StampsTellHistory
    BY DEF RaceInv, TablesOK
  <1>2. QED
    BY <1>1, RaceInvariant, PTL

(* An entry is always on an existing form, about that form's worker.       *)
THEOREM EntriesTheorem == Spec => []EntriesBelong
  <1>1. RaceInv => EntriesBelong
    BY DEF RaceInv, TablesOK
  <1>2. QED
    BY <1>1, RaceInvariant, PTL

(* No form records one combination of bag, colour and process twice.       *)
THEOREM CombinationsTheorem == Spec => []NoCombinationTwice
  <1>1. RaceInv => NoCombinationTwice
    BY DEF RaceInv, TablesOK
  <1>2. QED
    BY <1>1, RaceInvariant, PTL

(* The last writer of a form was entitled to write it.                     *)
THEOREM UpdaterTheorem == Spec => []UpdaterEntitled
  <1>1. RaceInv => UpdaterEntitled
    BY DEF RaceInv, TablesOK
  <1>2. QED
    BY <1>1, RaceInvariant, PTL

(* What a request checked about identity and submission holds as long as   *)
(* it runs.                                                                *)
THEOREM FactsTheorem == Spec => []CheckedFactsLast
  <1>1. RaceInv => CheckedFactsLast
    BY DEF RaceInv
  <1>2. QED
    BY <1>1, RaceInvariant, PTL

(* No form ever returns to DRAFT: a form that left it has a submitTime,    *)
(* which no step clears.                                                   *)
THEOREM NeverDraftTheorem == Spec => NeverDraftAgain
  <1>1. RaceInv /\ RaceInv' /\ [Next]_vars
          => [\A f \in Forms : Exists(f) /\ forms[f].status # "DRAFT"
                                => forms'[f].status # "DRAFT"]_vars
    <2> SUFFICES ASSUME RaceInv, RaceInv', [Next]_vars,
                        NEW f \in Forms, Exists(f), forms[f].status # "DRAFT",
                        forms'[f].status = "DRAFT"
                 PROVE  FALSE
      OBVIOUS
    <2>1. forms[f].submitted
      BY DEF RaceInv, TablesOK, StampsTellHistory
    <2>2. forms'[f].submitted
      BY <2>1, NextRace DEF FormsAdvance, Exists, RecordStatus
    <2>3. QED
      BY <2>2 DEF RaceInv, TablesOK, StampsTellHistory, Exists, RecordStatus
  <1>2. QED
    BY <1>1, RaceInvariant, PTL DEF Spec, NeverDraftAgain

-----------------------------------------------------------------------------
(* A request that has seen its form as a draft its caller may edit.        *)
Edits(q) ==
  \/ q.op \in {"updateForm", "deleteForm", "submit", "addEntry", "updateEntry",
               "deleteEntry"}
  \/ q.op = "bulkEntries" /\ q.pc # "next"

StatusChecked(q) ==
  /\ Edits(q) => Editable(q.by, q.form)
  /\ q.op \in {"approve", "reject"} => Decidable(q.by, q.form)

(* A form whose record agrees with its decision, and is unapproved before. *)
RecordAgrees(f) ==
  /\ Decided(f) => forms[f].updater \in Admins
  /\ Exists(f) /\ forms[f].status # "CONFIRMED" => ~forms[f].approved

StatusInv ==
  /\ TypeOK
  /\ OneRequestPerForm
  /\ \A r \in Requests : req[r] # Idle => StatusChecked(req[r])
  /\ \A f \in Forms : RecordAgrees(f)

(* A request r leaves the rows of every form but f alone, and what it does *)
(* to f is in order.                                                       *)
LEMMA StatusLocal ==
  ASSUME StatusInv, TypeOK', OneRequestPerForm', NEW r \in Requests, NEW f \in Forms,
         \A s \in Requests : s # r => req'[s] = req[s],
         (req[r] # Idle /\ req[r].form = f) \/ (req'[r] # Idle /\ req'[r].form = f),
         \A g \in Forms : g # f => forms'[g] = forms[g],
         req'[r] # Idle => StatusChecked(req[r])',
         RecordAgrees(f)'
  PROVE  StatusInv'
  <1>1. ASSUME NEW s \in Requests, s # r, req'[s] # Idle
        PROVE  StatusChecked(req[s])'
    <2>1. req[s] \in InFlight /\ req'[s] = req[s]
      BY <1>1 DEF StatusInv, TypeOK, Request
    <2>2. req[s].form \in Forms /\ req[s].form # f
      BY <1>1, <2>1 DEF InFlight, StatusInv, OneRequestPerForm
    <2>3. StatusChecked(req[s]) /\ forms'[req[s].form] = forms[req[s].form]
      BY <1>1, <2>1, <2>2 DEF StatusInv
    <2>4. QED
      BY <2>1, <2>2, <2>3 DEF StatusChecked, Edits, Editable, Decidable, Exists,
         MayEdit
  <1>2. ASSUME NEW g \in Forms, g # f
        PROVE  RecordAgrees(g)'
    BY <1>2 DEF StatusInv, RecordAgrees, Decided, Exists
  <1>3. QED
    BY <1>1, <1>2 DEF StatusInv

(* A new request's first read is what StatusChecked says.                  *)
LEMMA BeginChecked ==
  ASSUME TypeOK, NEW r \in Requests, NEW u \in Users, NEW f \in Forms,
         Begin(r, u, f)
  PROVE  /\ UNCHANGED <<forms, entries>>
         /\ \A s \in Requests : s # r => req'[s] = req[s]
         /\ req'[r] # Idle /\ req'[r].form = f
         /\ StatusChecked(req'[r])
  <1> DEFINE Goal == /\ UNCHANGED <<forms, entries>>
                     /\ \A s \in Requests : s # r => req'[s] = req[s]
                     /\ req'[r] # Idle /\ req'[r].form = f
                     /\ StatusChecked(req'[r])
  <1> USE DEF TypeOK, Start, Call, Idle, StatusChecked, Edits
  <1>1. CASE StartUpdateForm(r, u, f)
    BY <1>1 DEF StartUpdateForm
  <1>2. CASE StartDeleteForm(r, u, f)
    BY <1>2 DEF StartDeleteForm
  <1>3. CASE StartSubmit(r, u, f)
    BY <1>3 DEF StartSubmit
  <1>4. CASE StartApprove(r, u, f)
    BY <1>4 DEF StartApprove
  <1>5. CASE StartReject(r, u, f)
    BY <1>5 DEF StartReject
  <1>6. ASSUME NEW w \in Workers, NEW i \in Items, StartAddEntry(r, u, f, w, i)
        PROVE  Goal
    BY <1>6 DEF StartAddEntry
  <1>7. ASSUME NEW S \in SUBSET Items, StartBulkEntries(r, u, f, S)
        PROVE  Goal
    BY <1>7 DEF StartBulkEntries
  <1>8. ASSUME NEW e \in Entries, NEW i \in Items \cup {Null},
               StartUpdateEntry(r, u, f, e, i)
        PROVE  Goal
    BY <1>8 DEF StartUpdateEntry
  <1>9. ASSUME NEW e \in Entries, StartDeleteEntry(r, u, f, e)
        PROVE  Goal
    BY <1>9 DEF StartDeleteEntry
  <1>10. QED
    BY <1>1, <1>2, <1>3, <1>4, <1>5, <1>6, <1>7, <1>8, <1>9 DEF Begin

LEMMA StatusBegin ==
  ASSUME StatusInv, TypeOK', OneRequestPerForm',
         NEW r \in Requests, NEW u \in Users, NEW f \in Forms, Begin(r, u, f)
  PROVE  StatusInv'
  <1>1. /\ UNCHANGED <<forms, entries>>
        /\ \A s \in Requests : s # r => req'[s] = req[s]
        /\ req'[r] # Idle /\ req'[r].form = f
        /\ StatusChecked(req'[r])
    BY BeginChecked DEF StatusInv
  <1>2. StatusChecked(req[r])'
    BY <1>1 DEF StatusChecked, Edits, Editable, Decidable, Exists, MayEdit
  <1>3. RecordAgrees(f)'
    BY <1>1 DEF StatusInv, RecordAgrees, Decided, Exists
  <1>4. QED
    BY <1>1, <1>2, <1>3, StatusLocal

LEMMA StatusCreate ==
  ASSUME StatusInv, TypeOK', OneRequestPerForm',
         NEW u \in Users, NEW w \in Workers, NEW f \in Forms, CreateForm(u, w, f)
  PROVE  StatusInv'
  <1> USE DEF StatusInv, TypeOK, CreateForm
  <1>1. \A g \in Forms : g # f => forms'[g] = forms[g]
    OBVIOUS
  <1>2. ASSUME NEW s \in Requests, req'[s] # Idle
        PROVE  StatusChecked(req[s])'
    <2>1. req[s].form \in Forms /\ StatusChecked(req[s])
      BY <1>2 DEF Request, InFlight
    <2>2. CASE req[s].form = f
      BY <2>1, <2>2 DEF StatusChecked, Editable, Decidable, Edits, Exists,
         RecordStatus
    <2>3. CASE req[s].form # f
      BY <1>1, <2>1, <2>3 DEF StatusChecked, Editable, Decidable, Edits, Exists,
         MayEdit
    <2>4. QED
      BY <2>2, <2>3
  <1>3. ASSUME NEW g \in Forms
        PROVE  RecordAgrees(g)'
    BY DEF RecordAgrees, Decided, Exists, RecordStatus
  <1>4. QED
    BY <1>2, <1>3

LEMMA ProceedIsBusy ==
  ASSUME NEW r \in Requests, Proceed(r)
  PROVE  req[r] # Idle
  <1> SUFFICES ASSUME req[r].op = "none", req[r] = Idle PROVE FALSE
    BY DEF Idle
  <1>1. QED
    BY DEF Proceed, ListForSubmit, NextBulkEntry, FindForAdd, ListForUpdate,
       FindForUpdate, WriteUpdateForm, WriteDeleteForm, WriteSubmit,
       WriteApprove, WriteReject, InsertEntry, WriteUpdateEntry,
       WriteDeleteEntry, Fail, At

(* A request writes no row of another form and no other request.           *)
LEMMA ProceedLocal ==
  ASSUME TypeOK, NEW r \in Requests, NEW f \in Forms, f = req[r].form, Proceed(r)
  PROVE  /\ \A s \in Requests : s # r => req'[s] = req[s]
         /\ \A g \in Forms : g # f => forms'[g] = forms[g]
  <1>1. \A s \in Requests : s # r => req'[s] = req[s]
    BY DEF TypeOK, Proceed, ListForSubmit, NextBulkEntry, FindForAdd,
       ListForUpdate, FindForUpdate, WriteUpdateForm, WriteDeleteForm,
       WriteSubmit, WriteApprove, WriteReject, InsertEntry, WriteUpdateEntry,
       WriteDeleteEntry, Fail, Goto, Finish
  <1>2. \A g \in Forms : g # f => forms'[g] = forms[g]
    BY DEF TypeOK, Proceed, ListForSubmit, NextBulkEntry, FindForAdd,
       ListForUpdate, FindForUpdate, WriteUpdateForm, WriteDeleteForm,
       WriteSubmit, WriteApprove, WriteReject, InsertEntry, WriteUpdateEntry,
       WriteDeleteEntry, Fail
  <1>3. QED
    BY <1>1, <1>2

LEMMA StatusProceed ==
  ASSUME StatusInv, TypeOK', OneRequestPerForm', NEW r \in Requests, Proceed(r)
  PROVE  StatusInv'
  <1> DEFINE q == req[r]
  <1>1. q # Idle
    BY ProceedIsBusy
  <1> PICK f \in Forms : f = req[r].form
    BY <1>1 DEF StatusInv, TypeOK, Request, InFlight
  <1>2. q \in InFlight /\ f = q.form /\ StatusChecked(q) /\ RecordAgrees(f)
    BY <1>1 DEF StatusInv, TypeOK, Request
  <1>3. \A s \in Requests : s # r => req'[s] = req[s]
    BY ProceedLocal DEF StatusInv
  <1>4. \A g \in Forms : g # f => forms'[g] = forms[g]
    BY ProceedLocal DEF StatusInv
  <1>5. ASSUME req'[r] # Idle
        PROVE  StatusChecked(req[r])'
    <2> USE <1>2 DEF StatusInv, TypeOK, InFlight
    <2>1. ASSUME NEW pc \in PCs, Goto(r, pc), UNCHANGED forms,
                 \/ q.op \in {"submit", "addEntry", "updateEntry"}
                 \/ q.op = "bulkEntries" /\ (q.pc # "next" \/ pc = "next")
          PROVE  StatusChecked(req[r])'
      <3>1. req'[r] = [q EXCEPT !.pc = pc]
        BY <2>1 DEF Goto
      <3>2. /\ req'[r].op = q.op /\ req'[r].by = q.by /\ req'[r].form = q.form
            /\ req'[r].pc = pc
        BY <3>1
      <3>3. QED
        BY <2>1, <3>2 DEF StatusChecked, Edits, Editable, Exists, MayEdit
    <2>2. ASSUME NEW i \in Items, NextBulkEntry(r, i)
          PROVE  StatusChecked(req[r])'
      <3>1. req'[r] = [q EXCEPT !.pc = "find", !.item = i, !.todo = q.todo \ {i}]
        BY <2>2 DEF NextBulkEntry
      <3>2. /\ req'[r].op = q.op /\ req'[r].by = q.by /\ req'[r].form = q.form
            /\ q.op = "bulkEntries" /\ Editable(q.by, f) /\ UNCHANGED forms
        BY <2>2, <3>1 DEF NextBulkEntry, At
      <3>3. QED
        BY <3>2 DEF StatusChecked, Edits, Editable, Exists, MayEdit
    <2>3. ~Finish(r)
      BY <1>5 DEF Finish
    <2>4. CASE ListForSubmit(r)
      BY <2>1, <2>4 DEF ListForSubmit, At, PCs
    <2>5. CASE FindForAdd(r)
      BY <2>1, <2>5 DEF FindForAdd, PCs
    <2>6. CASE ListForUpdate(r)
      BY <2>1, <2>6 DEF ListForUpdate, At, PCs
    <2>7. CASE FindForUpdate(r)
      BY <2>1, <2>7 DEF FindForUpdate, At, PCs
    <2>8. ASSUME NEW e \in Entries, NEW c \in Contents, InsertEntry(r, e, c)
          PROVE  StatusChecked(req[r])'
      BY <2>1, <2>3, <2>8 DEF InsertEntry, PCs
    <2>9. QED
      BY <2>2, <2>3, <2>4, <2>5, <2>6, <2>7, <2>8 DEF Proceed, WriteUpdateForm,
         WriteDeleteForm, WriteSubmit, WriteApprove, WriteReject,
         WriteUpdateEntry, WriteDeleteEntry, Fail
  <1>6. RecordAgrees(f)'
    <2> DEFINE old == forms[f]
               new == forms'[f]
    <2>1. CASE UNCHANGED forms
      BY <1>2, <2>1 DEF RecordAgrees, Decided, Exists
    <2>2. ASSUME q.op = "updateForm" \/ q.op = "submit" \/ q.op = "deleteForm"
          PROVE  Exists(f) /\ old.status = "DRAFT" /\ ~old.approved
      BY <1>2, <2>2 DEF StatusChecked, Edits, Editable, RecordAgrees
    <2>3. ASSUME q.op = "approve" \/ q.op = "reject"
          PROVE  Exists(f) /\ q.by \in Admins /\ ~old.approved
      BY <1>2, <2>3 DEF StatusChecked, Decidable, RecordAgrees
    <2>4. CASE WriteUpdateForm(r)
      <3>1. new.status = old.status /\ new.approved = old.approved
        BY <1>2, <2>4 DEF WriteUpdateForm, StatusInv, TypeOK, FormRow
      <3>2. QED
        BY <2>2, <2>4, <3>1 DEF WriteUpdateForm, At, RecordAgrees, Decided
    <2>5. CASE WriteDeleteForm(r)
      <3>1. new.status = "DELETED"
        BY <1>2, <2>5 DEF WriteDeleteForm, StatusInv, TypeOK, FormRow
      <3>2. QED
        BY <3>1 DEF RecordAgrees, Decided, Exists, RecordStatus
    <2>6. CASE WriteSubmit(r)
      <3>1. new.status = "PENDING" /\ new.approved = old.approved
        BY <1>2, <2>6 DEF WriteSubmit, StatusInv, TypeOK, FormRow
      <3>2. QED
        BY <2>2, <2>6, <3>1 DEF WriteSubmit, At, RecordAgrees, Decided
    <2>7. CASE WriteApprove(r)
      <3>1. new.status = "CONFIRMED" /\ new.updater = q.by
        BY <1>2, <2>7 DEF WriteApprove, StatusInv, TypeOK, FormRow
      <3>2. QED
        BY <2>3, <2>7, <3>1 DEF WriteApprove, At, RecordAgrees
    <2>8. CASE WriteReject(r)
      <3>1. /\ new.status = "REJECTED" /\ new.updater = q.by
            /\ new.approved = old.approved
        BY <1>2, <2>8 DEF WriteReject, StatusInv, TypeOK, FormRow
      <3>2. QED
        BY <2>3, <2>8, <3>1 DEF WriteReject, At, RecordAgrees
    <2>9. QED
      BY <2>1, <2>4, <2>5, <2>6, <2>7, <2>8 DEF Proceed, ListForSubmit,
         NextBulkEntry, FindForAdd, ListForUpdate, FindForUpdate, InsertEntry,
         WriteUpdateEntry, WriteDeleteEntry, Fail
  <1>7. /\ req[r] # Idle /\ req[r].form = f
        /\ req'[r] # Idle => StatusChecked(req[r])'
    BY <1>1, <1>2, <1>5
  <1> HIDE DEF q
  <1>8. QED
    BY <1>3, <1>4, <1>6, <1>7, StatusLocal

LEMMA StatusInit == Init => StatusInv
  BY InitType DEF Init, StatusInv, OneRequestPerForm, RecordAgrees, Decided,
     Exists, RecordStatus

LEMMA StatusNext == StatusInv /\ [Next /\ OneRequestPerForm']_vars => StatusInv'
  <1> SUFFICES ASSUME StatusInv, [Next /\ OneRequestPerForm']_vars
               PROVE  StatusInv'
    OBVIOUS
  <1>1. TypeOK'
    BY NextType DEF StatusInv
  <1>2. CASE UNCHANGED vars
    BY <1>2 DEF vars, StatusInv, TypeOK, OneRequestPerForm, StatusChecked, Edits,
       Editable, Decidable, RecordAgrees, Decided, Exists, MayEdit
  <1>3. QED
    BY <1>1, <1>2, StatusCreate, StatusBegin, StatusProceed DEF Next

LEMMA StatusInvariant == OrderlySpec => []StatusInv
  BY StatusInit, StatusNext, PTL DEF OrderlySpec

(* When the requests of a form do not overlap, its record names the admin  *)
(* who decided, and only what was confirmed carries an approval.           *)
THEOREM DecisionsTheorem == OrderlySpec => []DecisionsOnRecord
  <1>1. StatusInv => DecisionsOnRecord
    BY DEF StatusInv, DecisionsOnRecord, RecordAgrees, Decided, Exists,
       RecordStatus
  <1>2. QED
    BY <1>1, StatusInvariant, PTL

-----------------------------------------------------------------------------
(* The entries, whichever form a caller names them under.                  *)

EntryChecked(q) ==
  /\ (q.op = "submit" /\ q.pc = "write") => Kept(q.form) # {}
  /\ q.op \in {"updateEntry", "deleteEntry"} => q.entry \in Entries
  /\ (q.op = "updateEntry" /\ q.pc # "list") => entries[q.entry].form = q.form
  /\ (q.op = "addEntry" \/ (q.op = "bulkEntries" /\ q.pc # "next")) => q.item \in Items

EntryPlaced(e) ==
  /\ entries[e].state = "UNBORN" => entries[e].form = Null
  /\ Stored(e) \/ Strayed(e) => entries[e].form \in Forms /\ entries[e].item \in Items

Supplied(f) == (Exists(f) /\ forms[f].status # "DRAFT") => Kept(f) # {}

EntryInv ==
  /\ StatusInv
  /\ \A r \in Requests : req[r] # Idle => EntryChecked(req[r])
  /\ \A e \in Entries : EntryPlaced(e)
  /\ \A f \in Forms : Supplied(f)

(* A step that writes no entry but those of f, and these only while f is a *)
(* draft.                                                                  *)
EntriesOnly(f) ==
  \A e \in Entries : entries'[e] # entries[e] =>
    /\ forms[f].status = "DRAFT"
    /\ entries[e].state = "UNBORN" \/ (Stored(e) /\ entries[e].form = f)
    /\ entries'[e].form = f

(* A deletion under another form, which is a draft.                        *)
Strays(r) ==
  LET e == req[r].entry IN
  /\ At(r, "deleteEntry", "write") /\ UNCHANGED forms
  /\ e \in Entries /\ Stored(e) /\ entries[e].form # req[r].form
  /\ forms[req[r].form].status = "DRAFT"
  /\ entries' = [entries EXCEPT ![e].state = "STRAYED"]

(* A step that takes nothing from g and leaves its entries as they are.    *)
EntriesStay(g) ==
  /\ Kept(g)' = Kept(g)
  /\ \A e \in Entries : entries[e].form = g =>
       entries'[e].form = g /\ entries'[e].item = entries[e].item

LEMMA OtherEntries ==
  ASSUME EntryInv, NEW f \in Forms, EntriesOnly(f), NEW g \in Forms, g # f
  PROVE  EntriesStay(g)
  <1>1. ASSUME NEW e \in Entries
        PROVE  /\ entries[e].form = g => entries'[e] = entries[e]
               /\ e \in Kept(g)' <=> e \in Kept(g)
    BY DataAssumption DEF EntryInv, EntriesOnly, EntryPlaced, Kept, Strayed, Stored
  <1>2. Kept(g)' = Kept(g)
    BY <1>1 DEF Kept
  <1>3. QED
    BY <1>1, <1>2 DEF EntriesStay

LEMMA StrayedEntry ==
  ASSUME EntryInv, NEW r \in Requests, Strays(r)
  PROVE  /\ \A g \in Forms : EntriesStay(g)
         /\ \A e \in Entries : EntryPlaced(e)'
  <1> DEFINE x == req[r].entry
  <1>1. /\ x \in Entries /\ Stored(x) /\ entries \in [Entries -> EntryRow]
        /\ entries' = [entries EXCEPT ![x].state = "STRAYED"]
    BY DEF Strays, EntryInv, StatusInv, TypeOK
  <1> HIDE DEF x
  <1>2. /\ entries'[x].form = entries[x].form /\ entries'[x].item = entries[x].item
        /\ entries'[x].state = "STRAYED"
        /\ \A e \in Entries : e # x => entries'[e] = entries[e]
    BY <1>1 DEF EntryRow
  <1>3. ASSUME NEW g \in Forms
        PROVE  EntriesStay(g)
    <2>1. \A e \in Entries : e \in Kept(g)' <=> e \in Kept(g)
      BY <1>1, <1>2 DEF Kept, Strayed, Stored
    <2>2. Kept(g)' = Kept(g)
      BY <2>1 DEF Kept
    <2>3. QED
      BY <1>2, <2>2 DEF EntriesStay
  <1>4. ASSUME NEW e \in Entries
        PROVE  EntryPlaced(e)'
    BY <1>1, <1>2 DEF EntryInv, EntryPlaced, Strayed, Stored
  <1>5. QED
    BY <1>3, <1>4

LEMMA EntryLocal ==
  ASSUME EntryInv, StatusInv', NEW r \in Requests, NEW f \in Forms,
         \A s \in Requests : s # r => req'[s] = req[s],
         (req[r] # Idle /\ req[r].form = f) \/ (req'[r] # Idle /\ req'[r].form = f),
         \A g \in Forms : g # f => forms'[g] = forms[g] /\ EntriesStay(g),
         req'[r] # Idle => EntryChecked(req[r])',
         \A e \in Entries : EntryPlaced(e)',
         Supplied(f)'
  PROVE  EntryInv'
  <1>1. ASSUME NEW s \in Requests, s # r, req'[s] # Idle
        PROVE  EntryChecked(req[s])'
    <2>1. req[s] \in InFlight /\ req'[s] = req[s]
      BY <1>1 DEF EntryInv, StatusInv, TypeOK, Request
    <2>2. req[s].form \in Forms /\ req[s].form # f
      BY <1>1, <2>1 DEF InFlight, EntryInv, StatusInv, OneRequestPerForm
    <2>3. EntryChecked(req[s]) /\ EntriesStay(req[s].form)
      BY <1>1, <2>1, <2>2 DEF EntryInv
    <2>4. QED
      BY <2>1, <2>3 DEF EntryChecked, EntriesStay, Kept, Stored, Strayed
  <1>2. ASSUME NEW g \in Forms, g # f
        PROVE  Supplied(g)'
    <2>1. forms'[g] = forms[g] /\ Kept(g)' = Kept(g) /\ Supplied(g)
      BY <1>2 DEF EntryInv, EntriesStay
    <2>2. QED
      BY <2>1 DEF Supplied, Exists
  <1>3. QED
    BY <1>1, <1>2 DEF EntryInv

LEMMA EntryBegin ==
  ASSUME EntryInv, StatusInv',
         NEW r \in Requests, NEW u \in Users, NEW f \in Forms, Begin(r, u, f)
  PROVE  EntryInv' /\ EntriesOnly(f)
  <1>1. /\ UNCHANGED <<forms, entries>>
        /\ \A s \in Requests : s # r => req'[s] = req[s]
        /\ req'[r] # Idle /\ req'[r].form = f
    BY BeginChecked DEF EntryInv, StatusInv
  <1>2. EntryChecked(req'[r])
    <2> USE DEF EntryInv, StatusInv, TypeOK, Start, Call, EntryChecked
    <2>1. CASE StartUpdateForm(r, u, f)
      BY <2>1 DEF StartUpdateForm
    <2>2. CASE StartDeleteForm(r, u, f)
      BY <2>2 DEF StartDeleteForm
    <2>3. CASE StartSubmit(r, u, f)
      BY <2>3 DEF StartSubmit
    <2>4. CASE StartApprove(r, u, f)
      BY <2>4 DEF StartApprove
    <2>5. CASE StartReject(r, u, f)
      BY <2>5 DEF StartReject
    <2>6. ASSUME NEW w \in Workers, NEW i \in Items, StartAddEntry(r, u, f, w, i)
          PROVE  EntryChecked(req'[r])
      BY <2>6 DEF StartAddEntry
    <2>7. ASSUME NEW S \in SUBSET Items, StartBulkEntries(r, u, f, S)
          PROVE  EntryChecked(req'[r])
      BY <2>7 DEF StartBulkEntries
    <2>8. ASSUME NEW e \in Entries, NEW i \in Items \cup {Null},
                 StartUpdateEntry(r, u, f, e, i)
          PROVE  EntryChecked(req'[r])
      BY <2>8 DEF StartUpdateEntry
    <2>9. ASSUME NEW e \in Entries, StartDeleteEntry(r, u, f, e)
          PROVE  EntryChecked(req'[r])
      BY <2>9 DEF StartDeleteEntry
    <2>10. QED
      BY <2>1, <2>2, <2>3, <2>4, <2>5, <2>6, <2>7, <2>8, <2>9 DEF Begin
  <1>3. EntryChecked(req[r])'
    BY <1>1, <1>2 DEF EntryChecked, Kept, Strayed, Stored
  <1>4. EntriesOnly(f)
    BY <1>1 DEF EntriesOnly
  <1>5. Supplied(f)' /\ \A e \in Entries : EntryPlaced(e)'
    BY <1>1 DEF EntryInv, EntryPlaced, Supplied, Kept, Strayed, Stored, Exists
  <1>6. \A g \in Forms : g # f => EntriesStay(g)
    BY <1>4, OtherEntries
  <1>7. QED
    BY <1>1, <1>3, <1>4, <1>5, <1>6, EntryLocal

LEMMA EntryCreate ==
  ASSUME EntryInv, StatusInv',
         NEW u \in Users, NEW w \in Workers, NEW f \in Forms, CreateForm(u, w, f)
  PROVE  EntryInv' /\ EntriesOnly(f)
  <1> USE DEF CreateForm
  <1>1. ASSUME NEW r \in Requests, req'[r] # Idle
        PROVE  EntryChecked(req[r])'
    BY <1>1 DEF EntryInv, EntryChecked, Kept, Strayed, Stored
  <1>2. ASSUME NEW e \in Entries
        PROVE  EntryPlaced(e)'
    BY DEF EntryInv, EntryPlaced, Strayed, Stored
  <1>3. ASSUME NEW g \in Forms
        PROVE  Supplied(g)'
    BY DEF EntryInv, StatusInv, TypeOK, Supplied, Kept, Strayed, Stored, Exists
  <1>4. QED
    BY <1>1, <1>2, <1>3 DEF EntryInv, EntriesOnly

(* What a request in flight does to the entries.                           *)
LEMMA ProceedEntries ==
  ASSUME EntryInv, NEW r \in Requests, NEW f \in Forms,
         req[r] \in InFlight, f = req[r].form, Proceed(r)
  PROVE  /\ EntriesOnly(f) \/ Strays(r)
         /\ \A e \in Entries : EntryPlaced(e)'
  <1> DEFINE q == req[r]
             Goal == /\ EntriesOnly(f) \/ Strays(r)
                     /\ \A e \in Entries : EntryPlaced(e)'
  <1>1. /\ StatusChecked(q) /\ EntryChecked(q)
        /\ \A e \in Entries : EntryPlaced(e)
        /\ entries \in [Entries -> EntryRow]
    BY DEF EntryInv, StatusInv, TypeOK, InFlight, Idle, Ops
  <1>2. Edits(q) => forms[f].status = "DRAFT"
    BY <1>1 DEF StatusChecked, Editable
  <1>3. CASE UNCHANGED entries
    BY <1>1, <1>3 DEF EntriesOnly, EntryPlaced, Strayed, Stored
  <1>4. CASE WriteDeleteForm(r)
    <2>1. forms[f].status = "DRAFT"
      BY <1>2, <1>4 DEF WriteDeleteForm, At, Edits
    <2>2. ASSUME NEW e \in Entries
          PROVE  /\ e \in EntriesOf(f) =>
                      /\ Stored(e) /\ entries[e].form = f
                      /\ entries'[e].form = f /\ entries'[e].state = "DELETED"
                 /\ e \notin EntriesOf(f) => entries'[e] = entries[e]
      BY <1>1, <1>4 DEF WriteDeleteForm, EntriesOf, EntryRow
    <2>3. QED
      BY <1>1, <2>1, <2>2 DEF EntriesOnly, EntryPlaced, Strayed, Stored
  <1>5. ASSUME NEW e \in Entries, NEW c \in Contents, InsertEntry(r, e, c)
        PROVE  Goal
    <2>1. forms[f].status = "DRAFT" /\ q.item \in Items
      BY <1>1, <1>2, <1>5 DEF InsertEntry, Edits, EntryChecked
    <2>2. /\ entries[e].state = "UNBORN"
          /\ entries'[e].form = f /\ entries'[e].item = q.item
          /\ entries'[e].state = "STORED"
          /\ \A d \in Entries : d # e => entries'[d] = entries[d]
      BY <1>1, <1>5 DEF InsertEntry
    <2>3. QED
      BY <1>1, <2>1, <2>2 DEF EntriesOnly, EntryPlaced, Strayed, Stored
  <1>6. ASSUME NEW c \in Contents, WriteUpdateEntry(r, c)
        PROVE  Goal
    <2> DEFINE e == q.entry
    <2>1. /\ forms[f].status = "DRAFT"
          /\ e \in Entries /\ entries[e].form = f /\ Stored(e)
      BY <1>1, <1>2, <1>6 DEF WriteUpdateEntry, At, Edits, EntryChecked
    <2>2. /\ entries'[e].form = f /\ entries'[e].item = entries[e].item
          /\ entries'[e].state = entries[e].state
          /\ \A d \in Entries : d # e => entries'[d] = entries[d]
      BY <1>1, <1>6, <2>1 DEF WriteUpdateEntry, EntryRow
    <2> HIDE DEF e
    <2>3. ASSUME NEW d \in Entries
          PROVE  EntryPlaced(d)'
      BY <1>1, <2>1, <2>2 DEF EntryPlaced, Strayed, Stored
    <2>4. QED
      BY <2>1, <2>2, <2>3 DEF EntriesOnly
  <1>7. CASE WriteDeleteEntry(r)
    <2> DEFINE e == q.entry
    <2>1. forms[f].status = "DRAFT" /\ e \in Entries /\ Stored(e)
      BY <1>1, <1>2, <1>7 DEF WriteDeleteEntry, At, Edits, EntryChecked
    <2>2. CASE entries[e].form # f
      <3>1. Strays(r)
        BY <1>7, <2>1, <2>2 DEF WriteDeleteEntry, Strays
      <3>2. QED
        BY <3>1, StrayedEntry
    <2>3. CASE entries[e].form = f
      <3>1. /\ entries'[e].form = f /\ entries'[e].state = "DELETED"
            /\ \A d \in Entries : d # e => entries'[d] = entries[d]
        BY <1>1, <1>7, <2>1, <2>3 DEF WriteDeleteEntry, EntryRow
      <3> HIDE DEF e
      <3>2. ASSUME NEW d \in Entries
            PROVE  EntryPlaced(d)'
        BY <1>1, <2>1, <2>3, <3>1 DEF EntryPlaced, Strayed, Stored
      <3>3. EntriesOnly(f)
        BY <2>1, <2>3, <3>1 DEF EntriesOnly
      <3>4. QED
        BY <3>2, <3>3
    <2>4. QED
      BY <2>2, <2>3
  <1>8. QED
    BY <1>3, <1>4, <1>5, <1>6, <1>7 DEF Proceed, ListForSubmit, NextBulkEntry,
       FindForAdd, ListForUpdate, FindForUpdate, WriteUpdateForm, WriteSubmit,
       WriteApprove, WriteReject, Fail

LEMMA ProceedSupplied ==
  ASSUME EntryInv, NEW r \in Requests, NEW f \in Forms,
         req[r] \in InFlight, f = req[r].form, Proceed(r), EntriesOnly(f) \/ Strays(r)
  PROVE  Supplied(f)'
  <1> DEFINE q == req[r]
  <1>1. /\ StatusChecked(q) /\ EntryChecked(q) /\ Supplied(f)
        /\ forms \in [Forms -> FormRow]
    BY DEF EntryInv, StatusInv, TypeOK, InFlight, Idle, Ops
  <1>2. UNCHANGED entries => Kept(f)' = Kept(f)
    BY DEF Kept, Strayed, Stored
  <1>3. CASE UNCHANGED forms
    <2>1. CASE forms[f].status = "DRAFT"
      BY <1>3, <2>1 DEF Supplied
    <2>2. CASE forms[f].status # "DRAFT"
      <3>1. CASE EntriesOnly(f)
        <4>1. \A e \in Entries : entries'[e] = entries[e]
          BY <2>2, <3>1 DEF EntriesOnly
        <4>2. QED
          BY <1>1, <1>3, <4>1 DEF Supplied, Exists, Kept, Strayed, Stored
      <3>2. Strays(r) => Kept(f)' = Kept(f)
        BY StrayedEntry DEF EntriesStay
      <3>3. QED
        BY <1>1, <1>3, <3>1, <3>2 DEF Supplied, Exists
    <2>3. QED
      BY <2>1, <2>2
  <1>4. CASE WriteUpdateForm(r)
    <2>1. forms'[f].status = "DRAFT"
      BY <1>1, <1>4 DEF WriteUpdateForm, At, StatusChecked, Edits, Editable, FormRow
    <2>2. QED
      BY <2>1 DEF Supplied
  <1>5. CASE WriteDeleteForm(r)
    <2>1. forms'[f].status = "DELETED"
      BY <1>1, <1>5 DEF WriteDeleteForm, FormRow
    <2>2. QED
      BY <2>1 DEF Supplied, Exists, RecordStatus
  <1>6. CASE WriteSubmit(r)
    <2>1. Kept(f) # {}
      BY <1>1, <1>6 DEF WriteSubmit, At, EntryChecked
    <2>2. QED
      BY <1>2, <1>6, <2>1 DEF WriteSubmit, Supplied
  <1>7. CASE WriteApprove(r) \/ WriteReject(r)
    <2>1. Kept(f) # {}
      BY <1>1, <1>7 DEF WriteApprove, WriteReject, At, StatusChecked, Decidable,
         Supplied
    <2>2. UNCHANGED entries
      BY <1>7 DEF WriteApprove, WriteReject
    <2>3. QED
      BY <1>2, <2>1, <2>2 DEF Supplied
  <1>8. QED
    BY <1>3, <1>4, <1>5, <1>6, <1>7 DEF Proceed, ListForSubmit, NextBulkEntry,
       FindForAdd, ListForUpdate, FindForUpdate, InsertEntry, WriteUpdateEntry,
       WriteDeleteEntry, Fail

(* What the request itself knows after its step.                           *)
LEMMA ProceedChecked ==
  ASSUME EntryInv, NEW r \in Requests, req[r] \in InFlight, Proceed(r),
         req'[r] # Idle
  PROVE  EntryChecked(req[r])'
  <1> DEFINE q == req[r]
             Goal == EntryChecked(req[r])'
  <1>1. EntryChecked(q) /\ req \in [Requests -> Request]
    BY DEF EntryInv, StatusInv, TypeOK, InFlight, Idle, Ops
  <1>2. ~Finish(r)
    BY <1>1 DEF Finish
  <1>3. ASSUME NEW pc \in PCs, Goto(r, pc), UNCHANGED entries,
               (q.op = "submit" /\ pc = "write") => Kept(q.form) # {},
               (q.op = "updateEntry" /\ pc # "list") => entries[q.entry].form = q.form,
               (q.op = "bulkEntries" /\ pc # "next") => q.pc # "next"
        PROVE  Goal
    <2>1. req'[r] = [q EXCEPT !.pc = pc]
      BY <1>1, <1>3 DEF Goto
    <2>2. /\ req'[r].op = q.op /\ req'[r].form = q.form
          /\ req'[r].entry = q.entry /\ req'[r].item = q.item /\ req'[r].pc = pc
      BY <2>1 DEF InFlight
    <2>3. (req[r].op = "submit" /\ req'[r].pc = "write") => Kept(req[r].form)' # {}
      BY <1>3, <2>2 DEF Kept, Strayed, Stored
    <2>4. QED
      BY <1>1, <1>3, <2>2, <2>3 DEF EntryChecked
  <1>4. CASE ListForSubmit(r)
    <2>1. EntriesOf(q.form) \subseteq Kept(q.form)
      BY DEF EntriesOf, Kept
    <2>2. QED
      BY <1>3, <1>4, <2>1 DEF ListForSubmit, At, PCs
  <1>5. ASSUME NEW i \in Items, NextBulkEntry(r, i)
        PROVE  Goal
    <2>1. req'[r] = [q EXCEPT !.pc = "find", !.item = i, !.todo = q.todo \ {i}]
      BY <1>1, <1>5 DEF NextBulkEntry
    <2>2. req'[r].op = q.op /\ req'[r].item = i
      BY <2>1 DEF InFlight
    <2>3. q.op = "bulkEntries"
      BY <1>5 DEF NextBulkEntry, At
    <2>4. QED
      BY <2>2, <2>3 DEF EntryChecked
  <1>6. CASE FindForAdd(r)
    BY <1>3, <1>6 DEF FindForAdd, PCs
  <1>7. CASE ListForUpdate(r)
    BY <1>3, <1>7 DEF ListForUpdate, At, PCs, EntriesOf
  <1>8. CASE FindForUpdate(r)
    BY <1>1, <1>3, <1>8 DEF FindForUpdate, At, PCs, EntryChecked
  <1>9. ASSUME NEW e \in Entries, NEW c \in Contents, InsertEntry(r, e, c)
        PROVE  Goal
    <2>1. Goto(r, "next") /\ q.op \in {"addEntry", "bulkEntries"}
      BY <1>2, <1>9 DEF InsertEntry
    <2>2. req'[r] = [q EXCEPT !.pc = "next"]
      BY <1>1, <2>1 DEF Goto
    <2>3. req'[r].op = q.op /\ req'[r].item = q.item /\ req'[r].pc = "next"
      BY <2>2 DEF InFlight
    <2>4. QED
      BY <1>1, <2>1, <2>3 DEF EntryChecked
  <1>10. QED
    BY <1>2, <1>4, <1>5, <1>6, <1>7, <1>8, <1>9 DEF Proceed, WriteUpdateForm,
       WriteDeleteForm, WriteSubmit, WriteApprove, WriteReject,
       WriteUpdateEntry, WriteDeleteEntry, Fail

LEMMA EntryProceed ==
  ASSUME EntryInv, StatusInv', NEW r \in Requests, Proceed(r)
  PROVE  EntryInv' /\ (Strays(r) \/ \E f \in Forms : EntriesOnly(f))
  <1>1. req[r] \in InFlight
    <2>1. req[r] # Idle
      BY ProceedIsBusy
    <2>2. QED
      BY <2>1 DEF EntryInv, StatusInv, TypeOK, Request
  <1>2. PICK f \in Forms : f = req[r].form
    BY <1>1 DEF InFlight
  <1>3. /\ \A s \in Requests : s # r => req'[s] = req[s]
        /\ \A g \in Forms : g # f => forms'[g] = forms[g]
    BY <1>1, <1>2, ProceedLocal DEF EntryInv, StatusInv
  <1>4. /\ EntriesOnly(f) \/ Strays(r)
        /\ \A e \in Entries : EntryPlaced(e)'
        /\ \A g \in Forms : g # f => EntriesStay(g)
    BY <1>1, <1>2, ProceedEntries, OtherEntries, StrayedEntry
  <1>5. Supplied(f)'
    BY <1>1, <1>2, <1>4, ProceedSupplied
  <1>6. req'[r] # Idle => EntryChecked(req[r])'
    BY <1>1, ProceedChecked
  <1>7. req[r] # Idle /\ req[r].form = f
    BY <1>2, ProceedIsBusy
  <1>8. EntryInv'
    BY <1>3, <1>4, <1>5, <1>6, <1>7, EntryLocal
  <1>9. QED
    BY <1>4, <1>8

LEMMA EntryInit == Init => EntryInv
  BY StatusInit DEF Init, EntryInv, EntryPlaced, Supplied, Strayed, Stored, Exists,
     RecordStatus

(* The step of the proof that is about the handlers: it keeps EntryInv and *)
(* touches the entries of one form only, a draft, or deletes one entry     *)
(* under another form.                                                     *)
LEMMA EntryNext ==
  ASSUME EntryInv, [Next /\ OneRequestPerForm']_vars
  PROVE  /\ EntryInv'
         /\ \/ UNCHANGED entries
            \/ \E f \in Forms : EntriesOnly(f)
            \/ \E r \in Requests : Strays(r)
  <1>1. StatusInv'
    BY StatusNext DEF EntryInv
  <1>2. CASE UNCHANGED vars
    BY <1>1, <1>2 DEF vars, EntryInv, EntryChecked, EntryPlaced, Supplied,
       Kept, Strayed, Stored, Exists
  <1>3. QED
    BY <1>1, <1>2, EntryCreate, EntryBegin, EntryProceed DEF Next

LEMMA EntryInvariant == OrderlySpec => []EntryInv
  <1>1. EntryInv /\ [Next /\ OneRequestPerForm']_vars => EntryInv'
    BY EntryNext
  <1>2. QED
    BY <1>1, EntryInit, PTL DEF OrderlySpec

(* When the requests of a form do not overlap, a submitted form has the    *)
(* entries it was submitted with, but for those that a deletion under      *)
(* another form took away, whatever forms callers name.                    *)
THEOREM SuppliedTheorem == OrderlySpec => []SubmittedHasEntries
  <1>1. EntryInv => SubmittedHasEntries
    BY DEF EntryInv, Supplied, SubmittedHasEntries
  <1>2. QED
    BY <1>1, EntryInvariant, PTL

(* Under the same condition, entries are added, changed and removed only   *)
(* while their form is a draft, unless a deletion names another draft.     *)
THEOREM FrozenTheorem == OrderlySpec => FrozenUnlessStrayed
  <1> DEFINE Frozen ==
        \A e \in Entries :
          LET f == IF Stored(e) THEN entries[e].form ELSE entries'[e].form IN
          entries'[e] # entries[e] =>
            \/ forms[f].status = "DRAFT"
            \/ /\ entries' = [entries EXCEPT ![e].state = "STRAYED"]
               /\ \E r \in Requests :
                    /\ At(r, "deleteEntry", "write") /\ req[r].entry = e
                    /\ req[r].form # f /\ forms[req[r].form].status = "DRAFT"
  <1>1. EntryInv /\ [Next /\ OneRequestPerForm']_vars => [Frozen]_vars
    <2> SUFFICES ASSUME EntryInv, [Next /\ OneRequestPerForm']_vars
                 PROVE  Frozen
      OBVIOUS
    <2>1. ASSUME NEW f \in Forms, EntriesOnly(f)
          PROVE  Frozen
      BY <2>1 DEF EntriesOnly, Stored
    <2>2. ASSUME NEW r \in Requests, Strays(r)
          PROVE  Frozen
      <3>1. ASSUME NEW e \in Entries, e # req[r].entry
            PROVE  entries'[e] = entries[e]
        BY <2>2, <3>1 DEF Strays, EntryInv, StatusInv, TypeOK
      <3>2. QED
        BY <2>2, <3>1 DEF Strays
    <2>3. QED
      BY <2>1, <2>2, EntryNext
  <1>2. QED
    BY <1>1, EntryInvariant, PTL DEF OrderlySpec, FrozenUnlessStrayed

-----------------------------------------------------------------------------
(* The handlers implement FormWorkflow.                                    *)

Stage == [f \in Forms |-> forms[f].status]
Content ==
  [f \in Forms |-> IF forms[f].status = "DELETED" THEN {} ELSE {entries[e].item : e \in Kept(f)}]

LEMMA ContentOf ==
  ASSUME EntryInv, EntryInv', NEW f \in Forms,
         \A g \in Forms : g # f => forms'[g] = forms[g] /\ EntriesStay(g)
  PROVE  /\ Content' = [Content EXCEPT ![f] = Content'[f]]
         /\ Content'[f] \in SUBSET Items
  <1>1. ASSUME NEW g \in Forms, g # f
        PROVE  Content'[g] = Content[g]
    <2>1. {entries'[e].item : e \in Kept(g)'} = {entries[e].item : e \in Kept(g)}
      BY <1>1 DEF EntriesStay, Kept
    <2>2. QED
      BY <1>1, <2>1 DEF Content
  <1>2. Content' = [Content EXCEPT ![f] = Content'[f]]
    BY <1>1 DEF Content
  <1>3. Content'[f] \in SUBSET Items
    BY DEF EntryInv, EntryPlaced, Content, Kept
  <1>4. QED
    BY <1>2, <1>3

(* No entry comes or goes, and no form is deleted.                         *)
LEMMA ContentSame ==
  ASSUME UNCHANGED entries \/ \A g \in Forms : EntriesStay(g),
         \A g \in Forms : forms'[g].status = "DELETED" <=> forms[g].status = "DELETED"
  PROVE  Content' = Content
  <1>1. ASSUME NEW g \in Forms
        PROVE  {entries'[e].item : e \in Kept(g)'} = {entries[e].item : e \in Kept(g)}
    <2>1. CASE UNCHANGED entries
      BY <2>1 DEF Kept, Strayed, Stored
    <2>2. CASE \A h \in Forms : EntriesStay(h)
      BY <2>2 DEF EntriesStay, Kept
    <2>3. QED
      BY <2>1, <2>2
  <1>2. QED
    BY <1>1 DEF Content

(* A write of the status of one form.                                      *)
LEMMA StageMoved ==
  ASSUME TypeOK, TypeOK', NEW f \in Forms,
         \A g \in Forms : g # f => forms'[g] = forms[g]
  PROVE  Stage' = [Stage EXCEPT ![f] = forms'[f].status]
  BY DEF Stage, TypeOK

LEMMA WorkflowProceed ==
  ASSUME EntryInv, EntryInv', NEW r \in Requests, Proceed(r)
  PROVE  Workflow!Next \/ UNCHANGED <<Stage, Content>>
  <1> DEFINE q == req[r]
             Goal == Workflow!Next \/ UNCHANGED <<Stage, Content>>
  <1>1. q \in InFlight /\ q # Idle
    BY ProceedIsBusy DEF EntryInv, StatusInv, TypeOK, Request
  <1>2. PICK f \in Forms : f = req[r].form
    BY <1>1 DEF InFlight
  <1>3. /\ StatusChecked(q) /\ EntryChecked(q)
        /\ forms \in [Forms -> FormRow]
    BY <1>1 DEF EntryInv, StatusInv, TypeOK
  <1>4. EntriesOnly(f) \/ Strays(r)
    BY <1>1, <1>2, ProceedEntries
  <1>a. \A g \in Forms : g # f => forms'[g] = forms[g] /\ EntriesStay(g)
    BY <1>1, <1>2, <1>4, ProceedLocal, OtherEntries, StrayedEntry DEF EntryInv, StatusInv
  <1>5. Stage' = [Stage EXCEPT ![f] = forms'[f].status]
    BY <1>2, ProceedLocal, StageMoved DEF EntryInv, StatusInv
  <1>6. /\ Stage[f] = forms[f].status
        /\ Content' = [Content EXCEPT ![f] = Content'[f]]
        /\ Content'[f] \in SUBSET Items
    BY <1>a, ContentOf DEF Stage
  <1>7. CASE UNCHANGED forms
    <2>1. Stage' = Stage
      BY <1>7 DEF Stage
    <2>2. CASE forms[f].status = "DRAFT"
      <3>1. Workflow!Edit(f)
        BY <1>6, <2>1, <2>2 DEF Workflow!Edit, Stage, Content
      <3>2. QED
        BY <3>1 DEF Workflow!Next
    <2>3. CASE forms[f].status # "DRAFT"
      <3>1. \A g \in Forms : EntriesStay(g)
        <4>1. CASE EntriesOnly(f)
          <5>1. \A e \in Entries : entries'[e] = entries[e]
            BY <2>3, <4>1 DEF EntriesOnly
          <5>2. QED
            BY <5>1 DEF EntriesStay, Kept, Strayed, Stored
        <4>2. QED
          BY <1>4, <4>1, StrayedEntry
      <3>2. Content' = Content
        BY <1>7, <3>1, ContentSame
      <3>3. QED
        BY <2>1, <3>2
    <2>4. QED
      BY <2>2, <2>3
  <1>8. CASE WriteUpdateForm(r)
    <2>1. forms'[f].status = forms[f].status /\ UNCHANGED entries
      BY <1>2, <1>3, <1>8 DEF WriteUpdateForm, FormRow
    <2>2. Stage' = Stage
      BY <1>5, <1>6, <2>1 DEF Stage
    <2>3. \A g \in Forms : forms'[g].status = "DELETED" <=> forms[g].status = "DELETED"
      BY <1>a, <2>1
    <2>4. QED
      BY <2>1, <2>2, <2>3, ContentSame
  <1>9. CASE WriteDeleteForm(r)
    <2>1. forms[f].status = "DRAFT"
      BY <1>2, <1>3, <1>9 DEF WriteDeleteForm, At, StatusChecked, Edits, Editable
    <2>2. forms'[f].status = "DELETED"
      BY <1>2, <1>3, <1>9 DEF WriteDeleteForm, FormRow
    <2>4. Content'[f] = {}
      BY <2>2 DEF Content
    <2>5. Workflow!Delete(f)
      BY <1>5, <1>6, <2>1, <2>2, <2>4 DEF Workflow!Delete, Workflow!Move, Stage,
         Content
    <2>6. QED
      BY <2>5 DEF Workflow!Next
  <1>10. CASE WriteSubmit(r)
    <2>1. forms[f].status = "DRAFT" /\ Kept(f) # {} /\ UNCHANGED entries
      BY <1>2, <1>3, <1>10 DEF WriteSubmit, At, StatusChecked, Edits, Editable,
         EntryChecked
    <2>2. forms'[f].status = "PENDING"
      BY <1>2, <1>3, <1>10 DEF WriteSubmit, FormRow
    <2>3. Content' = Content
      BY <1>a, <2>1, <2>2, ContentSame
    <2>4. Content[f] # {}
      BY <2>1 DEF Content
    <2>5. Workflow!Submit(f)
      BY <1>5, <1>6, <2>1, <2>2, <2>3, <2>4 DEF Workflow!Submit, Workflow!Move,
         Stage, Content
    <2>6. QED
      BY <2>5 DEF Workflow!Next
  <1>11. CASE WriteApprove(r) \/ WriteReject(r)
    <2>1. forms[f].status = "PENDING" /\ UNCHANGED entries
      BY <1>2, <1>3, <1>11 DEF WriteApprove, WriteReject, At, StatusChecked,
         Decidable
    <2>2. forms'[f].status \in {"CONFIRMED", "REJECTED"}
      <3>1. CASE WriteApprove(r)
        BY <1>2, <1>3, <3>1 DEF WriteApprove, FormRow
      <3>2. CASE WriteReject(r)
        BY <1>2, <1>3, <3>2 DEF WriteReject, FormRow
      <3>3. QED
        BY <1>11, <3>1, <3>2
    <2>3. Content' = Content
      BY <1>a, <2>1, <2>2, ContentSame
    <2>4. Workflow!Decide(f)
      BY <1>5, <1>6, <2>1, <2>2, <2>3 DEF Workflow!Decide, Workflow!Move, Stage,
         Content
    <2>5. QED
      BY <2>4 DEF Workflow!Next
  <1>12. QED
    BY <1>7, <1>8, <1>9, <1>10, <1>11 DEF Proceed, ListForSubmit, NextBulkEntry,
       FindForAdd, ListForUpdate, FindForUpdate, InsertEntry, WriteUpdateEntry,
       WriteDeleteEntry, Fail

LEMMA WorkflowStep ==
  ASSUME EntryInv, EntryInv', [Next /\ OneRequestPerForm']_vars
  PROVE  [Workflow!Next]_<<Stage, Content>>
  <1>1. CASE UNCHANGED <<forms, entries>>
    BY <1>1, ContentSame DEF Stage
  <1>2. ASSUME NEW u \in Users, NEW w \in Workers, NEW f \in Forms,
               CreateForm(u, w, f)
        PROVE  Workflow!Next
    <2>1. /\ forms[f].status = "UNBORN" /\ forms'[f].status = "DRAFT"
          /\ \A g \in Forms : g # f => forms'[g] = forms[g]
      BY <1>2 DEF CreateForm, EntryInv, StatusInv, TypeOK
    <2>2. Content' = Content
      BY <1>2, <2>1, ContentSame DEF CreateForm
    <2>3. Stage' = [Stage EXCEPT ![f] = "DRAFT"]
      BY <2>1, StageMoved DEF EntryInv, StatusInv
    <2>4. Workflow!Create(f)
      BY <2>1, <2>2, <2>3 DEF Workflow!Create, Workflow!Move, Stage, Content
    <2>5. QED
      BY <2>4 DEF Workflow!Next
  <1>3. ASSUME NEW r \in Requests, NEW u \in Users, NEW f \in Forms,
               Begin(r, u, f)
        PROVE  UNCHANGED <<forms, entries>>
    BY <1>3, BeginChecked DEF EntryInv, StatusInv
  <1>4. QED
    BY <1>1, <1>2, <1>3, WorkflowProceed DEF Next, vars

(* When the requests of a form do not overlap, the handlers do what        *)
(* FormWorkflow promises, whatever forms callers name entries under, but   *)
(* for the entries that a deletion under another form takes away.          *)
THEOREM WorkflowTheorem == OrderlySpec => ImplementsWorkflow
  <1>1. Init => Workflow!Init
    BY DEF Init, Workflow!Init, Kept, Strayed, Stored
  <1>2. EntryInv /\ EntryInv' /\ [Next /\ OneRequestPerForm']_vars
          => [Workflow!Next]_<<Stage, Content>>
    BY WorkflowStep
  <1>3. QED
    BY <1>1, <1>2, EntryInvariant, PTL DEF OrderlySpec, ImplementsWorkflow,
       Workflow!Spec, Stage, Content
=============================================================================
