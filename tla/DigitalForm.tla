---------------------------- MODULE DigitalForm ----------------------------
(***************************************************************************)
(* The digital production form ("phieu cong doan"): its workflow           *)
(* DRAFT -> PENDING -> CONFIRMED | REJECTED and the entries recorded on it *)
(* (modules/digital-form/services and digital-form-prisma.repo.ts).        *)
(*                                                                         *)
(* Every HTTP request is an async handler: it reads the form, checks what  *)
(* it read, possibly reads the form's entries, and at last writes with an  *)
(* unconditional UPDATE/INSERT/DELETE by id.  The database is PostgreSQL   *)
(* under READ COMMITTED and no handler but deleteDigitalForm opens a       *)
(* transaction, so other requests run at every await.  A request is thus   *)
(* a record whose pc names the database call it makes next; each action    *)
(* is one database call with the synchronous code that follows it.         *)
(***************************************************************************)

CONSTANTS
  Users,       \* accounts that may call the form routes
  Admins,      \* those with role ADMIN or SUPER_ADMIN
  Workers,     \* production workers a form can be for
  Placed,      \* workers whose factory, line, team and group are all set
  Forms,       \* form ids; uuid v4, so never used twice
  Entries,     \* entry ids; likewise
  Items,       \* (handBag, bagColor, process) combinations
  Contents,    \* what an entry records: output, attendance, quality, ...
  Requests,    \* slots for requests in flight; one slot = no concurrency
  Null

ASSUME DataAssumption ==
  /\ Admins \subseteq Users
  /\ Placed \subseteq Workers
  /\ Null \notin Users \cup Workers \cup Forms \cup Entries \cup Items \cup Contents

VARIABLES
  forms,       \* table digital_production_forms
  entries,     \* table production_form_entries
  req          \* the requests in flight

vars == <<forms, entries, req>>

-----------------------------------------------------------------------------
(* The tables.  "UNBORN" is an id no row has yet, "DELETED" one whose row   *)
(* is gone.  "STRAYED" is an entry that is gone as well: it was deleted by  *)
(* a request that named another form than the one it was on.               *)

RecordStatus == {"DRAFT", "PENDING", "CONFIRMED", "REJECTED"}

FormRow ==
  [status : RecordStatus \cup {"UNBORN", "DELETED"},
   worker : Workers \cup {Null},
   creator : Users \cup {Null},
   updater : Users \cup {Null},
   submitted : BOOLEAN,          \* submitTime is set
   approved : BOOLEAN]           \* approvedAt is set

EntryRow ==
  [state : {"UNBORN", "STORED", "DELETED", "STRAYED"},
   form : Forms \cup {Null},
   worker : Workers \cup {Null},
   item : Items \cup {Null},
   content : Contents \cup {Null}]

Ops == {"updateForm", "deleteForm", "submit", "approve", "reject", "addEntry",
        "bulkEntries", "updateEntry", "deleteEntry"}

Idle == [op |-> "none", pc |-> "idle", by |-> Null, form |-> Null,
         entry |-> Null, item |-> Null, worker |-> Null, todo |-> {}]

InFlight ==
  [op : Ops,
   pc : {"next", "find", "list", "write"},   \* the call it makes next
   by : Users,
   form : Forms,
   entry : Entries \cup {Null},
   item : Items \cup {Null},
   worker : Workers \cup {Null},
   todo : SUBSET Items]          \* what a bulk request has still to add

Request == {Idle} \cup InFlight

Exists(f) == forms[f].status \in RecordStatus
Stored(e) == entries[e].state = "STORED"
EntriesOf(f) == {e \in Entries : Stored(e) /\ entries[e].form = f}
Recorded(f, i) == \E e \in EntriesOf(f) : entries[e].item = i

TypeOK ==
  /\ forms \in [Forms -> FormRow]
  /\ entries \in [Entries -> EntryRow]
  /\ req \in [Requests -> Request]

Init ==
  /\ forms = [f \in Forms |->
                [status |-> "UNBORN", worker |-> Null, creator |-> Null,
                 updater |-> Null, submitted |-> FALSE, approved |-> FALSE]]
  /\ entries = [e \in Entries |->
                  [state |-> "UNBORN", form |-> Null, worker |-> Null,
                   item |-> Null, content |-> Null]]
  /\ req = [r \in Requests |-> Idle]

-----------------------------------------------------------------------------
(* Control of a request.                                                   *)

Call(op, pc, u, f) ==
  [op |-> op, pc |-> pc, by |-> u, form |-> f,
   entry |-> Null, item |-> Null, worker |-> Null, todo |-> {}]

Start(r, call) == req[r] = Idle /\ req' = [req EXCEPT ![r] = call]
At(r, op, pc) == req[r].op = op /\ req[r].pc = pc
Goto(r, pc) == req' = [req EXCEPT ![r].pc = pc]
Finish(r) == req' = [req EXCEPT ![r] = Idle]

(* A database error, a write that finds its row gone or breaks a           *)
(* constraint, a check that fails after the first await, or a crash of the *)
(* server: the request ends, what it wrote so far stays.                   *)
Fail(r) ==
  /\ req[r] # Idle
  /\ Finish(r)
  /\ UNCHANGED <<forms, entries>>

(* _checkPermission: the creator of the form or an admin.                  *)
MayEdit(u, f) == u = forms[f].creator \/ u \in Admins

(* Fault: Editable and Decidable as they must not be.                      *)
EditableAlways(u, f) == Exists(f) /\ MayEdit(u, f)
DecidableUnchecked(u, f) == Exists(f) /\ u \in Admins
DecidableByEditors(u, f) == Exists(f) /\ MayEdit(u, f) /\ forms[f].status = "PENDING"

(* _getAndValidateForm, _checkPermission and the DRAFT check that open     *)
(* every handler that edits.                                               *)
Editable(u, f) == Exists(f) /\ MayEdit(u, f) /\ forms[f].status = "DRAFT"

(* What opens approveDigitalForm and rejectDigitalForm.                    *)
Decidable(u, f) == Exists(f) /\ u \in Admins /\ forms[f].status = "PENDING"

-----------------------------------------------------------------------------
(* Creation.  Nothing the handler reads before its INSERT can change in    *)
(* this model, so the handler is its last call.                            *)

CreateForm(u, w, f) ==
  /\ w \in Placed
  /\ forms[f].status = "UNBORN"
  /\ forms' = [forms EXCEPT ![f] =
                 [status |-> "DRAFT", worker |-> w, creator |-> u,
                  updater |-> u, submitted |-> FALSE, approved |-> FALSE]]
  /\ UNCHANGED <<entries, req>>

-----------------------------------------------------------------------------
(* updateDigitalForm: the name and the description; here only who wrote.   *)

StartUpdateForm(r, u, f) ==
  /\ Editable(u, f)
  /\ Start(r, Call("updateForm", "write", u, f))
  /\ UNCHANGED <<forms, entries>>

WriteUpdateForm(r) ==
  LET f == req[r].form IN
  /\ At(r, "updateForm", "write")
  /\ Exists(f)
  /\ forms' = [forms EXCEPT ![f].updater = req[r].by]
  /\ Finish(r)
  /\ UNCHANGED entries

(* deleteDigitalForm: one transaction removes the entries and the form.    *)

StartDeleteForm(r, u, f) ==
  /\ Editable(u, f)
  /\ Start(r, Call("deleteForm", "write", u, f))
  /\ UNCHANGED <<forms, entries>>

WriteDeleteForm(r) ==
  LET f == req[r].form IN
  /\ At(r, "deleteForm", "write")
  /\ Exists(f)
  /\ forms' = [forms EXCEPT ![f].status = "DELETED"]
  /\ entries' = [e \in Entries |->
                   IF e \in EntriesOf(f)
                     THEN [entries[e] EXCEPT !.state = "DELETED"]
                     ELSE entries[e]]
  /\ Finish(r)

-----------------------------------------------------------------------------
(* The workflow.                                                           *)

StartSubmit(r, u, f) ==
  /\ Editable(u, f)
  /\ Start(r, Call("submit", "list", u, f))
  /\ UNCHANGED <<forms, entries>>

ListForSubmitUnchecked(r) ==
  /\ At(r, "submit", "list")
  /\ Goto(r, "write")
  /\ UNCHANGED <<forms, entries>>

ListForSubmit(r) ==
  /\ At(r, "submit", "list")
  /\ EntriesOf(req[r].form) # {}
  /\ Goto(r, "write")
  /\ UNCHANGED <<forms, entries>>

WriteSubmitMisnamed(r) ==
  LET f == req[r].form IN
  /\ At(r, "submit", "write")
  /\ Exists(f)
  /\ forms' = [forms EXCEPT ![f] = [@ EXCEPT !.status = "SUBMITTED",
                                             !.submitted = TRUE,
                                             !.updater = req[r].by]]
  /\ Finish(r)
  /\ UNCHANGED entries

WriteSubmit(r) ==
  LET f == req[r].form IN
  /\ At(r, "submit", "write")
  /\ Exists(f)
  /\ forms' = [forms EXCEPT ![f] = [@ EXCEPT !.status = "PENDING",
                                             !.submitted = TRUE,
                                             !.updater = req[r].by]]
  /\ Finish(r)
  /\ UNCHANGED entries

StartApprove(r, u, f) ==
  /\ Decidable(u, f)
  /\ Start(r, Call("approve", "write", u, f))
  /\ UNCHANGED <<forms, entries>>

WriteApprove(r) ==
  LET f == req[r].form IN
  /\ At(r, "approve", "write")
  /\ Exists(f)
  /\ forms' = [forms EXCEPT ![f] = [@ EXCEPT !.status = "CONFIRMED",
                                             !.approved = TRUE,
                                             !.updater = req[r].by]]
  /\ Finish(r)
  /\ UNCHANGED entries

StartReject(r, u, f) ==
  /\ Decidable(u, f)
  /\ Start(r, Call("reject", "write", u, f))
  /\ UNCHANGED <<forms, entries>>

WriteRejectToDraft(r) ==
  LET f == req[r].form IN
  /\ At(r, "reject", "write")
  /\ Exists(f)
  /\ forms' = [forms EXCEPT ![f] = [@ EXCEPT !.status = "DRAFT",
                                             !.updater = req[r].by]]
  /\ Finish(r)
  /\ UNCHANGED entries

WriteReject(r) ==
  LET f == req[r].form IN
  /\ At(r, "reject", "write")
  /\ Exists(f)
  /\ forms' = [forms EXCEPT ![f] = [@ EXCEPT !.status = "REJECTED",
                                             !.updater = req[r].by]]
  /\ Finish(r)
  /\ UNCHANGED entries

-----------------------------------------------------------------------------
(* Entries.  addFormEntry looks for the combination first and inserts      *)
(* afterwards; the unique key unique_form_entry and the foreign key to the *)
(* form guard the INSERT itself.                                           *)

StartAddEntryAnyWorker(r, u, f, w, i) ==
  /\ Editable(u, f)
  /\ Start(r, [Call("addEntry", "find", u, f) EXCEPT !.worker = w, !.item = i])
  /\ UNCHANGED <<forms, entries>>

StartAddEntry(r, u, f, w, i) ==
  /\ Editable(u, f)
  /\ w = forms[f].worker
  /\ Start(r, [Call("addEntry", "find", u, f) EXCEPT !.worker = w, !.item = i])
  /\ UNCHANGED <<forms, entries>>

(* The controller's loop over a list of combinations: the form is read     *)
(* once for its worker and each addFormEntry reads and checks it again.    *)
StartBulkEntries(r, u, f, S) ==
  /\ Exists(f)
  /\ S # {}
  /\ Start(r, [Call("bulkEntries", "next", u, f)
                 EXCEPT !.worker = forms[f].worker, !.todo = S])
  /\ UNCHANGED <<forms, entries>>

NextBulkEntry(r, i) ==
  /\ At(r, "bulkEntries", "next")
  /\ i \in req[r].todo
  /\ Editable(req[r].by, req[r].form)
  /\ req[r].worker = forms[req[r].form].worker
  /\ req' = [req EXCEPT ![r] = [@ EXCEPT !.pc = "find", !.item = i,
                                         !.todo = req[r].todo \ {i}]]
  /\ UNCHANGED <<forms, entries>>

FindForAdd(r) ==
  /\ req[r].op \in {"addEntry", "bulkEntries"}
  /\ req[r].pc = "find"
  /\ ~Recorded(req[r].form, req[r].item)
  /\ Goto(r, "write")
  /\ UNCHANGED <<forms, entries>>

(* The database's part of an insert.                                       *)
InsertAllowedTwice(f, i) == Exists(f)
InsertAllowed(f, i) == Exists(f) /\ ~Recorded(f, i)

InsertEntry(r, e, c) ==
  /\ req[r].op \in {"addEntry", "bulkEntries"}
  /\ req[r].pc = "write"
  /\ InsertAllowed(req[r].form, req[r].item)
  /\ entries[e].state = "UNBORN"
  /\ entries' = [entries EXCEPT ![e] =
                   [state |-> "STORED", form |-> req[r].form,
                    worker |-> req[r].worker, item |-> req[r].item,
                    content |-> c]]
  /\ IF req[r].todo = {} THEN Finish(r) ELSE Goto(r, "next")
  /\ UNCHANGED forms

(* updateEntry and updateEntryShiftType: the entry must be on the form; a  *)
(* new combination (i # Null) is looked up for duplicates, but the         *)
(* repository never writes it.                                             *)

StartUpdateEntry(r, u, f, e, i) ==
  /\ Editable(u, f)
  /\ Start(r, [Call("updateEntry", "list", u, f)
                 EXCEPT !.entry = e, !.item = i])
  /\ UNCHANGED <<forms, entries>>

ListForUpdate(r) ==
  /\ At(r, "updateEntry", "list")
  /\ req[r].entry \in EntriesOf(req[r].form)
  /\ Goto(r, IF req[r].item = Null THEN "write" ELSE "find")
  /\ UNCHANGED <<forms, entries>>

FindForUpdate(r) ==
  /\ At(r, "updateEntry", "find")
  /\ \A e \in EntriesOf(req[r].form) :
       entries[e].item = req[r].item => e = req[r].entry
  /\ Goto(r, "write")
  /\ UNCHANGED <<forms, entries>>

WriteUpdateEntry(r, c) ==
  LET e == req[r].entry IN
  /\ At(r, "updateEntry", "write")
  /\ Stored(e)
  /\ entries' = [entries EXCEPT ![e].content = c]
  /\ Finish(r)
  /\ UNCHANGED forms

(* deleteFormEntry checks the form it is given and deletes the entry by    *)
(* its id alone, whichever form it is on.                                  *)

StartDeleteEntry(r, u, f, e) ==
  /\ Editable(u, f)
  /\ Start(r, [Call("deleteEntry", "write", u, f) EXCEPT !.entry = e])
  /\ UNCHANGED <<forms, entries>>

WriteDeleteEntry(r) ==
  LET e == req[r].entry IN
  /\ At(r, "deleteEntry", "write")
  /\ Stored(e)
  /\ entries' = [entries EXCEPT ![e].state =
                   IF entries[e].form = req[r].form THEN "DELETED" ELSE "STRAYED"]
  /\ Finish(r)
  /\ UNCHANGED forms

-----------------------------------------------------------------------------
(* A new request reads the form ...                                        *)
Begin(r, u, f) ==
  \/ StartUpdateForm(r, u, f)
  \/ StartDeleteForm(r, u, f)
  \/ StartSubmit(r, u, f)
  \/ StartApprove(r, u, f)
  \/ StartReject(r, u, f)
  \/ \E w \in Workers, i \in Items : StartAddEntry(r, u, f, w, i)
  \/ \E S \in SUBSET Items : StartBulkEntries(r, u, f, S)
  \/ \E e \in Entries, i \in Items \cup {Null} : StartUpdateEntry(r, u, f, e, i)
  \/ \E e \in Entries : StartDeleteEntry(r, u, f, e)

(* ... and one in flight makes its next database call.                     *)
Proceed(r) ==
  \/ ListForSubmit(r)
  \/ \E i \in Items : NextBulkEntry(r, i)
  \/ FindForAdd(r)
  \/ ListForUpdate(r)
  \/ FindForUpdate(r)
  \/ WriteUpdateForm(r)
  \/ WriteDeleteForm(r)
  \/ WriteSubmit(r)
  \/ WriteApprove(r)
  \/ WriteReject(r)
  \/ \E e \in Entries, c \in Contents : InsertEntry(r, e, c)
  \/ \E c \in Contents : WriteUpdateEntry(r, c)
  \/ WriteDeleteEntry(r)
  \/ Fail(r)

Next ==
  \/ \E u \in Users, w \in Workers, f \in Forms : CreateForm(u, w, f)
  \/ \E r \in Requests, u \in Users, f \in Forms : Begin(r, u, f)
  \/ \E r \in Requests : Proceed(r)

Spec == Init /\ [][Next]_vars

-----------------------------------------------------------------------------
(* What holds however the requests interleave.                             *)

(* The time stamps tell the history of a form even though every status is  *)
(* written blindly: a form has a submitTime exactly when it has left       *)
(* DRAFT, approvedAt is never set on a form that was not submitted, and a  *)
(* CONFIRMED form has its approvedAt.                                      *)
StampsTellHistory ==
  \A f \in Forms : Exists(f) =>
    /\ forms[f].submitted <=> forms[f].status # "DRAFT"
    /\ forms[f].approved => forms[f].submitted
    /\ forms[f].status = "CONFIRMED" => forms[f].approved

(* An entry is about the worker of the form it is on, and the form still   *)
(* exists: adding entries races with deleting the form.                    *)
EntriesBelong ==
  \A e \in Entries : Stored(e) =>
    /\ entries[e].form \in Forms /\ Exists(entries[e].form)
    /\ entries[e].worker = forms[entries[e].form].worker

(* addFormEntry looks before it inserts, so two requests may both find     *)
(* nothing; still a form never records one combination twice.              *)
NoCombinationTwice ==
  \A e1, e2 \in Entries :
    /\ Stored(e1) /\ Stored(e2)
    /\ entries[e1].form = entries[e2].form
    /\ entries[e1].item = entries[e2].item
    => e1 = e2

(* Whoever is recorded as the last to write a form was entitled to it.     *)
UpdaterEntitled ==
  \A f \in Forms : Exists(f) => MayEdit(forms[f].updater, f)

(* Of what a request has checked before its first await, this much is      *)
(* still true whenever it writes, whatever ran in between: the form was    *)
(* created, the caller may edit it, an approver or rejecter is an admin    *)
(* and the form was submitted, a new entry is for the form's worker.       *)
CheckedFactsLast ==
  \A r \in Requests : req[r] # Idle =>
    LET q == req[r]
        f == req[r].form
    IN /\ forms[f].status # "UNBORN"
       /\ q.op \in {"updateForm", "submit"} => MayEdit(q.by, f)
       /\ q.op \in {"approve", "reject"} => q.by \in Admins /\ forms[f].submitted
       /\ q.op \in {"addEntry", "bulkEntries"} => q.worker = forms[f].worker

(* A form that left DRAFT never comes back to it.                          *)
NeverDraftAgain ==
  [][\A f \in Forms :
       Exists(f) /\ forms[f].status # "DRAFT" => forms'[f].status # "DRAFT"]_vars

-----------------------------------------------------------------------------
(* What the checks of the handlers are for.  It needs the requests of one  *)
(* form to come one after the other, which nothing in the code enforces;   *)
(* deletions that name another form are let in, and told apart.            *)

OneRequestPerForm ==
  \A r1, r2 \in Requests :
    req[r1] # Idle /\ req[r2] # Idle /\ req[r1].form = req[r2].form => r1 = r2

OrderlySpec == Init /\ [][Next /\ OneRequestPerForm']_vars

Decided(f) == forms[f].status \in {"CONFIRMED", "REJECTED"}
Strayed(e) == entries[e].state = "STRAYED"

(* The entries that were not removed from the form itself.                 *)
Kept(f) == {e \in Entries : (Stored(e) \/ Strayed(e)) /\ entries[e].form = f}

(* Once a form is decided, its record says who decided: the last writer is *)
(* an admin, and a rejected form carries no approval.                      *)
DecisionsOnRecord ==
  \A f \in Forms : Decided(f) =>
    /\ forms[f].updater \in Admins
    /\ forms[f].status = "REJECTED" => ~forms[f].approved

(* The entries of a form that is no longer a draft are frozen: none is     *)
(* added, changed or removed while it waits for a decision or after it.    *)
EntriesFrozen ==
  [][\A e \in Entries :
       LET f == IF Stored(e) THEN entries[e].form ELSE entries'[e].form IN
       entries'[e] # entries[e] => forms[f].status = "DRAFT"]_vars

(* The one hole in that: whatever callers name, the entries of a form that *)
(* is no longer a draft are neither added nor changed, and one is removed  *)
(* only by a deletion that names another form, which is a draft.           *)
FrozenUnlessStrayed ==
  [][\A e \in Entries :
       LET f == IF Stored(e) THEN entries[e].form ELSE entries'[e].form IN
       entries'[e] # entries[e] =>
         \/ forms[f].status = "DRAFT"
         \/ /\ entries' = [entries EXCEPT ![e].state = "STRAYED"]
            /\ \E r \in Requests : /\ At(r, "deleteEntry", "write") /\ req[r].entry = e
                                   /\ req[r].form # f /\ forms[req[r].form].status = "DRAFT"]_vars

(* A form that waits for a decision or has got one has entries: the        *)
(* message of submitDigitalForm, which looks for them one await before it  *)
(* writes.  Those it has lost it lost to deletions under another form.     *)
SubmittedHasEntries ==
  \A f \in Forms :
    Exists(f) /\ forms[f].status # "DRAFT" => Kept(f) # {}

(* Only pending forms are approved or rejected, and a decision is final:   *)
(* the message of approveDigitalForm and rejectDigitalForm.                *)
OnlyPendingDecided ==
  [][\A f \in Forms :
       forms'[f].status \in {"CONFIRMED", "REJECTED"}
         => forms'[f].status = forms[f].status \/ forms[f].status = "PENDING"]_vars

Workflow == INSTANCE FormWorkflow WITH
  stage <- [f \in Forms |-> forms[f].status],
  content <- [f \in Forms |-> IF forms[f].status = "DELETED" THEN {}
                             ELSE {entries[e].item : e \in Kept(f)}]

(* With one request per form at a time, creating, editing, submitting and  *)
(* deciding forms through the handlers is what FormWorkflow promises, but  *)
(* for the entries that a deletion under another form takes away.          *)
ImplementsWorkflow == Workflow!Spec
=============================================================================
