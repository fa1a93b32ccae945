---------------------------- MODULE DailyForms ----------------------------
(***************************************************************************)
(* The job that gives every worker the day's digital form                  *)
(* (digital-form-scheduler.service.ts), on one working day and for the     *)
(* regular shift, together with the routes that make and remove such a     *)
(* form by hand.  A run takes a snapshot of the workers and walks over it, *)
(* two database calls per worker; other runs and routes go on meanwhile.   *)
(*                                                                         *)
(* Runs begin with POST digital-forms/generate-daily.  The @Cron decorator *)
(* of the job starts none, since no module imports ScheduleModule.         *)
(***************************************************************************)
CONSTANTS
  Workers,
  Groups,
  Suffixes,   \* the random suffixes of a form code; the code has 1000
  Runs,       \* slots for runs in flight
  Null

ASSUME NullAssumption == Null \notin Workers \cup Groups

(* A form code is the date and the shift, the path to the group, and the   *)
(* random suffix.                                                          *)
Codes == Groups \X Suffixes

VARIABLES
  place,   \* the group of a worker; Null: some of factory..group missing
  table,   \* the day's forms: formCode (@unique) -> worker
  run      \* the runs of the job

vars == <<place, table, run>>

Idle == [pc |-> "idle", place |-> Null, todo |-> {}, worker |-> Null, missed |-> {},
         raced |-> FALSE]

Running ==
  [pc : {"next", "insert"},
   place : [Workers -> Groups \cup {Null}],   \* as the snapshot has it
   todo : SUBSET Workers,                     \* the rest of the loop
   worker : Workers \cup {Null},              \* the one it is at
   missed : SUBSET Workers,                   \* those with a logged error
   raced : BOOLEAN]                           \* whether worker got a form since it was found without

Crashed == [Idle EXCEPT !.pc = "crashed"]

TypeOK ==
  /\ place \in [Workers -> Groups \cup {Null}]
  /\ table \in [Codes -> Workers \cup {Null}]
  /\ run \in [Runs -> {Idle, Crashed} \cup Running]

InProgress(r) == run[r].pc \in {"next", "insert"}
HasForm(w) == \E c \in Codes : table[c] = w

Init ==
  /\ place \in [Workers -> Groups \cup {Null}]
  /\ table = [c \in Codes |-> Null]
  /\ run = [r \in Runs |-> Idle]

-----------------------------------------------------------------------------
(* The snapshot.                                                           *)
StartRun(r) ==
  /\ ~InProgress(r)
  /\ run' = [run EXCEPT ![r] =
               [pc |-> "next", place |-> place, todo |-> Workers,
                worker |-> Null, missed |-> {}, raced |-> FALSE]]
  /\ UNCHANGED <<place, table>>

(* One turn of the loop.  The query has no ORDER BY, so any worker may be  *)
(* the next.  It is skipped when the snapshot has it without its place, or *)
(* when the table has a form for it ...                                    *)
SkippedIfUnplaced(r, w) == run[r].place[w] = Null
Skipped(r, w) == run[r].place[w] = Null \/ HasForm(w)

(* Fault: the worker stays in the loop.                                    *)
SameWorker(q, w) == q
NextWorker(q, w) ==
  [q EXCEPT !.pc = "next", !.worker = Null, !.todo = @ \ {w}, !.raced = FALSE]

SkipWorker(r, w) ==
  /\ run[r].pc = "next"
  /\ w \in run[r].todo
  /\ Skipped(r, w)
  /\ run' = [run EXCEPT ![r] = NextWorker(@, w)]
  /\ UNCHANGED <<place, table>>

FindNoForm(r, w) ==
  /\ run[r].pc = "next"
  /\ w \in run[r].todo
  /\ ~Skipped(r, w)
  /\ run' = [run EXCEPT ![r] = [@ EXCEPT !.pc = "insert", !.worker = w]]
  /\ UNCHANGED <<place, table>>

(* ... and otherwise gets a form, under a code with the group of the       *)
(* snapshot and a suffix drawn at random.                                  *)
Told(w) ==
  [q \in Runs |-> IF run[q].pc = "insert" /\ run[q].worker = w
                    THEN [run[q] EXCEPT !.raced = TRUE] ELSE run[q]]

(* Fault: the form of the group, not of the worker.                        *)
InsertFormSwapped(r, s) ==
  LET w == run[r].worker
      g == run[r].place[w]
  IN
  /\ run[r].pc = "insert"
  /\ table[<<g, s>>] = Null
  /\ table' = [table EXCEPT ![<<g, s>>] = g]
  /\ run' = [Told(w) EXCEPT ![r] = NextWorker(run[r], w)]
  /\ UNCHANGED place

InsertForm(r, s) ==
  LET w == run[r].worker
      code == <<run[r].place[w], s>>
  IN
  /\ run[r].pc = "insert"
  /\ table[code] = Null
  /\ table' = [table EXCEPT ![code] = w]
  /\ run' = [Told(w) EXCEPT ![r] = NextWorker(run[r], w)]
  /\ UNCHANGED place

(* The code of another form comes up: the INSERT breaks the unique key,    *)
(* and the catch inside the loop logs the worker and goes on.              *)
(* Fault: the first error ends the run.                                    *)
LogAndContinueAborting(q, w) == Idle
LogAndContinue(q, w) == [NextWorker(q, w) EXCEPT !.missed = @ \cup {w}]

CodeTaken(r, s) ==
  LET w == run[r].worker IN
  /\ run[r].pc = "insert"
  /\ table[<<run[r].place[w], s>>] # Null
  /\ run' = [run EXCEPT ![r] = LogAndContinue(@, w)]
  /\ UNCHANGED <<place, table>>

(* The database fails, at the look-up, at a code or at the INSERT.         *)
WorkerFails(r, w) ==
  /\ \/ run[r].pc = "next" /\ w \in run[r].todo
     \/ run[r].pc = "insert" /\ w = run[r].worker
  /\ run' = [run EXCEPT ![r] = LogAndContinue(@, w)]
  /\ UNCHANGED <<place, table>>

EndRun(r) ==
  /\ run[r].pc = "next"
  /\ run[r].todo = {}
  /\ run' = [run EXCEPT ![r] = Idle]
  /\ UNCHANGED <<place, table>>

(* The server goes down with every run in it; nothing resumes them.        *)
Crash ==
  /\ \E r \in Runs : InProgress(r)
  /\ run' = [r \in Runs |-> IF InProgress(r) THEN Crashed ELSE run[r]]
  /\ UNCHANGED <<place, table>>

-----------------------------------------------------------------------------
(* createDigitalForm and createDigitalFormForWorker for this day: neither  *)
(* looks for a form the worker has already.                                *)
CreateByHand(w, s) ==
  /\ place[w] # Null
  /\ table[<<place[w], s>>] = Null
  /\ table' = [table EXCEPT ![<<place[w], s>>] = w]
  /\ run' = Told(w)
  /\ UNCHANGED place

(* deleteDigitalForm.                                                      *)
DeleteForm(c) ==
  /\ table[c] # Null
  /\ table' = [table EXCEPT ![c] = Null]
  /\ UNCHANGED <<place, run>>

(* A worker moves to another group, or loses or completes its place.       *)
Move(w, g) ==
  /\ place' = [place EXCEPT ![w] = g]
  /\ UNCHANGED <<table, run>>

-----------------------------------------------------------------------------
RunStep(r) ==
  \/ \E w \in Workers : SkipWorker(r, w) \/ FindNoForm(r, w) \/ WorkerFails(r, w)
  \/ \E s \in Suffixes : InsertForm(r, s) \/ CodeTaken(r, s)
  \/ EndRun(r)

ByHand ==
  \/ \E w \in Workers, s \in Suffixes : CreateByHand(w, s)
  \/ \E c \in Codes : DeleteForm(c)
  \/ \E w \in Workers, g \in Groups \cup {Null} : Move(w, g)

Next == \/ \E r \in Runs : StartRun(r) \/ RunStep(r)
        \/ Crash
        \/ ByHand

Spec == Init /\ [][Next]_vars

(* Every database call returns or fails, and the event loop goes on with   *)
(* the run that awaits it.                                                 *)
FairSpec == Spec /\ \A r \in Runs : WF_vars(RunStep(r))

-----------------------------------------------------------------------------
(* A run ends, or the server crashes under it.                             *)
RunEnds == \A r \in Runs : InProgress(r) ~> ~InProgress(r)

(* No worker is forgotten: whoever the snapshot has with its place gets a  *)
(* form (or has one when its turn comes) or an error in the log, unless    *)
(* the server crashes, whatever other runs and routes do meanwhile.        *)
NoWorkerForgotten ==
  \A r \in Runs, w \in Workers :
    (InProgress(r) /\ w \in run[r].todo /\ run[r].place[w] # Null)
      ~> (HasForm(w) \/ w \in run[r].missed \/ run[r].pc = "crashed")

(* What the look-up before the INSERT is for: the job gives a worker a     *)
(* second form only when another run or somebody by hand gave the first    *)
(* between the look and the INSERT, whatever happened before and whichever *)
(* run did it.                                                             *)
JobAddsNoSecondForm ==
  [][\A r \in Runs, s \in Suffixes :
       InsertForm(r, s) => ~HasForm(run[r].worker) \/ run[r].raced]_vars
=============================================================================
