-------------------------- MODULE DailyFormsProofs --------------------------
(***************************************************************************)
(* Theorems about DailyForms for any number of workers, groups, suffixes   *)
(* and runs.                                                               *)
(***************************************************************************)
EXTENDS DailyForms, TLAPS

(* A run about to insert knows whether its worker got a form since.        *)
Knows(q) ==
  q.pc = "insert" => q.worker \in Workers /\ (HasForm(q.worker) => q.raced)
RunInv == TypeOK /\ \A r \in Runs : Knows(run[r])

LEMMA IdleShape ==
  /\ Idle.pc = "idle" /\ Crashed.pc = "crashed"
  /\ \A q \in Running : q # Idle /\ q # Crashed
  BY DEF Idle, Crashed, Running

(* A run in progress is one of Running.                                    *)
LEMMA InProgressShape ==
  ASSUME TypeOK, NEW r \in Runs, run[r].pc \in {"next", "insert"}
  PROVE  run[r] \in Running
  BY IdleShape DEF TypeOK

LEMMA NextWorkerShape ==
  ASSUME NEW q \in Running, NEW w
  PROVE  /\ NextWorker(q, w) \in Running /\ NextWorker(q, w).pc = "next"
         /\ w \in Workers => LogAndContinue(q, w) \in Running
         /\ LogAndContinue(q, w).pc = "next"
  BY DEF NextWorker, LogAndContinue, Running

(* Telling the runs about a new form of w.                                 *)
LEMMA ToldShape ==
  ASSUME TypeOK, NEW w
  PROVE  /\ Told(w) \in [Runs -> {Idle, Crashed} \cup Running]
         /\ \A r \in Runs :
              /\ Told(w)[r].pc = run[r].pc /\ Told(w)[r].worker = run[r].worker
              /\ run[r].raced => Told(w)[r].raced
              /\ run[r].pc = "insert" /\ run[r].worker = w => Told(w)[r].raced
  <1>1. ASSUME NEW r \in Runs
        PROVE  /\ Told(w)[r] \in {Idle, Crashed} \cup Running
               /\ Told(w)[r].pc = run[r].pc /\ Told(w)[r].worker = run[r].worker
               /\ run[r].raced => Told(w)[r].raced
               /\ run[r].pc = "insert" /\ run[r].worker = w => Told(w)[r].raced
    <2>1. CASE run[r].pc = "insert" /\ run[r].worker = w
      <3>1. run[r] \in Running
        BY <2>1, InProgressShape
      <3>2. QED
        BY <2>1, <3>1 DEF Told, Running
    <2>2. CASE ~(run[r].pc = "insert" /\ run[r].worker = w)
      BY <2>2 DEF Told, TypeOK
    <2>3. QED
      BY <2>1, <2>2
  <1>2. QED
    BY <1>1 DEF Told

(* A new form of w is told to every run that waits to insert one for w, so *)
(* every run goes on knowing.                                              *)
LEMMA NewFormIsTold ==
  ASSUME RunInv, NEW w \in Workers \cup {Null}, NEW c,
         table' = [table EXCEPT ![c] = w],
         NEW r \in Runs, run'[r] = Told(w)[r]
  PROVE  Knows(run[r])'
  <1>1. SUFFICES ASSUME run'[r].pc = "insert"
                 PROVE  run'[r].worker \in Workers /\ (HasForm(run[r].worker)' => run'[r].raced)
    BY DEF Knows
  <1>2. run[r].pc = "insert" /\ run'[r].worker = run[r].worker /\ run[r].worker \in Workers
    BY <1>1, ToldShape DEF RunInv, Knows
  <1>3. HasForm(run[r].worker)' => HasForm(run[r].worker) \/ run[r].worker = w
    BY <1>2 DEF HasForm, RunInv, TypeOK
  <1>4. QED
    BY <1>2, <1>3, ToldShape DEF RunInv, Knows

(* A step of r that leaves the table alone.                                *)
LEMMA StepOfOne ==
  ASSUME RunInv, NEW r \in Runs, NEW q, run' = [run EXCEPT ![r] = q],
         q \in {Idle, Crashed} \cup Running, Knows(q), UNCHANGED <<place, table>>
  PROVE  RunInv'
  <1>1. TypeOK'
    BY DEF RunInv, TypeOK
  <1>2. \A s \in Runs : Knows(run'[s])
    BY DEF RunInv, TypeOK
  <1>3. \A s \in Runs : Knows(run[s])'
    BY <1>2 DEF Knows, HasForm
  <1>4. QED
    BY <1>1, <1>3 DEF RunInv

LEMMA RunStepKeeps ==
  ASSUME RunInv, NEW r \in Runs, RunStep(r)
  PROVE  RunInv'
  <1>1. ASSUME NEW w \in Workers, SkipWorker(r, w) PROVE RunInv'
    <2>1. run[r] \in Running
      BY <1>1, InProgressShape DEF SkipWorker, RunInv
    <2>2. Knows(NextWorker(run[r], w))
      BY <2>1, NextWorkerShape DEF Knows
    <2>3. run' = [run EXCEPT ![r] = NextWorker(run[r], w)]
      BY <1>1 DEF SkipWorker
    <2>4. QED
      BY <1>1, <2>1, <2>2, <2>3, NextWorkerShape, StepOfOne DEF SkipWorker
  <1>2. ASSUME NEW w \in Workers, FindNoForm(r, w) PROVE RunInv'
    <2> DEFINE q == [run[r] EXCEPT !.pc = "insert", !.worker = w]
    <2>1. run[r] \in Running
      BY <1>2, InProgressShape DEF FindNoForm, RunInv
    <2>2. q \in Running /\ q.worker = w
      BY <2>1 DEF Running
    <2>3. Knows(q)
      BY <1>2, <2>2 DEF Knows, FindNoForm, Skipped
    <2>4. run' = [run EXCEPT ![r] = q] /\ UNCHANGED <<place, table>>
      BY <1>2 DEF FindNoForm
    <2>5. QED
      BY <2>2, <2>3, <2>4, StepOfOne
  <1>3. ASSUME NEW w \in Workers, WorkerFails(r, w) PROVE RunInv'
    <2>1. run[r] \in Running
      BY <1>3, InProgressShape DEF WorkerFails, RunInv
    <2>2. Knows(LogAndContinue(run[r], w))
      BY <2>1, NextWorkerShape DEF Knows
    <2>3. run' = [run EXCEPT ![r] = LogAndContinue(run[r], w)]
      BY <1>3 DEF WorkerFails
    <2>4. QED
      BY <1>3, <2>1, <2>2, <2>3, NextWorkerShape, StepOfOne DEF WorkerFails
  <1>4. ASSUME NEW s \in Suffixes, InsertForm(r, s) PROVE RunInv'
    <2> DEFINE w == run[r].worker
    <2>1. run[r] \in Running /\ w \in Workers
      BY <1>4, InProgressShape DEF InsertForm, RunInv, Knows
    <2>2. /\ table' = [table EXCEPT ![<<run[r].place[w], s>>] = w]
          /\ run' = [Told(w) EXCEPT ![r] = NextWorker(run[r], w)]
          /\ place' = place
      BY <1>4 DEF InsertForm
    <2>3. NextWorker(run[r], w) \in Running /\ NextWorker(run[r], w).pc = "next"
      BY <2>1, NextWorkerShape
    <2> HIDE DEF w
    <2>4. Told(w) \in [Runs -> {Idle, Crashed} \cup Running]
      BY ToldShape DEF RunInv
    <2>5. TypeOK'
      BY <2>1, <2>2, <2>3, <2>4 DEF RunInv, TypeOK
    <2>6. ASSUME NEW t \in Runs PROVE Knows(run[t])'
      <3>1. CASE t = r
        BY <2>2, <2>3, <2>4, <3>1 DEF Knows
      <3>2. CASE t # r
        <4>1. run'[t] = Told(w)[t]
          BY <2>2, <2>4, <3>2
        <4>2. QED
          BY <2>1, <2>2, <4>1, NewFormIsTold
      <3>3. QED
        BY <3>1, <3>2
    <2>7. QED
      BY <2>5, <2>6 DEF RunInv
  <1>5. ASSUME NEW s \in Suffixes, CodeTaken(r, s) PROVE RunInv'
    <2> DEFINE w == run[r].worker
    <2>1. run[r] \in Running /\ w \in Workers
      BY <1>5, InProgressShape DEF CodeTaken, RunInv, Knows
    <2>2. Knows(LogAndContinue(run[r], w))
      BY <2>1, NextWorkerShape DEF Knows
    <2>3. run' = [run EXCEPT ![r] = LogAndContinue(run[r], w)]
      BY <1>5 DEF CodeTaken
    <2>4. QED
      BY <1>5, <2>1, <2>2, <2>3, NextWorkerShape, StepOfOne DEF CodeTaken
  <1>6. ASSUME EndRun(r) PROVE RunInv'
    <2>1. Knows(Idle)
      BY IdleShape DEF Knows
    <2>2. QED
      BY <1>6, <2>1, StepOfOne DEF EndRun
  <1>7. QED
    BY <1>1, <1>2, <1>3, <1>4, <1>5, <1>6 DEF RunStep

LEMMA ByHandKeeps ==
  ASSUME RunInv, ByHand
  PROVE  RunInv'
  <1>1. ASSUME NEW w \in Workers, NEW s \in Suffixes, CreateByHand(w, s) PROVE RunInv'
    <2>1. TypeOK'
      BY <1>1, ToldShape DEF CreateByHand, RunInv, TypeOK
    <2>2. \A r \in Runs : Knows(run[r])'
      BY <1>1, NewFormIsTold DEF CreateByHand
    <2>3. QED
      BY <2>1, <2>2 DEF RunInv
  <1>2. ASSUME NEW c \in Codes, DeleteForm(c) PROVE RunInv'
    <2>1. TypeOK'
      BY <1>2 DEF DeleteForm, RunInv, TypeOK
    <2>2. \A w \in Workers : HasForm(w)' => HasForm(w)
      BY <1>2, NullAssumption DEF DeleteForm, HasForm, RunInv, TypeOK
    <2>3. QED
      BY <1>2, <2>1, <2>2 DEF DeleteForm, RunInv, Knows
  <1>3. ASSUME NEW w \in Workers, NEW g \in Groups \cup {Null}, Move(w, g) PROVE RunInv'
    BY <1>3 DEF Move, RunInv, TypeOK, Knows, HasForm
  <1>4. QED
    BY <1>1, <1>2, <1>3 DEF ByHand

LEMMA RunInvKept == RunInv /\ [Next]_vars => RunInv'
  <1> SUFFICES ASSUME RunInv, [Next]_vars PROVE RunInv'
    OBVIOUS
  <1>1. ASSUME NEW r \in Runs, StartRun(r) PROVE RunInv'
    <2> DEFINE q == [pc |-> "next", place |-> place, todo |-> Workers,
                     worker |-> Null, missed |-> {}, raced |-> FALSE]
    <2>1. q \in Running
      BY DEF Running, RunInv, TypeOK
    <2>2. Knows(q)
      BY DEF Knows
    <2>3. QED
      BY <1>1, <2>1, <2>2, StepOfOne DEF StartRun
  <1>2. ASSUME NEW r \in Runs, RunStep(r) PROVE RunInv'
    BY <1>2, RunStepKeeps
  <1>3. CASE Crash
    BY <1>3, IdleShape DEF Crash, RunInv, TypeOK, Knows, HasForm
  <1>4. CASE ByHand
    BY <1>4, ByHandKeeps
  <1>5. CASE UNCHANGED vars
    BY <1>5 DEF vars, RunInv, TypeOK, Knows, HasForm
  <1>6. QED
    BY <1>1, <1>2, <1>3, <1>4, <1>5 DEF Next

LEMMA RunInvHolds == Spec => []RunInv
  <1>1. Init => RunInv
    <2> SUFFICES ASSUME Init PROVE RunInv
      OBVIOUS
    <2>1. TypeOK
      BY DEF Init, TypeOK
    <2>2. QED
      BY <2>1, IdleShape DEF Init, RunInv, Knows
  <1>2. QED
    BY <1>1, RunInvKept, PTL DEF Spec

(* Runs and the table stay well formed, whatever the runs, the routes and  *)
(* the crashes do: a form is a worker's, under a code of a group.          *)
THEOREM DailyTyped == Spec => []TypeOK
  <1>1. RunInv => TypeOK
    BY DEF RunInv
  <1>2. QED
    BY <1>1, RunInvHolds, PTL

(* The look before the INSERT: a run of the job gives a worker a second    *)
(* form only when the first one came between that look and the INSERT.     *)
THEOREM NoSecondForm == Spec => JobAddsNoSecondForm
  <1>1. RunInv /\ [Next]_vars =>
          [\A r \in Runs, s \in Suffixes :
             InsertForm(r, s) => ~HasForm(run[r].worker) \/ run[r].raced]_vars
    BY DEF RunInv, Knows, InsertForm
  <1>2. QED
    BY <1>1, RunInvHolds, PTL DEF Spec, JobAddsNoSecondForm
=============================================================================
