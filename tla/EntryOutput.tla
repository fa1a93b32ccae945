---------------------------- MODULE EntryOutput ----------------------------
(***************************************************************************)
(* What one entry of a digital form records: the output per time slot      *)
(* (hourlyData), the total, and the shift.  DigitalForm treats this as     *)
(* opaque content; here the form is a draft throughout, and the entry is   *)
(* inserted, updated and moved to another shift by requests that read it   *)
(* twice - in the service and again in the repository - before they write. *)
(***************************************************************************)
EXTENDS Naturals, FiniteSets, FiniteSetsExt

CONSTANTS
  RegularSlots, ExtendedSlots, OvertimeSlots,  \* the labels the code knows
  OtherSlots,    \* other labels a caller may use: z.record(z.string(), ...)
  MaxOutput,     \* bound on the output of a slot and on a total sent
  Requests,
  Null

Slots == RegularSlots \cup ExtendedSlots \cup OvertimeSlots \cup OtherSlots
ShiftTypes == {"REGULAR", "EXTENDED", "OVERTIME"}
Output == 0..MaxOutput

(* A longer shift has the slots of the shorter ones and its own.           *)
SlotsOf(shift) ==
  RegularSlots
    \cup (IF shift = "REGULAR" THEN {} ELSE ExtendedSlots)
    \cup (IF shift = "OVERTIME" THEN OvertimeSlots ELSE {})

(* hourlyData: a JSON object from slot labels to numbers.                  *)
HourlyData == UNION {[S -> Output] : S \in SUBSET Slots}

(* What a request may carry: few slots are enough to tell cases apart.     *)
Patch == UNION {[S -> Output] : S \in {T \in SUBSET Slots : Cardinality(T) <= 1}}

Totals == 0..(MaxOutput * Cardinality(Slots))
Row == [hourly : HourlyData, total : Totals, shift : ShiftTypes]

(* There are labels, and Null is none of what it stands in for.            *)
ASSUME EntryOutputAssumption ==
  /\ RegularSlots # {} /\ IsFiniteSet(Slots) /\ MaxOutput \in Nat
  /\ Null \notin Row \cup HourlyData \cup Totals

VARIABLES
  row,    \* the entry, Null before it is inserted
  req,    \* the requests in flight
  stale   \* those that read the row before another one wrote it: a record
          \* for the properties, which no request knows of

vars == <<row, req, stale>>

(* A request: an update before and after the second read, a move to        *)
(* another shift before and after it.                                      *)
Idle == [op |-> "none", pc |-> "idle"]
Merging ==
  [op : {"update"}, pc : {"reread"}, patch : Patch, hourly : HourlyData, total : Totals]
Updating ==
  [op : {"update"}, pc : {"write"}, patch : Patch \cup {Null},
   hourly : HourlyData \cup {Null}, total : Totals \cup {Null}]
Moving == [op : {"shift"}, pc : {"reread"}, shift : ShiftTypes]
Fitting ==
  {q \in [op : {"shift"}, pc : {"write"}, shift : ShiftTypes, hourly : HourlyData] :
     DOMAIN q.hourly = SlotsOf(q.shift)}

-----------------------------------------------------------------------------
(* The arithmetic on hourlyData.                                           *)

Sum(h) == SumFunction(h)

Zeros(S) == [s \in S |-> 0]

(* { ...h, ...patch }                                                      *)
MergePatchOnly(h, patch) == patch
Merge(h, patch) ==
  [s \in DOMAIN h \cup DOMAIN patch |->
     IF s \in DOMAIN patch THEN patch[s] ELSE h[s]]

(* The repository writes only the slots the stored data already has.       *)
OnlyKnownSlotsDropped(base, h) == Merge(base, h)
OnlyKnownSlots(base, h) ==
  [s \in DOMAIN base |-> IF s \in DOMAIN h THEN h[s] ELSE base[s]]

(* Moving to another shift: exactly its slots, with the old values.        *)
FitToShiftFresh(base, shift) == Zeros(SlotsOf(shift))
FitToShift(base, shift) ==
  [s \in SlotsOf(shift) |-> IF s \in DOMAIN base THEN base[s] ELSE 0]

-----------------------------------------------------------------------------
Init == row = Null /\ req = [r \in Requests |-> Idle] /\ stale = {}

Ends(r) == req' = [req EXCEPT ![r] = Idle]
Outdates(r) == stale' = {s \in Requests \ {r} : req[s] # Idle}

(* addFormEntry and insertFormEntry: without hourlyData the slots of the   *)
(* shift are zeroed; the INSERT leaves the shift to the column's default.  *)
AddEntry(hourly, shift, total) ==
  /\ row = Null
  /\ row' = [hourly |-> IF DOMAIN hourly = {} THEN Zeros(SlotsOf(shift)) ELSE hourly,
             total |-> total,
             shift |-> "REGULAR"]
  /\ UNCHANGED <<req, stale>>

(* updateEntry: the service reads the entry, merges what the caller sent   *)
(* and sums it up ...                                                      *)
ListEntries(r, patch, total) ==
  /\ req[r] = Idle
  /\ row # Null
  /\ req' = [req EXCEPT ![r] =
       IF patch # Null
         THEN LET merged == Merge(row.hourly, patch) IN
              [op |-> "update", pc |-> "reread", patch |-> patch,
               hourly |-> merged, total |-> Sum(merged)]
         ELSE [op |-> "update", pc |-> "write", patch |-> Null,
               hourly |-> Null, total |-> total]]
  /\ UNCHANGED <<row, stale>>

(* ... the repository reads it again and drops the slots it does not have  *)
(* ...                                                                     *)
Reread(r) ==
  /\ req[r].op = "update" /\ req[r].pc = "reread"
  /\ row # Null
  /\ req' = [req EXCEPT ![r] =
       [op |-> "update", pc |-> "write", patch |-> req[r].patch,
        hourly |-> OnlyKnownSlots(row.hourly, req[r].hourly), total |-> req[r].total]]
  /\ UNCHANGED <<row, stale>>

(* ... and writes.                                                         *)
WriteEntryUnfiltered(r) ==
  /\ req[r].op = "update" /\ req[r].pc = "write"
  /\ row # Null
  /\ row' = [row EXCEPT
               !.hourly = IF req[r].hourly = Null THEN @ ELSE req[r].hourly,
               !.total = req[r].total]
  /\ Ends(r) /\ Outdates(r)

WriteEntry(r) ==
  /\ req[r].op = "update" /\ req[r].pc = "write"
  /\ row # Null
  /\ row' = [row EXCEPT
               !.hourly = IF req[r].hourly = Null THEN @ ELSE req[r].hourly,
               !.total = IF req[r].total = Null THEN @ ELSE req[r].total]
  /\ Ends(r) /\ Outdates(r)

(* updateEntryShiftType: the entry must be there; the repository reads it  *)
(* again and fits its slots to the shift, of the first read nothing is     *)
(* used; the total is left alone.                                          *)
StartShiftChange(r, shift) ==
  /\ req[r] = Idle
  /\ row # Null
  /\ req' = [req EXCEPT ![r] = [op |-> "shift", pc |-> "reread", shift |-> shift]]
  /\ UNCHANGED <<row, stale>>

RereadForShift(r) ==
  /\ req[r].op = "shift" /\ req[r].pc = "reread"
  /\ row # Null
  /\ req' = [req EXCEPT ![r] =
       [op |-> "shift", pc |-> "write", shift |-> req[r].shift,
        hourly |-> FitToShift(row.hourly, req[r].shift)]]
  /\ stale' = stale \ {r}
  /\ UNCHANGED row

WriteShift(r) ==
  /\ req[r].op = "shift" /\ req[r].pc = "write"
  /\ row # Null
  /\ row' = [row EXCEPT !.hourly = req[r].hourly, !.shift = req[r].shift]
  /\ Ends(r) /\ Outdates(r)

(* The database fails, or the row is gone: deleting an entry makes every   *)
(* request on it end like this, and its id does not come back.             *)
Fail(r) ==
  /\ req[r] # Idle
  /\ Ends(r) /\ stale' = stale \ {r}
  /\ UNCHANGED row

Next ==
  \/ \E h \in Patch, s \in ShiftTypes, t \in Output : AddEntry(h, s, t)
  \/ \E r \in Requests :
       \/ \E p \in Patch \cup {Null}, t \in Output \cup {Null} : ListEntries(r, p, t)
       \/ \E s \in ShiftTypes : StartShiftChange(r, s)
       \/ Reread(r) \/ WriteEntry(r) \/ RereadForShift(r) \/ WriteShift(r)
       \/ Fail(r)

Spec == Init /\ [][Next]_vars

-----------------------------------------------------------------------------
TypeOK ==
  /\ row \in Row \cup {Null}
  /\ req \in [Requests -> {Idle} \cup Merging \cup Updating \cup Moving \cup Fitting]
  /\ row = Null => \A r \in Requests : req[r] = Idle
  /\ stale \subseteq {r \in Requests : req[r] # Idle}

(* However requests on one entry overlap, what follows is lost only to a   *)
(* lost update: a request that writes what it made of a row that another   *)
(* has written since, which nothing in the code prevents.                  *)
Fits == row # Null /\ row.shift # "REGULAR" => DOMAIN row.hourly = SlotsOf(row.shift)

(* An entry moved to a longer shift keeps exactly the slots of that shift, *)
(* whatever updates come later and whatever labels they use, until an      *)
(* update writes back the slots of an earlier shift.                       *)
SlotsFitShift ==
  [][Fits => Fits' \/ \E r \in stale : WriteEntry(r)]_vars

(* The output of a slot changes only to the value a request sent for that  *)
(* very slot: updates of other slots and moves between shifts keep it, but *)
(* for those that write back what they read before another write.          *)
OnlySentOutputChanges ==
  [][row # Null =>
       \A s \in DOMAIN row.hourly \cap DOMAIN row'.hourly :
         row'.hourly[s] # row.hourly[s] =>
           \/ \E r \in Requests :
                /\ req[r].op = "update"
                /\ req[r].patch # Null /\ s \in DOMAIN req[r].patch
                /\ row'.hourly[s] = req[r].patch[s]
           \/ \E r \in stale : WriteEntry(r) \/ WriteShift(r)]_vars

UpdatesHours(r) == WriteEntry(r) /\ req[r].patch # Null

(* After an update of known slots the stored total is the sum of the       *)
(* stored slots, whatever the total was before, unless the row was written *)
(* between the two reads of the update or after them.                      *)
TotalOfKnownSlots ==
  [][\A r \in Requests :
       UpdatesHours(r) /\ DOMAIN req[r].patch \subseteq DOMAIN row.hourly
         => row'.total = Sum(row'.hourly) \/ r \in stale]_vars

(* The comment of updateEntry: totalOutput is computed again from all of   *)
(* hourlyData.  The labels of a request are free, and the repository drops *)
(* those the entry does not have after the service has counted them.       *)
TotalRecalculated ==
  [][\A r \in Requests : UpdatesHours(r) => row'.total = Sum(row'.hourly)]_vars
=============================================================================
