--------------------------- MODULE EntryOutputProofs ---------------------------
(***************************************************************************)
(* Proofs about EntryOutput for any labels, any bound on the output, any   *)
(* shift and any number of requests that overlap as they like.             *)
(***************************************************************************)
EXTENDS EntryOutput, Sums

-----------------------------------------------------------------------------
(* The arithmetic stays within the types.                                  *)
LEMMA Objects ==
  ASSUME NEW h
  PROVE  h \in HourlyData <=> /\ DOMAIN h \subseteq Slots /\ h = [s \in DOMAIN h |-> h[s]]
                              /\ \A s \in DOMAIN h : h[s] \in Output
  BY DEF HourlyData

LEMMA PatchTyped == Patch \subseteq HourlyData
  BY DEF Patch, HourlyData

LEMMA MergeTyped ==
  ASSUME NEW h \in HourlyData, NEW patch \in HourlyData
  PROVE  Merge(h, patch) \in HourlyData
  BY Objects DEF Merge

LEMMA KnownTyped ==
  ASSUME NEW h \in HourlyData, NEW base \in HourlyData
  PROVE  OnlyKnownSlots(base, h) \in HourlyData
  BY Objects DEF OnlyKnownSlots

LEMMA ShiftSlots ==
  ASSUME NEW shift
  PROVE  SlotsOf(shift) \subseteq Slots
  BY DEF SlotsOf, Slots

LEMMA FitTyped ==
  ASSUME NEW base \in HourlyData, NEW shift
  PROVE  FitToShift(base, shift) \in HourlyData /\ Zeros(SlotsOf(shift)) \in HourlyData
  <1>1. 0 \in Output
    BY EntryOutputAssumption DEF Output
  <1> QED BY <1>1, Objects, ShiftSlots DEF FitToShift, Zeros

LEMMA SumTyped ==
  ASSUME NEW h \in HourlyData
  PROVE  Sum(h) \in Totals
  <1> DEFINE S == DOMAIN h
  <1>1. S \subseteq Slots /\ \A s \in S : h[s] \in 0..MaxOutput
    BY Objects DEF Output
  <1>2. /\ IsFiniteSet(S) /\ Cardinality(S) \in Nat /\ Cardinality(Slots) \in Nat
        /\ Cardinality(S) <= Cardinality(Slots) /\ MaxOutput \in Nat
    BY <1>1, EntryOutputAssumption, FS_Subset, FS_CardinalityType
  <1>3. Sum(h) = SumFunctionOnSet(h, S)
    BY DEF Sum, SumFunction
  <1> HIDE DEF S
  <1>4. SumFunctionOnSet(h, S) \in 0..(MaxOutput * Cardinality(S))
    BY <1>1, <1>2, SumBounded
  <1>5. MaxOutput * Cardinality(S) <= MaxOutput * Cardinality(Slots)
    BY <1>2
  <1>6. MaxOutput * Cardinality(S) \in Nat /\ MaxOutput * Cardinality(Slots) \in Nat
    BY <1>2
  <1> QED BY <1>3, <1>4, <1>5, <1>6 DEF Totals

LEMMA OutputTyped == Output \subseteq Totals
  <1>1. Slots # {} /\ Cardinality(Slots) \in Nat /\ Cardinality(Slots) # 0 /\ MaxOutput \in Nat
    BY EntryOutputAssumption, FS_EmptySet, FS_CardinalityType DEF Slots
  <1>2. MaxOutput <= MaxOutput * Cardinality(Slots) /\ MaxOutput * Cardinality(Slots) \in Nat
    BY <1>1
  <1> QED BY <1>1, <1>2 DEF Output, Totals

-----------------------------------------------------------------------------
(* Types.                                                                  *)
States == {Idle} \cup Merging \cup Updating \cup Moving \cup Fitting

LEMMA RequestTyped ==
  ASSUME TypeOK, NEW r \in Requests, NEW q \in States, req' = [req EXCEPT ![r] = q],
         UNCHANGED row, row # Null, stale' \subseteq stale, q = Idle => r \notin stale'
  PROVE  TypeOK'
  BY DEF TypeOK, States

(* What a request knows by where it is.                                    *)
LEMMA KindOf ==
  ASSUME TypeOK, NEW r \in Requests
  PROVE  /\ req[r].op = "update" /\ req[r].pc = "reread" => req[r] \in Merging
         /\ req[r].op = "update" /\ req[r].pc = "write" => req[r] \in Updating
         /\ req[r].op = "shift" /\ req[r].pc = "reread" => req[r] \in Moving
         /\ req[r].op = "shift" /\ req[r].pc = "write" => req[r] \in Fitting
         /\ req[r] # Idle => row # Null
         /\ req[r] \in States
  BY DEF TypeOK, Idle, Merging, Updating, Moving, Fitting, States

LEMMA ListTyped ==
  ASSUME TypeOK, NEW r \in Requests, NEW p \in Patch \cup {Null}, NEW t \in Output \cup {Null},
         ListEntries(r, p, t)
  PROVE  TypeOK'
  <1>1. row # Null /\ row \in Row /\ row.hourly \in HourlyData /\ UNCHANGED <<row, stale>>
    BY DEF ListEntries, TypeOK, Row
  <1>2. CASE p # Null
    <2> DEFINE q == [op |-> "update", pc |-> "reread", patch |-> p,
                     hourly |-> Merge(row.hourly, p), total |-> Sum(Merge(row.hourly, p))]
    <2>1. p \in Patch /\ Merge(row.hourly, p) \in HourlyData
      BY <1>1, <1>2, MergeTyped, PatchTyped
    <2>2. Sum(Merge(row.hourly, p)) \in Totals
      BY <2>1, SumTyped
    <2>3. q \in States
      BY <2>1, <2>2 DEF States, Merging
    <2>4. req' = [req EXCEPT ![r] = q] /\ q # Idle
      BY <1>2 DEF ListEntries, Idle
    <2> HIDE DEF q
    <2> QED BY <1>1, <2>3, <2>4, RequestTyped
  <1>3. CASE p = Null
    <2> DEFINE q == [op |-> "update", pc |-> "write", patch |-> Null,
                     hourly |-> Null, total |-> t]
    <2>1. q \in States
      BY OutputTyped DEF States, Updating
    <2>2. req' = [req EXCEPT ![r] = q] /\ q # Idle
      BY <1>3 DEF ListEntries, Idle
    <2> HIDE DEF q
    <2> QED BY <1>1, <2>1, <2>2, RequestTyped
  <1> QED BY <1>2, <1>3

LEMMA RereadTyped ==
  ASSUME TypeOK, NEW r \in Requests, Reread(r) \/ RereadForShift(r)
  PROVE  TypeOK'
  <1>1. row # Null /\ row.hourly \in HourlyData /\ UNCHANGED row /\ stale' \subseteq stale
    BY DEF Reread, RereadForShift, TypeOK, Row
  <1>2. CASE Reread(r)
    <2> DEFINE q == [op |-> "update", pc |-> "write", patch |-> req[r].patch,
                     hourly |-> OnlyKnownSlots(row.hourly, req[r].hourly),
                     total |-> req[r].total]
    <2>1. req[r] \in Merging
      BY <1>2, KindOf DEF Reread
    <2>2. OnlyKnownSlots(row.hourly, req[r].hourly) \in HourlyData
      BY <1>1, <2>1, KnownTyped DEF Merging
    <2>3. q \in States
      BY <2>1, <2>2 DEF States, Merging, Updating
    <2>4. req' = [req EXCEPT ![r] = q] /\ q # Idle
      BY <1>2 DEF Reread, Idle
    <2> HIDE DEF q
    <2> QED BY <1>1, <2>3, <2>4, RequestTyped
  <1>3. CASE RereadForShift(r)
    <2> DEFINE q == [op |-> "shift", pc |-> "write", shift |-> req[r].shift,
                     hourly |-> FitToShift(row.hourly, req[r].shift)]
    <2>1. req[r] \in Moving
      BY <1>3, KindOf DEF RereadForShift
    <2>2. FitToShift(row.hourly, req[r].shift) \in HourlyData
      BY <1>1, FitTyped
    <2>3. DOMAIN FitToShift(row.hourly, req[r].shift) = SlotsOf(req[r].shift)
      BY DEF FitToShift
    <2>a. q \in States
      BY <2>1, <2>2, <2>3 DEF States, Moving, Fitting
    <2>4. req' = [req EXCEPT ![r] = q] /\ q # Idle
      BY <1>3 DEF RereadForShift, Idle
    <2> HIDE DEF q
    <2> QED BY <1>1, <2>a, <2>4, RequestTyped
  <1> QED BY <1>2, <1>3

LEMMA WriteTyped ==
  ASSUME TypeOK, NEW r \in Requests, WriteEntry(r) \/ WriteShift(r)
  PROVE  TypeOK'
  <1>1. row # Null /\ row \in Row /\ req' = [req EXCEPT ![r] = Idle]
        /\ stale' = {s \in Requests \ {r} : req[s] # Idle}
    BY DEF WriteEntry, WriteShift, Ends, Outdates, TypeOK
  <1>2. row' \in Row
    <2>1. CASE WriteEntry(r)
      <3>1. req[r] \in Updating
        BY <2>1, KindOf DEF WriteEntry
      <3>2. \A h \in HourlyData, t \in Totals :
              [row EXCEPT !.hourly = h, !.total = t] \in Row
        BY <1>1 DEF Row
      <3>3. row.hourly \in HourlyData /\ row.total \in Totals
        BY <1>1 DEF Row
      <3> QED BY <2>1, <3>1, <3>2, <3>3 DEF WriteEntry, Updating
    <2>2. CASE WriteShift(r)
      <3>1. req[r] \in Fitting
        BY <2>2, KindOf DEF WriteShift
      <3> QED BY <1>1, <2>2, <3>1 DEF WriteShift, Fitting, Row
    <2> QED BY <2>1, <2>2
  <1>3. row' # Null
    BY <1>2, EntryOutputAssumption
  <1> QED BY <1>1, <1>2, <1>3 DEF TypeOK

LEMMA AddTyped ==
  ASSUME TypeOK, NEW h \in Patch, NEW s \in ShiftTypes, NEW t \in Output, AddEntry(h, s, t)
  PROVE  TypeOK'
  <1>1. h \in HourlyData /\ Zeros(SlotsOf(s)) \in HourlyData /\ t \in Totals
    <2>1. Zeros(SlotsOf(s)) \in HourlyData
      <3> DEFINE none == [x \in {} |-> 0]
      <3>1. none \in HourlyData
        BY Objects
      <3> QED BY <3>1, FitTyped
    <2> QED BY <2>1, PatchTyped, OutputTyped
  <1>2. row' \in Row
    BY <1>1 DEF AddEntry, Row, ShiftTypes
  <1>3. row' # Null
    BY <1>2, EntryOutputAssumption
  <1> QED BY <1>2, <1>3 DEF TypeOK, AddEntry

LEMMA TypeKept ==
  ASSUME TypeOK, [Next]_vars
  PROVE  TypeOK'
  <1>1. CASE UNCHANGED vars
    BY <1>1 DEF vars, TypeOK
  <1>2. ASSUME NEW r \in Requests, NEW s \in ShiftTypes, StartShiftChange(r, s)
        PROVE  TypeOK'
    <2> DEFINE q == [op |-> "shift", pc |-> "reread", shift |-> s]
    <2>1. q \in States /\ q # Idle /\ req' = [req EXCEPT ![r] = q] /\ UNCHANGED <<row, stale>>
          /\ row # Null
      BY <1>2 DEF States, Moving, Idle, StartShiftChange
    <2> HIDE DEF q
    <2> QED BY <2>1, RequestTyped
  <1>3. ASSUME NEW r \in Requests, Fail(r)
        PROVE  TypeOK'
    <2>1. Idle \in States
      BY DEF States
    <2>2. stale' \subseteq stale /\ r \notin stale' /\ row # Null /\ UNCHANGED row
          /\ req' = [req EXCEPT ![r] = Idle]
      BY <1>3, KindOf DEF Fail, Ends
    <2> QED BY <2>1, <2>2, RequestTyped
  <1> QED BY <1>1, <1>2, <1>3, AddTyped, ListTyped, RereadTyped, WriteTyped DEF Next

(* For any number of requests, the entry keeps an object of numbers for    *)
(* known and unknown labels, with a total that no sum of slots exceeds.    *)
THEOREM EntryTyped == Spec => []TypeOK
  <1>1. Init => TypeOK
    BY DEF Init, TypeOK
  <1> QED BY <1>1, TypeKept, PTL DEF Spec

-----------------------------------------------------------------------------
(* What a request between its reads and its write holds, of the row as it  *)
(* is, when nobody else has written meanwhile.                             *)
Merged(q) ==
  q.op = "update" /\ q.pc = "reread" =>
    /\ q = [op |-> "update", pc |-> "reread", patch |-> q.patch,
            hourly |-> q.hourly, total |-> q.total]
    /\ q.patch # Null /\ q.hourly = Merge(row.hourly, q.patch) /\ q.total = Sum(q.hourly)
Filtered(q) ==
  q.op = "update" /\ q.pc = "write" =>
    IF q.patch = Null THEN q.hourly = Null
    ELSE /\ q.hourly = OnlyKnownSlots(row.hourly, Merge(row.hourly, q.patch))
         /\ q.total = Sum(Merge(row.hourly, q.patch))
Fitted(q) ==
  q.op = "shift" /\ q.pc = "write" => q.hourly = FitToShift(row.hourly, q.shift)

InHand(q) == Merged(q) /\ Filtered(q) /\ Fitted(q)

AllInHand == \A r \in Requests \ stale : InHand(req[r])
OInv == TypeOK /\ AllInHand

LEMMA RowIs ==
  ASSUME TypeOK, row # Null
  PROVE  /\ row = [hourly |-> row.hourly, total |-> row.total, shift |-> row.shift]
         /\ row.hourly \in HourlyData /\ row.total \in Totals
         /\ row.hourly = [s \in DOMAIN row.hourly |-> row.hourly[s]]
  BY Objects DEF TypeOK, Row

-----------------------------------------------------------------------------
(* The arithmetic: the filter keeps the slots of the base, and what it     *)
(* changes comes from the patch; fitting to a shift changes no output.     *)
LEMMA KnownSlots ==
  ASSUME NEW base, NEW patch
  PROVE  /\ OnlyKnownSlots(base, Merge(base, patch)) =
              [s \in DOMAIN base |-> IF s \in DOMAIN patch THEN patch[s] ELSE base[s]]
         /\ DOMAIN patch \subseteq DOMAIN base =>
              OnlyKnownSlots(base, Merge(base, patch)) = Merge(base, patch)
  BY DEF OnlyKnownSlots, Merge

LEMMA FittedSlots ==
  ASSUME NEW base, NEW shift
  PROVE  /\ FitToShift(base, shift) =
              [s \in DOMAIN FitToShift(base, shift) |-> FitToShift(base, shift)[s]]
         /\ DOMAIN FitToShift(base, shift) = SlotsOf(shift)
         /\ \A s \in DOMAIN base \cap SlotsOf(shift) : FitToShift(base, shift)[s] = base[s]
  BY DEF FitToShift

(* A request that is over holds nothing.                                   *)
LEMMA IdleInHand == InHand(Idle)
  BY DEF InHand, Merged, Filtered, Fitted, Idle

(* A step of a request that leaves the row alone.                          *)
LEMMA RowAlone ==
  ASSUME OInv, UNCHANGED row, NEW r \in Requests, NEW q,
         req' = [req EXCEPT ![r] = q], r \in stale' \/ InHand(q), stale \subseteq stale' \cup {r}
  PROVE  AllInHand'
  <1>1. \A x \in Requests \ stale' : InHand(req'[x])
    BY DEF OInv, AllInHand, TypeOK
  <1>2. \A x \in Requests \ stale' : InHand(req[x])'
    BY <1>1 DEF InHand, Merged, Filtered, Fitted
  <1> QED BY <1>2 DEF AllInHand

(* A step of a request that writes: whoever is under way is outdated.      *)
LEMMA RequestOver ==
  ASSUME OInv, NEW r \in Requests, Ends(r), Outdates(r)
  PROVE  AllInHand'
  <1>1. \A x \in Requests \ stale' : req'[x] = Idle
    BY DEF Ends, Outdates, OInv, TypeOK
  <1> QED BY <1>1 DEF AllInHand, InHand, Merged, Filtered, Fitted, Idle

-----------------------------------------------------------------------------
LEMMA AddKeeps ==
  ASSUME OInv, NEW h \in Patch, NEW s \in ShiftTypes, NEW t \in Output,
         AddEntry(h, s, t)
  PROVE  AllInHand'
  <1>1. \A x \in Requests : req'[x] = Idle
    BY DEF AddEntry, OInv, TypeOK
  <1> QED BY <1>1 DEF AllInHand, InHand, Merged, Filtered, Fitted, Idle

LEMMA ReadsKeep ==
  ASSUME OInv, NEW r \in Requests,
         \/ \E p \in Patch \cup {Null}, t \in Output \cup {Null} : ListEntries(r, p, t)
         \/ \E s \in ShiftTypes : StartShiftChange(r, s)
         \/ Reread(r) \/ RereadForShift(r) \/ Fail(r)
  PROVE  AllInHand'
  <1>1. CASE \E p \in Patch \cup {Null}, t \in Output \cup {Null} : ListEntries(r, p, t)
    <2> PICK p \in Patch \cup {Null}, t \in Output \cup {Null} : ListEntries(r, p, t)
      BY <1>1
    <2>1. CASE p # Null
      <3> DEFINE q == [op |-> "update", pc |-> "reread", patch |-> p,
                       hourly |-> Merge(row.hourly, p), total |-> Sum(Merge(row.hourly, p))]
      <3>1. InHand(q)
        BY <2>1 DEF ListEntries, InHand, Merged, Filtered, Fitted
      <3>2. req' = [req EXCEPT ![r] = q] /\ UNCHANGED <<row, stale>>
        BY <2>1 DEF ListEntries
      <3> HIDE DEF q
      <3> QED BY <3>1, <3>2, RowAlone
    <2>2. CASE p = Null
      <3> DEFINE q == [op |-> "update", pc |-> "write", patch |-> Null,
                       hourly |-> Null, total |-> t]
      <3>1. InHand(q)
        BY DEF ListEntries, InHand, Merged, Filtered, Fitted
      <3>2. req' = [req EXCEPT ![r] = q] /\ UNCHANGED <<row, stale>>
        BY <2>2 DEF ListEntries
      <3> HIDE DEF q
      <3> QED BY <3>1, <3>2, RowAlone
    <2> QED BY <2>1, <2>2
  <1>2. CASE \E s \in ShiftTypes : StartShiftChange(r, s)
    <2> PICK s \in ShiftTypes : StartShiftChange(r, s)
      BY <1>2
    <2> DEFINE q == [op |-> "shift", pc |-> "reread", shift |-> s]
    <2>1. InHand(q)
      BY DEF StartShiftChange, InHand, Merged, Filtered, Fitted
    <2>2. req' = [req EXCEPT ![r] = q] /\ UNCHANGED <<row, stale>>
      BY DEF StartShiftChange
    <2> HIDE DEF q
    <2> QED BY <2>1, <2>2, RowAlone
  <1>3. CASE Reread(r)
    <2> DEFINE q == [op |-> "update", pc |-> "write", patch |-> req[r].patch,
                     hourly |-> OnlyKnownSlots(row.hourly, req[r].hourly),
                     total |-> req[r].total]
    <2>1. r \notin stale =>
            /\ req[r].patch # Null /\ req[r].hourly = Merge(row.hourly, req[r].patch)
            /\ req[r].total = Sum(req[r].hourly)
      BY <1>3 DEF Reread, OInv, AllInHand, InHand, Merged
    <2>2. r \notin stale => InHand(q)
      BY <1>3, <2>1 DEF Reread, InHand, Merged, Filtered, Fitted
    <2>3. req' = [req EXCEPT ![r] = q] /\ UNCHANGED <<row, stale>>
      BY <1>3 DEF Reread
    <2> HIDE DEF q
    <2> QED BY <2>2, <2>3, RowAlone
  <1>4. CASE RereadForShift(r)
    <2> DEFINE q == [op |-> "shift", pc |-> "write", shift |-> req[r].shift,
                     hourly |-> FitToShift(row.hourly, req[r].shift)]
    <2>1. InHand(q)
      BY <1>4 DEF RereadForShift, InHand, Merged, Filtered, Fitted
    <2>2. req' = [req EXCEPT ![r] = q] /\ UNCHANGED row /\ stale' = stale \ {r}
      BY <1>4 DEF RereadForShift
    <2> HIDE DEF q
    <2> QED BY <2>1, <2>2, RowAlone
  <1>5. CASE Fail(r)
    BY <1>5, IdleInHand, RowAlone DEF Fail, Ends
  <1> QED BY <1>1, <1>2, <1>3, <1>4, <1>5

(* The row after an update: the same slots, and what differs was sent.     *)
LEMMA UpdatedRow ==
  ASSUME OInv, NEW r \in Requests \ stale, WriteEntry(r)
  PROVE  /\ row' = [hourly |-> row'.hourly, total |-> row'.total, shift |-> row.shift]
         /\ row'.hourly = [s \in DOMAIN row.hourly |-> row'.hourly[s]]
         /\ req[r].patch = Null => row'.hourly = row.hourly
         /\ req[r].patch # Null =>
              /\ row'.hourly = OnlyKnownSlots(row.hourly, Merge(row.hourly, req[r].patch))
              /\ row'.total = Sum(Merge(row.hourly, req[r].patch))
  <1>1. row = [hourly |-> row.hourly, total |-> row.total, shift |-> row.shift]
        /\ row.hourly = [s \in DOMAIN row.hourly |-> row.hourly[s]]
    BY RowIs DEF WriteEntry, OInv
  <1>2. /\ row'.hourly = IF req[r].hourly = Null THEN row.hourly ELSE req[r].hourly
        /\ row'.total = IF req[r].total = Null THEN row.total ELSE req[r].total
        /\ row' = [hourly |-> row'.hourly, total |-> row'.total, shift |-> row.shift]
    BY <1>1 DEF WriteEntry
  <1>3. CASE req[r].patch = Null
    <2>1. req[r].hourly = Null
      BY <1>3 DEF WriteEntry, OInv, AllInHand, InHand, Filtered
    <2> QED BY <1>1, <1>2, <1>3, <2>1
  <1>4. CASE req[r].patch # Null
    <2>1. /\ req[r].hourly = OnlyKnownSlots(row.hourly, Merge(row.hourly, req[r].patch))
          /\ req[r].total = Sum(Merge(row.hourly, req[r].patch))
      BY <1>4 DEF WriteEntry, OInv, AllInHand, InHand, Filtered
    <2>2. req[r].hourly = [s \in DOMAIN row.hourly |-> req[r].hourly[s]]
      BY <2>1, KnownSlots
    <2>3. req[r].hourly # Null /\ req[r].total # Null
      <3>1. row.hourly \in HourlyData /\ req[r] \in Updating /\ req[r].patch \in HourlyData
        BY <1>4, RowIs, KindOf, PatchTyped DEF WriteEntry, OInv, Updating
      <3>2. Merge(row.hourly, req[r].patch) \in HourlyData
        BY <3>1, MergeTyped
      <3>3. req[r].hourly \in HourlyData /\ req[r].total \in Totals
        BY <2>1, <3>1, <3>2, KnownTyped, SumTyped
      <3> QED BY <3>3, EntryOutputAssumption
    <2> QED BY <1>2, <1>4, <2>1, <2>2, <2>3
  <1> QED BY <1>3, <1>4

(* The row after a move to a shift: exactly the slots of the shift.        *)
LEMMA MovedRow ==
  ASSUME OInv, NEW r \in Requests \ stale, WriteShift(r)
  PROVE  /\ row' = [hourly |-> FitToShift(row.hourly, req[r].shift), total |-> row.total,
                    shift |-> req[r].shift]
         /\ row' = [hourly |-> row'.hourly, total |-> row'.total, shift |-> row'.shift]
  <1>1. row = [hourly |-> row.hourly, total |-> row.total, shift |-> row.shift]
    BY RowIs DEF WriteShift, OInv
  <1>2. req[r].hourly = FitToShift(row.hourly, req[r].shift)
    BY DEF WriteShift, OInv, AllInHand, InHand, Fitted
  <1> QED BY <1>1, <1>2 DEF WriteShift

LEMMA OInvKept ==
  ASSUME OInv, [Next]_vars
  PROVE  OInv'
  <1>1. CASE UNCHANGED vars
    BY <1>1, TypeKept DEF vars, OInv, AllInHand, InHand, Merged, Filtered, Fitted
  <1>2. CASE Next
    <2>1. TypeOK'
      BY TypeKept DEF OInv
    <2>2. ASSUME NEW r \in Requests, WriteEntry(r) \/ WriteShift(r)
          PROVE  AllInHand'
      BY <2>2, RequestOver DEF WriteEntry, WriteShift
    <2>3. AllInHand'
      BY <1>2, <2>2, AddKeeps, ReadsKeep DEF Next
    <2> QED BY <2>1, <2>3 DEF OInv
  <1> QED BY <1>1, <1>2

LEMMA OInvHolds == Spec => []OInv
  <1>1. Init => OInv
    BY IdleInHand DEF Init, OInv, TypeOK, AllInHand
  <1>2. OInv /\ [Next]_vars => OInv'
    BY OInvKept
  <1> QED BY <1>1, <1>2, PTL DEF Spec

-----------------------------------------------------------------------------
(* However requests overlap, an entry moved to a longer shift keeps exactly *)
(* the slots of that shift, whatever labels later updates use, but for an   *)
(* update that writes back a row another request has written since.         *)
THEOREM SlotsFit == Spec => SlotsFitShift
  <1> DEFINE A == Fits => Fits' \/ \E r \in stale : WriteEntry(r)
  <1>1. OInv /\ [Next]_vars => [A]_vars
    <2> SUFFICES ASSUME OInv, Next, Fits, \A r \in stale : ~WriteEntry(r)
                 PROVE  Fits'
      OBVIOUS
    <2>1. ASSUME NEW h \in Patch, NEW x \in ShiftTypes, NEW t \in Output, AddEntry(h, x, t)
          PROVE  Fits'
      BY <2>1 DEF AddEntry, Fits
    <2>2. ASSUME NEW r \in Requests \ stale, WriteEntry(r)
          PROVE  Fits'
      <3>1. /\ row' = [hourly |-> row'.hourly, total |-> row'.total, shift |-> row.shift]
            /\ row'.hourly = [s \in DOMAIN row.hourly |-> row'.hourly[s]]
        BY <2>2, UpdatedRow
      <3>2. DOMAIN row'.hourly = DOMAIN row.hourly /\ row'.shift = row.shift
        BY <3>1
      <3> QED BY <2>2, <3>2 DEF WriteEntry, Fits
    <2>3. ASSUME NEW r \in Requests, WriteShift(r)
          PROVE  Fits'
      <3>1. /\ row' = [hourly |-> row'.hourly, total |-> row'.total, shift |-> row'.shift]
            /\ row'.hourly = req[r].hourly /\ row'.shift = req[r].shift
        BY <2>3, RowIs DEF WriteShift, OInv
      <3>2. DOMAIN req[r].hourly = SlotsOf(req[r].shift)
        BY <2>3, KindOf DEF OInv, WriteShift, Fitting
      <3> QED BY <3>1, <3>2 DEF Fits
    <2>4. UNCHANGED row => Fits'
      BY DEF Fits
    <2> QED BY <2>1, <2>2, <2>3, <2>4 DEF Next, ListEntries, StartShiftChange, Reread,
               RereadForShift, Fail
  <1> QED BY <1>1, OInvHolds, PTL DEF Spec, SlotsFitShift

(* Whatever other step there is, the output of the slots stays.            *)
LEMMA OtherStepsKeepOutput ==
  ASSUME Next, row # Null, NEW s \in DOMAIN row.hourly \cap DOMAIN row'.hourly, OInv,
         \A r \in Requests : ~WriteEntry(r), \A r \in stale : ~WriteShift(r)
  PROVE  row'.hourly[s] = row.hourly[s]
  <1>1. CASE \E r \in Requests : WriteShift(r)
    <2> PICK r \in Requests \ stale : WriteShift(r)
      BY <1>1
    <2>1. row'.hourly = FitToShift(row.hourly, req[r].shift)
      BY MovedRow
    <2> QED BY <2>1, FittedSlots
  <1>2. CASE UNCHANGED row
    BY <1>2
  <1>3. (\E r \in Requests : WriteShift(r)) \/ UNCHANGED row
    BY DEF Next, AddEntry, ListEntries, StartShiftChange, Reread, RereadForShift, Fail
  <1> QED BY <1>1, <1>2, <1>3

(* The output of a slot changes only to what a request sent for that slot, *)
(* or to what a request made of a row that another has written since.      *)
THEOREM OnlySent == Spec => OnlySentOutputChanges
  <1> DEFINE A ==
        row # Null =>
          \A s \in DOMAIN row.hourly \cap DOMAIN row'.hourly :
            row'.hourly[s] # row.hourly[s] =>
              \/ \E r \in Requests :
                   /\ req[r].op = "update"
                   /\ req[r].patch # Null /\ s \in DOMAIN req[r].patch
                   /\ row'.hourly[s] = req[r].patch[s]
              \/ \E r \in stale : WriteEntry(r) \/ WriteShift(r)
  <1>1. OInv /\ [Next]_vars => [A]_vars
    <2> SUFFICES ASSUME OInv, Next, row # Null, \A r \in stale : ~WriteEntry(r) /\ ~WriteShift(r),
                        NEW s \in DOMAIN row.hourly \cap DOMAIN row'.hourly,
                        row'.hourly[s] # row.hourly[s]
                 PROVE  \E r \in Requests :
                          /\ req[r].op = "update"
                          /\ req[r].patch # Null /\ s \in DOMAIN req[r].patch
                          /\ row'.hourly[s] = req[r].patch[s]
      OBVIOUS
    <2>1. PICK r \in Requests \ stale : WriteEntry(r)
      BY OtherStepsKeepOutput
    <2>2. /\ req[r].patch # Null
          /\ row'.hourly = OnlyKnownSlots(row.hourly, Merge(row.hourly, req[r].patch))
      BY <2>1, UpdatedRow
    <2>3. row'.hourly[s] = IF s \in DOMAIN req[r].patch THEN req[r].patch[s] ELSE row.hourly[s]
      BY <2>2, KnownSlots
    <2> QED BY <2>1, <2>2, <2>3 DEF WriteEntry
  <1> QED BY <1>1, OInvHolds, PTL DEF Spec, OnlySentOutputChanges

(* After an update of slots the entry has, the total is their sum, unless  *)
(* another request wrote the entry since the update read it.               *)
THEOREM TotalsOfKnown == Spec => TotalOfKnownSlots
  <1> DEFINE A ==
        \A r \in Requests :
          UpdatesHours(r) /\ DOMAIN req[r].patch \subseteq DOMAIN row.hourly
            => row'.total = Sum(row'.hourly) \/ r \in stale
  <1>1. OInv /\ [Next]_vars => [A]_vars
    <2> SUFFICES ASSUME OInv, NEW r \in Requests \ stale, WriteEntry(r), req[r].patch # Null,
                        DOMAIN req[r].patch \subseteq DOMAIN row.hourly
                 PROVE  row'.total = Sum(row'.hourly)
      BY DEF UpdatesHours
    <2>1. /\ row'.hourly = OnlyKnownSlots(row.hourly, Merge(row.hourly, req[r].patch))
          /\ row'.total = Sum(Merge(row.hourly, req[r].patch))
      BY UpdatedRow
    <2>2. row'.hourly = Merge(row.hourly, req[r].patch)
      BY <2>1, KnownSlots
    <2> QED BY <2>1, <2>2
  <1> QED BY <1>1, OInvHolds, PTL DEF Spec, TotalOfKnownSlots
=============================================================================
