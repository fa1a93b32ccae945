-------------------------------- MODULE Rates --------------------------------
(***************************************************************************)
(* The output rates of the groups for one bag (bag-group-rate.service.ts). *)
(* A batch checks its groups one after the other and then writes all its   *)
(* rates at once, each with a look and a write of its own: the first that  *)
(* fails is the answer, and the others go on behind it.                    *)
(***************************************************************************)
EXTENDS Naturals, Sequences, FiniteSets, FiniteSetsExt

CONSTANTS
  Groups,
  Leaving,    \* those that may be deleted
  Ids,        \* ids of rates; none is used twice
  Outputs,    \* some natural numbers
  Batches,    \* what a request may send: a sequence of [group, output, active], and whether to create only
  Changes,    \* what a rate may be changed to: [output, active], or Gone
  Requests,
  Unborn, Gone

VARIABLES
  here,    \* the groups there are
  rate,    \* id -> the rate
  req

vars == <<here, rate, req>>

Rate == [group : Groups, output : Outputs, active : BOOLEAN]
Present(i) == rate[i] \notin {Unborn, Gone}
RateOf(g) == {i \in Ids : Present(i) /\ rate[i].group = g}
Idle == [pc |-> "idle"]
Goes(r) == req[r].pc # "idle"
Batching(r) == req[r].pc \in {"check", "write"}
Watched(r) == Batching(r) /\ ~req[r].answered
Finish(r) == req' = [req EXCEPT ![r] = Idle]

TypeOK ==
  /\ here \subseteq Groups
  /\ \A i \in Ids : Present(i) => rate[i] \in Rate /\ rate[i].group \in here
  /\ \A g \in Groups : Cardinality(RateOf(g)) <= 1
  /\ \A r \in Requests :
       /\ req[r].pc \in {"idle", "check", "write", "one", "groups"}
       /\ Batching(r) =>
            /\ req[r].batch \in {b.items : b \in Batches[r]} /\ req[r].next \in 1..(Len(req[r].batch) + 1)
            /\ \A k \in DOMAIN req[r].item :
                 req[r].item[k] \in Ids \cup {"ask", "insert", "done", "failed"}
       /\ req[r].pc = "groups" => req[r].lost \cap here = {}

Init ==
  /\ here = Groups
  /\ rate = [i \in Ids |-> Unborn]
  /\ req = [r \in Requests |-> Idle]

(* A write of r.  For the properties, the batches note whose rate changed. *)
Write(r, new, mine) ==
  LET changed == {g \in Groups : \E i \in Ids : new[i] # rate[i] /\
                     \E v \in {new[i], rate[i]} \ {Unborn, Gone} : v.group = g} IN
  /\ rate' = new
  /\ req' = [s \in Requests |->
       IF s = r THEN mine
       ELSE IF Watched(s) THEN [req[s] EXCEPT !.news = @ \cup changed] ELSE req[s]]

-----------------------------------------------------------------------------
(* A batch, or with `only` the creation of one rate, which a rate of the   *)
(* group refuses.                                                          *)
Start(r, b) ==
  /\ ~Goes(r)
  /\ req' = [req EXCEPT ![r] =
       [pc |-> "check", batch |-> b.items, only |-> b.only, next |-> 1, answered |-> FALSE,
        item |-> [k \in DOMAIN b.items |-> "ask"], news |-> Groups \ here]]
  /\ UNCHANGED <<here, rate>>

(* checkGroupExists, one group after the other.                            *)
CheckGroup(r) ==
  LET q == req[r] IN
  /\ q.pc = "check"
  /\ req' = [req EXCEPT ![r] =
       IF q.next > Len(q.batch) THEN [q EXCEPT !.pc = "write", !.next = 1]
       ELSE IF q.batch[q.next].group \in here THEN [q EXCEPT !.next = @ + 1]
       ELSE Idle]
  /\ UNCHANGED <<here, rate>>

At(r, k, state) == req[r].pc = "write" /\ k \in DOMAIN req[r].item /\ req[r].item[k] = state

(* findBagGroupRate for one item.                                          *)
FindRate(r, k) ==
  LET F == RateOf(req[r].batch[k].group) IN
  /\ At(r, k, "ask")
  /\ req' = [req EXCEPT ![r].item[k] =
       IF F = {} THEN "insert" ELSE IF req[r].only THEN "failed" ELSE CHOOSE i \in F : TRUE]
  /\ UNCHANGED <<here, rate>>

(* Fault: an update leaves the rate as active as it was.                   *)
WrittenAsActive(i, q, v) ==
  [group |-> v.group, output |-> v.output,
   active |-> IF Present(i) THEN rate[i].active ELSE q.only => v.active]
(* A creation stores the flag it was sent, a batch makes every rate active. *)
Written(i, q, v) == [group |-> v.group, output |-> v.output, active |-> q.only => v.active]

InsertRate(r, k, i) ==
  LET v == req[r].batch[k] IN
  /\ At(r, k, "insert") /\ rate[i] = Unborn
  /\ v.group \in here /\ RateOf(v.group) = {}
  /\ Write(r, [rate EXCEPT ![i] = Written(i, req[r], v)], [req[r] EXCEPT !.item[k] = "done"])
  /\ UNCHANGED here

UpdateRate(r, k, i) ==
  /\ At(r, k, i) /\ Present(i)
  /\ Write(r, [rate EXCEPT ![i] = Written(i, req[r], req[r].batch[k])],
           [req[r] EXCEPT !.item[k] = "done"])
  /\ UNCHANGED here

(* Fault: an item that fails is begun again.                               *)
ItemFailsRetrying(r, k) ==
  /\ \E state \in Ids \cup {"ask", "insert"} : At(r, k, state)
  /\ req' = [req EXCEPT ![r].item[k] = "ask"]
  /\ UNCHANGED <<here, rate>>
(* What was found is gone, a rate of the group has come, the group is gone *)
(* or the database fails.                                                  *)
ItemFails(r, k) ==
  /\ \E state \in Ids \cup {"ask", "insert"} : At(r, k, state)
  /\ req' = [req EXCEPT ![r].item[k] = "failed"]
  /\ UNCHANGED <<here, rate>>

Items(r) == {req[r].item[k] : k \in DOMAIN req[r].item}
AllDone(r) == Items(r) \subseteq {"done"}

(* Promise.all.                                                            *)
Answers(r) == AllDone(r) \/ "failed" \in Items(r)
Answer(r) ==
  /\ req[r].pc = "write" /\ ~req[r].answered /\ Answers(r)
  /\ req' = [req EXCEPT ![r].answered = TRUE, ![r].news = {}]
  /\ UNCHANGED <<here, rate>>

(* The items left over have settled.                                       *)
Vanish(r) ==
  /\ req[r].pc = "write" /\ req[r].answered /\ Items(r) \subseteq {"done", "failed"}
  /\ Finish(r)
  /\ UNCHANGED <<here, rate>>

-----------------------------------------------------------------------------
(* updateBagGroupRate and deleteBagGroupRate: a look, then the write.      *)
StartOne(r, i, new) ==
  /\ ~Goes(r) /\ Present(i)
  /\ req' = [req EXCEPT ![r] = [pc |-> "one", id |-> i, new |-> new]]
  /\ UNCHANGED <<here, rate>>
WriteOne(r) ==
  LET i == req[r].id  new == req[r].new IN
  /\ req[r].pc = "one"
  /\ IF Present(i)
       THEN Write(r, [rate EXCEPT ![i] =
                        IF new = Gone THEN Gone
                        ELSE [group |-> rate[i].group, output |-> new.output,
                              active |-> new.active]], Idle)
       ELSE Finish(r) /\ rate' = rate
  /\ UNCHANGED here

(* getProductivityAnalysis and getHandBagGroupRatesDetails: the active     *)
(* rates, then the groups, all asked for at once.                          *)
RatedGroups == {rate[i].group : i \in {j \in Ids : Present(j) /\ rate[j].active}}
StartAnalysis(r) ==
  /\ ~Goes(r)
  /\ req' = [req EXCEPT ![r] = [pc |-> "groups", todo |-> RatedGroups, lost |-> {}]]
  /\ UNCHANGED <<here, rate>>
GetGroupDetails(r, g) ==
  /\ req[r].pc = "groups" /\ g \in req[r].todo
  /\ req' = [req EXCEPT ![r].todo = @ \ {g},
                        ![r].lost = IF g \in here THEN @ ELSE @ \cup {g}]
  /\ UNCHANGED <<here, rate>>
EndAnalysis(r) ==
  /\ req[r].pc = "groups" /\ req[r].todo = {}
  /\ Finish(r)
  /\ UNCHANGED <<here, rate>>

(* Fault: its rates stay.                                                  *)
DeleteGroupAlone(g) ==
  /\ g \in here
  /\ here' = here \ {g}
  /\ UNCHANGED <<rate, req>>
(* A group is deleted, and its rates with it.                              *)
DeleteGroup(g) ==
  /\ g \in here
  /\ here' = here \ {g}
  /\ rate' = [i \in Ids |-> IF i \in RateOf(g) THEN Gone ELSE rate[i]]
  /\ req' = [s \in Requests |->
       IF Watched(s) THEN [req[s] EXCEPT !.news = @ \cup {g}] ELSE req[s]]

(* What a request that has begun goes on with.                             *)
Go(r) ==
  \/ CheckGroup(r) \/ Answer(r) \/ Vanish(r) \/ WriteOne(r) \/ EndAnalysis(r)
  \/ \E g \in Groups : GetGroupDetails(r, g)
ItemStep(r, k) ==
  \/ FindRate(r, k) \/ ItemFails(r, k)
  \/ \E i \in Ids : InsertRate(r, k, i) \/ UpdateRate(r, k, i)
Numbers == 1..Max({Len(b.items) : b \in UNION {Batches[r] : r \in Requests}})

Next ==
  \/ \E r \in Requests :
       \/ \E b \in Batches[r] : Start(r, b)
       \/ \E i \in Ids, new \in Changes : StartOne(r, i, new)
       \/ StartAnalysis(r) \/ Go(r)
       \/ \E k \in Numbers : ItemStep(r, k)
  \/ \E g \in Leaving : DeleteGroup(g)

Spec == Init /\ [][Next]_vars

(* Every query of a request returns or fails, whoever waits for it.        *)
FairSpec == Spec /\ \A r \in Requests : WF_vars(Go(r)) /\ \A k \in Numbers : WF_vars(ItemStep(r, k))

-----------------------------------------------------------------------------
(* The rate that item j asks for.                                          *)
RateAsked(q, j) ==
  LET v == q.batch[j] IN
  [group |-> v.group, output |-> v.output, active |-> q.only => v.active]

(* A batch that is answered with its ids has left every group of it with   *)
(* an active rate of the output asked for (the last to be written, when    *)
(* the batch names a group twice), and a creation its group with a rate as *)
(* active as it asked for, unless another request changed that group's     *)
(* rate, or deleted the group, after the batch had begun.                  *)
SuccessCoversBatch ==
  [][\A r \in Requests :
       req[r].pc = "write" /\ ~req[r].answered /\ req'[r].pc = "write" /\ req'[r].answered
         /\ "failed" \notin Items(r) =>
         \A k \in DOMAIN req[r].batch :
           \/ req[r].batch[k].group \in req[r].news
           \/ \E i \in Ids, j \in DOMAIN req[r].batch :
                /\ req[r].batch[j].group = req[r].batch[k].group
                /\ Present(i) /\ rate[i] = RateAsked(req[r], j)]_vars

(* An item that was begun settles, also behind an answer that has already  *)
(* reported another item's failure.                                        *)
EveryItemSettles ==
  \A r \in Requests : (req[r].pc = "write") ~> (req[r].pc = "idle")
=============================================================================
