------------------------- MODULE DelegationsProofs -------------------------
(***************************************************************************)
(* Theorems about the delegations of one child (Receipts, Delegations), for  *)
(* any number of delegations, turns, calls of the child and faults.          *)
(***************************************************************************)
EXTENDS Delegations, TLAPS

(* The boundaries have a maximum: MaxRunBoundary is a number.                *)
Boundaries == {row[d].boundary : d \in Delegations} \ {None}
HasTop == \E top \in {0} \cup Boundaries : \A b \in {0} \cup Boundaries : b <= top

(* One row and its call. A compaction has no turn.                           *)
RowOK(d) ==
  /\ call[d] = "idle" => row[d] = NoRow
  /\ row[d].status \in Open => row[d].status \in {"dispatching", "accepted"} /\ row[d].answer = None
  /\ row[d].status = "dispatching" => ~Bound(row[d])
  /\ row[d].control # None => row[d].boundary = None
  /\ call[d] \in {"queued", "sent"} => row[d].status # "accepted"

AnswerOK(r) ==
  r.answer # None =>
    IF r.control = None THEN r.answer.control = None /\ r.answer.version = r.boundary
                        ELSE r.answer.control = r.control

(* A call has one place in the chain, and a claim once its request went out,  *)
(* which only a compaction does without.                                     *)
Sends(i) == i \in 1..Len(chain) /\ chain[i].op = "send"
SendOK(i) ==
  /\ call[chain[i].d] # "idle"
  /\ call[chain[i].d] = "sent" => chain[i].d \in Compactions \/ chain[i].claim # None
  /\ chain[i].d \in Compactions => chain[i].claim = None
ChainOK ==
  /\ \A i \in 1..Len(chain) : Sends(i) => SendOK(i)
  /\ \A i, j \in 1..Len(chain) : Sends(i) /\ Sends(j) /\ chain[i].d = chain[j].d => i = j

AcksOK == \A ack \in wire.acks : ack.d \in Compactions <=> ack.control # None

(* The slot, from the side of the calls. A call that the registry threw out   *)
(* leaves it taken, without a number.                                        *)
Active == {"queued", "sent", "waiting"}
SlotOK ==
  /\ waiter.d # None =>
       /\ row[waiter.d].waits
       /\ \/ call[waiter.d] \in Active
          \/ left.thrown /\ call[waiter.d] = "over" /\ row[waiter.d].status # "accepted"
  /\ waiter.boundary # None => waiter.d # None /\ call[waiter.d] = "waiting"
  /\ \A d \in Delegations : call[d] \in Active /\ row[d].waits => waiter.d = d
  /\ \A d \in Delegations :
       call[d] = "waiting" => row[d].waits /\ waiter.boundary = row[d].boundary

StateOK == (\A d \in Delegations : RowOK(d)) /\ ChainOK /\ AcksOK
Inv == DelegationsTypeOK /\ HasTop /\ StateOK
-----------------------------------------------------------------------------
LEMMA NoneFacts == None \notin Nat /\ None \notin Delegations
BY NoneAssumption

LEMMA TopIsNat ==
  ASSUME DelegationsTypeOK, HasTop
  PROVE  MaxRunBoundary \in Nat
<1> DEFINE S == {0} \cup Boundaries
<1>1. S \subseteq Nat
  BY DEF Boundaries, DelegationsTypeOK, Rows
<1>2. PICK top \in S : \A b \in S : b <= top
  BY DEF HasTop
<1>3. \E x \in S : \A y \in S : x >= y
  BY <1>1, <1>2
<1>4. MaxRunBoundary = CHOOSE x \in S : \A y \in S : x >= y
  BY DEF MaxRunBoundary, Max, Boundaries
<1> QED
  BY <1>1, <1>3, <1>4

LEMMA SameBoundaries ==
  ASSUME HasTop, \A d \in Delegations : row'[d].boundary = row[d].boundary
  PROVE  HasTop'
<1>1. Boundaries' = Boundaries
  BY DEF Boundaries
<1> QED
  BY <1>1 DEF HasTop

LEMMA NewBoundary ==
  ASSUME DelegationsTypeOK, HasTop, NEW d \in Delegations, NEW b \in Nat \cup {None},
         row[d].boundary = None, row'[d].boundary = b,
         \A e \in Delegations \ {d} : row'[e].boundary = row[e].boundary
  PROVE  HasTop'
<1> DEFINE S == {0} \cup Boundaries
<1>1. S \subseteq Nat
  BY DEF Boundaries, DelegationsTypeOK, Rows
<1>2. PICK top \in S : \A x \in S : x <= top
  BY DEF HasTop
<1>3. Boundaries' = Boundaries \cup ({b} \ {None})
  BY DEF Boundaries
<1>4. CASE b = None \/ b <= top
  BY <1>1, <1>2, <1>3, <1>4 DEF HasTop
<1>5. CASE b # None /\ ~(b <= top)
  <2>1. \A x \in {0} \cup Boundaries' : x <= b
    BY <1>1, <1>2, <1>3, <1>5
  <2> QED
    BY <1>3, <1>5, <2>1 DEF HasTop
<1> QED
  BY <1>4, <1>5
-----------------------------------------------------------------------------
(* The chain.                                                               *)
LEMMA DoneOK ==
  ASSUME chain \in Seq(Jobs), ChainOK, chain # <<>>, Done,
         \A d \in Delegations : call'[d] = call[d] \/ call'[d] \in {"waiting", "over"}
  PROVE  chain' \in Seq(Jobs) /\ ChainOK'
<1>1. /\ chain' \in Seq(Jobs)
      /\ Len(chain') = Len(chain) - 1
      /\ \A i \in 1..Len(chain') : chain'[i] = chain[i + 1] /\ i + 1 \in 1..Len(chain)
  BY DEF Done
<1>2. \A i \in 1..Len(chain) : chain[i].op = "send" => chain[i].d \in Delegations
  BY DEF Jobs
<1>3. ASSUME NEW i \in 1..Len(chain'), Sends(i)' PROVE SendOK(i)'
  <2>1. Sends(i + 1) /\ chain'[i] = chain[i + 1] /\ i + 1 \in 1..Len(chain)
    BY <1>1, <1>3 DEF Sends
  <2>2. SendOK(i + 1) /\ chain[i + 1].d \in Delegations
    BY <1>2, <2>1 DEF ChainOK, Sends
  <2> QED
    BY <2>1, <2>2 DEF SendOK
<1>4. ASSUME NEW i \in 1..Len(chain'), NEW j \in 1..Len(chain'), Sends(i)', Sends(j)',
             chain'[i].d = chain'[j].d
      PROVE  i = j
  <2>1. Sends(i + 1) /\ Sends(j + 1) /\ chain[i + 1].d = chain[j + 1].d
    BY <1>1, <1>4 DEF Sends
  <2>2. i + 1 = j + 1
    BY <1>1, <2>1 DEF ChainOK
  <2> QED
    BY <2>2
<1> QED
  BY <1>1, <1>3, <1>4 DEF ChainOK

LEMMA EnqueueOK ==
  ASSUME chain \in Seq(Jobs), ChainOK, NEW job \in Jobs, Enqueue(job),
         \A i \in 1..Len(chain) : Sends(i) => call'[chain[i].d] = call[chain[i].d],
         job.op = "send" => job.claim = None,
         job.op = "send" => call'[job.d] = "queued" /\ \A i \in 1..Len(chain) : Sends(i) => chain[i].d # job.d
  PROVE  chain' \in Seq(Jobs) /\ ChainOK'
<1>1. /\ chain' \in Seq(Jobs)
      /\ Len(chain') = Len(chain) + 1
      /\ \A i \in 1..Len(chain) : chain'[i] = chain[i] /\ i \in 1..Len(chain')
      /\ chain'[Len(chain) + 1] = job
      /\ \A i \in 1..Len(chain') : i \in 1..Len(chain) \/ i = Len(chain) + 1
  BY DEF Enqueue
<1>2. \A i \in 1..Len(chain) : Sends(i)' <=> Sends(i)
  BY <1>1 DEF Sends
<1>3. ASSUME NEW i \in 1..Len(chain'), Sends(i)' PROVE SendOK(i)'
  <2>1. CASE i \in 1..Len(chain)
    BY <1>1, <1>2, <1>3, <2>1 DEF SendOK, ChainOK
  <2>2. CASE i = Len(chain) + 1
    BY <1>1, <1>3, <2>2 DEF SendOK, Sends
  <2> QED
    BY <1>1, <2>1, <2>2
<1>4. ASSUME NEW i \in 1..Len(chain'), NEW j \in 1..Len(chain'), Sends(i)', Sends(j)',
             chain'[i].d = chain'[j].d
      PROVE  i = j
  <2>1. CASE i \in 1..Len(chain) /\ j \in 1..Len(chain)
    BY <1>1, <1>2, <1>4, <2>1 DEF ChainOK
  <2>2. CASE i = Len(chain) + 1 \/ j = Len(chain) + 1
    BY <1>1, <1>2, <1>4, <2>2 DEF Sends
  <2> QED
    BY <1>1, <2>1, <2>2
<1> QED
  BY <1>1, <1>3, <1>4 DEF ChainOK

LEMMA SameChain ==
  ASSUME ChainOK, UNCHANGED <<chain, call>>
  PROVE  ChainOK'
BY DEF ChainOK, Sends, SendOK
-----------------------------------------------------------------------------
(* Rows.                                                                    *)
LEMMA SettlementOK ==
  ASSUME NEW v \in Nat \cup {None}, NEW c \in Delegations \cup {None}, NEW s \in Final,
         NEW by \in {"turn", "child", "none"}, NEW t \in Nat
  PROVE  /\ Settlement(v, c, s, by, t) \in Events
         /\ Settlement(v, c, s, by, t).version = v
         /\ Settlement(v, c, s, by, t).control = c
         /\ Settlement(v, c, s, by, t).status = s
BY DEF Settlement, Events

LEMMA UpdatedOK ==
  ASSUME row \in [Delegations -> Rows], NEW d \in Delegations, NEW s \in Final \cup {"accepted"},
         NEW b \in Nat \cup {None}, NEW c \in Delegations \cup {None}, NEW a \in Events \cup {None},
         row' = Updated(d, s, b, c, a)
  PROVE  /\ row' \in [Delegations -> Rows]
         /\ \A e \in Delegations \ {d} : row'[e] = row[e]
         /\ row[d].status # "dispatching" => row'[d] = row[d]
         /\ row[d].status = "dispatching" =>
              row'[d] = [status |-> s, waits |-> row[d].waits, boundary |-> b,
                         control |-> c, answer |-> a]
         /\ row'[d].waits = row[d].waits
<1>1. row[d] \in Rows
  OBVIOUS
<1>2. row[d] = [status |-> row[d].status, waits |-> row[d].waits, boundary |-> row[d].boundary,
                control |-> row[d].control, answer |-> row[d].answer]
  BY <1>1 DEF Rows
<1>3. [status |-> s, waits |-> row[d].waits, boundary |-> b, control |-> c, answer |-> a] \in Rows
  BY <1>1 DEF Rows, Open
<1> QED
  BY <1>1, <1>2, <1>3 DEF Updated, Rows

(* Rows that end keep what they are bound to.                                *)
EndsWith(r, s, a) ==
  [status |-> s, waits |-> r.waits, boundary |-> r.boundary, control |-> r.control, answer |-> a]

LEMMA EndedOK ==
  ASSUME row \in [Delegations -> Rows], NEW ds, NEW s \in Final, NEW a \in Events \cup {None},
         row' = Ended(ds, s, a)
  PROVE  /\ row' \in [Delegations -> Rows]
         /\ \A d \in Delegations : row'[d] = IF d \in ds THEN EndsWith(row[d], s, a) ELSE row[d]
<1>1. ASSUME NEW d \in Delegations
      PROVE  /\ row[d] \in Rows
             /\ [row[d] EXCEPT !.status = s, !.answer = a] = EndsWith(row[d], s, a)
             /\ EndsWith(row[d], s, a) \in Rows
  <2>1. row[d] \in Rows
    OBVIOUS
  <2>3. EndsWith(row[d], s, a) \in Rows
    BY <2>1 DEF Rows, EndsWith
  <2>4. ASSUME NEW r, r = [row[d] EXCEPT !.status = s, !.answer = a]
        PROVE  r = EndsWith(row[d], s, a)
    BY <2>1, <2>4 DEF EndsWith, Rows
  <2>5. [row[d] EXCEPT !.status = s, !.answer = a] = EndsWith(row[d], s, a)
    BY <2>4
  <2> QED
    BY <2>1, <2>3, <2>5
<1> QED
  BY <1>1 DEF Ended

LEMMA SettledOK ==
  ASSUME row \in [Delegations -> Rows], NEW e \in Events, row' = Settled(e)
  PROVE  /\ row' \in [Delegations -> Rows]
         /\ \A d \in Delegations :
              row'[d] = IF d \in SettledBy(e) THEN EndsWith(row[d], e.status, e) ELSE row[d]
<1>1. e.status \in Final
  BY DEF Events
<1> QED
  BY <1>1, EndedOK DEF Settled

LEMMA RowsEndOK ==
  ASSUME DelegationsTypeOK, HasTop, \A d \in Delegations : RowOK(d),
         NEW ds, ds \subseteq OpenRows, NEW s \in Final, NEW a \in Events \cup {None},
         \A d \in Delegations : row'[d] = IF d \in ds THEN EndsWith(row[d], s, a) ELSE row[d],
         \A d \in Delegations : call'[d] = call[d] \/ call'[d] = "over" \/ call'[d] = "waiting"
                                \/ (call'[d] = "sent" /\ call[d] = "queued")
  PROVE  HasTop' /\ \A d \in Delegations : RowOK(d)'
<1>1. ASSUME NEW d \in Delegations PROVE row'[d].boundary = row[d].boundary
  <2>1. CASE d \in ds
    <3>1. row'[d] = EndsWith(row[d], s, a)
      BY <2>1
    <3> QED
      BY <3>1 DEF EndsWith
  <2>2. CASE d \notin ds
    BY <2>2
  <2> QED
    BY <2>1, <2>2
<1>2. HasTop'
  BY <1>1, SameBoundaries
<1>3. ASSUME NEW d \in Delegations PROVE RowOK(d)'
  <2>1. CASE d \in ds
    <3>1. row'[d] = EndsWith(row[d], s, a)
      BY <2>1
    <3>2. /\ row'[d].status = s /\ s \notin Open /\ s # "dispatching" /\ s # "accepted"
          /\ row'[d].control = row[d].control /\ row'[d].boundary = row[d].boundary
      BY <3>1 DEF EndsWith, Final, Open
    <3>3. row[d].status \in Open
      BY <2>1 DEF OpenRows
    <3>4. call[d] # "idle"
      BY <3>3 DEF RowOK, NoRow, Open
    <3> QED
      BY <3>2, <3>4 DEF RowOK
  <2>2. CASE d \notin ds
    BY <2>2 DEF RowOK, Bound
  <2> QED
    BY <2>1, <2>2
<1> QED
  BY <1>2, <1>3

LEMMA RowsUpdateOK ==
  ASSUME DelegationsTypeOK, HasTop, \A d \in Delegations : RowOK(d),
         NEW d \in Delegations, NEW s \in Final \cup {"accepted"},
         NEW b \in Nat \cup {None}, NEW c \in Delegations \cup {None}, NEW a \in Events \cup {None},
         row' = Updated(d, s, b, c, a), s = "accepted" => a = None, c # None => b = None,
         call[d] # "idle", call'[d] \in {"waiting", "over"},
         \A e \in Delegations \ {d} : call'[e] = call[e]
  PROVE  row' \in [Delegations -> Rows] /\ HasTop' /\ \A e \in Delegations : RowOK(e)'
<1>0. row \in [Delegations -> Rows]
  BY DEF DelegationsTypeOK
<1>1. /\ row' \in [Delegations -> Rows]
      /\ \A e \in Delegations \ {d} : row'[e] = row[e]
      /\ row[d].status # "dispatching" => row'[d] = row[d]
      /\ row[d].status = "dispatching" =>
              row'[d] = [status |-> s, waits |-> row[d].waits, boundary |-> b,
                         control |-> c, answer |-> a]
  BY <1>0, UpdatedOK
<1>2. HasTop'
  <2>1. CASE row[d].status = "dispatching"
    <3>1. row[d].boundary = None /\ row'[d].boundary = b
      BY <1>1, <2>1 DEF RowOK, Bound
    <3> QED
      BY <1>1, <3>1, NewBoundary
  <2>2. CASE row[d].status # "dispatching"
    BY <1>1, <2>2, SameBoundaries
  <2> QED
    BY <2>1, <2>2
<1>3. \A e \in Delegations \ {d} : RowOK(e)'
  BY <1>1 DEF RowOK, Bound
<1>4. RowOK(d)'
  BY <1>1 DEF RowOK, Bound, Final, Open
<1> QED
  BY <1>1, <1>2, <1>3, <1>4

LEMMA SameRows ==
  ASSUME HasTop, \A d \in Delegations : RowOK(d), UNCHANGED row,
         \A d \in Delegations : call'[d] = call[d] \/ call'[d] = "over"
                                \/ (call'[d] = "sent" /\ call[d] = "queued")
  PROVE  HasTop' /\ \A d \in Delegations : RowOK(d)'
BY SameBoundaries DEF RowOK, Bound
-----------------------------------------------------------------------------
(* The head of the chain.                                                   *)
LEMMA HeadOK ==
  ASSUME chain \in Seq(Jobs), chain # <<>>
  PROVE  /\ Head(chain) = chain[1] /\ chain[1] \in Jobs
         /\ 1 \in 1..Len(chain) /\ Len(chain) \in Nat
OBVIOUS

LEMMA SendingOK ==
  ASSUME chain \in Seq(Jobs), NEW d \in Delegations, NEW where, Sending(d, where)
  PROVE  /\ Sends(1) /\ chain[1] = Head(chain) /\ chain[1].d = d /\ call[d] = where
         /\ chain[1].claim \in Nat \cup {None}
         /\ chain[1] = [op |-> "send", d |-> d, claim |-> chain[1].claim]
         /\ chain # <<>>
<1>1. chain # <<>> /\ Head(chain).op = "send" /\ Head(chain).d = d /\ call[d] = where
  BY DEF Sending, Running
<1>2. Head(chain) = chain[1] /\ chain[1] \in Jobs /\ 1 \in 1..Len(chain)
  BY <1>1
<1>3. chain[1] \in [op : {"send"}, d : Delegations, claim : Nat \cup {None}]
  BY <1>1, <1>2 DEF Jobs
<1> QED
  BY <1>1, <1>2, <1>3 DEF Sends

LEMMA DispatchOK ==
  ASSUME chain \in Seq(Jobs), call \in [Delegations -> {"idle", "queued", "sent", "waiting", "over"}],
         ChainOK, NEW d \in Delegations, Sending(d, "queued"),
         NEW claim \in Nat, Dispatch(d, claim)
  PROVE  chain' \in Seq(Jobs) /\ ChainOK'
<1> DEFINE c == IF d \in Compactions THEN None ELSE claim
           job == [op |-> "send", d |-> d, claim |-> c]
<1>1. /\ Sends(1) /\ chain[1].d = d /\ chain # <<>> /\ 1 \in 1..Len(chain)
      /\ chain[1] = [op |-> "send", d |-> d, claim |-> chain[1].claim]
  BY SendingOK DEF Sends
<1>2. job \in Jobs
  BY DEF Jobs
<1>3. chain' = [chain EXCEPT ![1] = job]
  <2>1. chain' = [chain EXCEPT ![1] = [chain[1] EXCEPT !.claim = c]]
    BY DEF Dispatch
  <2>2. ASSUME NEW r, r = [chain[1] EXCEPT !.claim = c] PROVE r = job
    BY <1>1, <2>2
  <2> QED
    BY <2>1, <2>2
<1> HIDE DEF job, c
<1>4. /\ chain' \in Seq(Jobs) /\ Len(chain') = Len(chain)
      /\ chain'[1] = job
      /\ \A i \in 1..Len(chain) : i # 1 => chain'[i] = chain[i]
  BY <1>1, <1>2, <1>3
<1>5. call' = [call EXCEPT ![d] = "sent"]
  BY DEF Dispatch
<1>6. \A i \in 1..Len(chain) : (Sends(i)' <=> Sends(i)) /\ chain'[i].d = chain[i].d
  BY <1>1, <1>4 DEF Sends, job
<1>7. \A i \in 1..Len(chain) : Sends(i) /\ i # 1 => chain[i].d # d
  BY <1>1 DEF ChainOK
<1>8. \A i \in 1..Len(chain) : Sends(i) => chain[i].d \in Delegations
  BY DEF Jobs, Sends
<1>9. ASSUME NEW i \in 1..Len(chain), Sends(i) PROVE SendOK(i)'
  <2>1. CASE i = 1
    BY <1>1, <1>4, <1>5, <2>1, NoneFacts DEF SendOK, job, c
  <2>2. CASE i # 1
    BY <1>4, <1>5, <1>7, <1>8, <1>9, <2>2 DEF SendOK, ChainOK
  <2> QED
    BY <2>1, <2>2
<1> QED
  BY <1>4, <1>6, <1>9 DEF ChainOK
-----------------------------------------------------------------------------
(* One lemma for every step: the state stays as it should be.                *)
LEMMA InitOK == Init => Inv
<1> SUFFICES ASSUME Init PROVE Inv
  OBVIOUS
<1>1. NoRow \in Rows
  BY DEF NoRow, Rows
<1>2. DelegationsTypeOK
  <2> USE DEF Init
  <2>1. row \in [Delegations -> Rows] /\ chain \in Seq(Jobs) /\ report \in ReportStates
    BY <1>1 DEF NoReport, ReportStates, States
  <2>2. mem \in Memories
    BY DEF FreshMemory, Memories
  <2>3. left \in Budgets
    BY DelegationsAssumption DEF Budgets
  <2>4. child \in Children /\ wire \in Wires
    BY DEF Children, Wires
  <2> QED
    BY <2>1, <2>2, <2>3, <2>4 DEF DelegationsTypeOK, NoWaiter, States
<1>3. HasTop
  <2>1. Boundaries = {}
    BY DEF Init, Boundaries, NoRow
  <2> QED
    BY <2>1 DEF HasTop
<1>4. StateOK
  BY DEF Init, StateOK, RowOK, NoRow, ChainOK, AcksOK, Open
<1> QED
  BY <1>2, <1>3, <1>4 DEF Inv

LEMMA BumpedOK == ASSUME DelegationsTypeOK PROVE
  Bumped \in ReportStates
BY DEF Bumped, DelegationsTypeOK, ReportStates

LEMMA SpentOK ==
  ASSUME DelegationsTypeOK, left.faults > 0
  PROVE  /\ Spent \in Budgets
         /\ Spent.thrown = left.thrown
<1>1. left \in Budgets
  BY DEF DelegationsTypeOK
<1>2. left.faults \in Nat /\ left.faults - 1 \in Nat
  BY <1>1 DEF Budgets
<1> QED
  BY <1>1, <1>2 DEF Spent, Budgets

LEMMA DelegateOK ==
  ASSUME Inv, NEW d \in Delegations, NEW waits \in BOOLEAN, Delegate(d, waits)
  PROVE  Inv'
<1> USE DEF Inv, StateOK
<1>1. call' = [call EXCEPT ![d] = "queued"] /\ call[d] = "idle" /\ row[d] = NoRow
  BY DEF Delegate, RowOK
<1>2. /\ row' \in [Delegations -> Rows]
      /\ row'[d] = [NoRow EXCEPT !.status = "dispatching", !.waits = waits]
      /\ \A e \in Delegations \ {d} : row'[e] = row[e]
  <2>1. [NoRow EXCEPT !.status = "dispatching", !.waits = waits] \in Rows
    BY DEF NoRow, Rows, Open
  <2> QED
    BY <2>1 DEF Delegate, Reserved, DelegationsTypeOK
<1>3. chain' \in Seq(Jobs) /\ ChainOK'
  <2> DEFINE job == [op |-> "send", d |-> d, claim |-> None]
  <2>1. job \in Jobs /\ Enqueue(job)
    BY DEF Jobs, Delegate
  <2>2. \A i \in 1..Len(chain) : Sends(i) => chain[i].d # d /\ chain[i].d \in Delegations
    BY <1>1 DEF ChainOK, SendOK, Sends, DelegationsTypeOK, Jobs
  <2>3. \A i \in 1..Len(chain) : Sends(i) => call'[chain[i].d] = call[chain[i].d]
    BY <1>1, <2>2 DEF DelegationsTypeOK
  <2>4. call'[d] = "queued"
    BY <1>1 DEF DelegationsTypeOK
  <2> QED
    BY <2>1, <2>2, <2>3, <2>4, EnqueueOK DEF DelegationsTypeOK
<1>4. DelegationsTypeOK'
  <2>1. mem' \in Memories /\ report' \in ReportStates
    BY BumpedOK DEF Delegate, DelegationsTypeOK, Memories
  <2>2. /\ waiter' \in [d : Delegations \cup {None}, boundary : Nat \cup {None}]
        /\ call' \in [Delegations -> {"idle", "queued", "sent", "waiting", "over"}]
    BY <1>1 DEF Delegate, DelegationsTypeOK
  <2>3. latest' \in [Delegations -> Events \cup {None}]
    BY DEF Delegate, DelegationsTypeOK, Memories
  <2> QED
    BY <1>2, <1>3, <2>1, <2>2, <2>3 DEF Delegate, DelegationsTypeOK
<1>5. HasTop'
  <2>1. row[d].boundary = None /\ row'[d].boundary = None
    BY <1>1, <1>2 DEF NoRow
  <2> QED
    BY <1>2, <2>1, NewBoundary
<1>6. ASSUME NEW e \in Delegations PROVE RowOK(e)'
  <2>1. CASE e = d
    BY <1>1, <1>2, <2>1 DEF RowOK, Bound, NoRow, DelegationsTypeOK
  <2>2. CASE e # d
    BY <1>1, <1>2, <2>2 DEF RowOK, Bound, DelegationsTypeOK
  <2> QED
    BY <2>1, <2>2
<1>7. AcksOK'
  BY DEF Delegate, AcksOK
<1> QED
  BY <1>3, <1>4, <1>5, <1>6, <1>7

(* What the end of a call leaves.                                            *)
LEMMA LeaveOK ==
  ASSUME DelegationsTypeOK, NEW d \in Delegations, Leave(d)
  PROVE  /\ waiter' \in [d : Delegations \cup {None}, boundary : Nat \cup {None}]
         /\ call' \in [Delegations -> {"idle", "queued", "sent", "waiting", "over"}]
         /\ latest' \in [Delegations -> Events \cup {None}]
         /\ call'[d] = "over"
         /\ \A e \in Delegations \ {d} : call'[e] = call[e]
BY DEF Leave, DelegationsTypeOK, NoWaiter

LEMMA SendRequestOK ==
  ASSUME Inv, NEW d \in Delegations, SendRequest(d)
  PROVE  Inv'
<1> USE DEF Inv, StateOK
<1>1. /\ Sending(d, "queued") /\ Dispatch(d, NextClaim)
      /\ call' = [call EXCEPT ![d] = "sent"] /\ call[d] = "queued"
  BY DEF SendRequest, Dispatch, Sending
<1>2. NextClaim \in Nat
  BY DEF NextClaim, DelegationsTypeOK, Memories
<1>3. chain' \in Seq(Jobs) /\ ChainOK'
  BY <1>1, <1>2, DispatchOK DEF DelegationsTypeOK
<1>4. DelegationsTypeOK'
  <2>1. mem' \in Memories
    BY DEF SendRequest, DelegationsTypeOK, Memories
  <2>2. wire' \in Wires
    <3>1. wire \in Wires /\ wire' = [wire EXCEPT !.requests = @ \cup {d}]
      BY DEF SendRequest, DelegationsTypeOK
    <3>2. wire.requests \cup {d} \in SUBSET Delegations
      BY <3>1 DEF Wires
    <3> QED
      BY <3>1, <3>2 DEF Wires
  <2>3. call' \in [Delegations -> {"idle", "queued", "sent", "waiting", "over"}]
    BY <1>1 DEF DelegationsTypeOK
  <2>4. record' \in [state : States, intent : {"active", "stopped"}]
    BY <1>1 DEF Dispatch, States
  <2> QED
    BY <1>1, <1>3, <2>1, <2>2, <2>3, <2>4 DEF SendRequest, Dispatch, DelegationsTypeOK
<1>5. HasTop' /\ \A e \in Delegations : RowOK(e)'
  BY <1>1, SameRows DEF Dispatch, DelegationsTypeOK
<1>6. AcksOK'
  BY DEF SendRequest, AcksOK, DelegationsTypeOK, Wires
<1> QED
  BY <1>3, <1>4, <1>5, <1>6

LEMMA OutdatedOK ==
  ASSUME wire \in Wires, NEW types
  PROVE  Outdated(types) \in Seq(WireEvents)
<1>1. wire.events \in Seq(WireEvents)
  BY DEF Wires
<1>2. ASSUME NEW i \in 1..Len(wire.events) PROVE Outdated(types)[i] \in WireEvents
  <2>1. wire.events[i] \in WireEvents /\ i \in DOMAIN wire.events
    BY <1>1
  <2>2. [type |-> "stale"] \in WireEvents
    BY DEF WireEvents
  <2> QED
    BY <2>1, <2>2 DEF Outdated
<1>3. DOMAIN wire.events = 1..Len(wire.events) /\ Len(wire.events) \in Nat
  BY <1>1
<1>4. Outdated(types) \in [1..Len(wire.events) -> WireEvents]
  <2>1. Outdated(types) = [i \in 1..Len(wire.events) |-> Outdated(types)[i]]
    BY <1>3 DEF Outdated
  <2> QED
    BY <1>2, <2>1
<1> QED
  BY <1>3, <1>4

LEMMA LatestVersionOK ==
  ASSUME DelegationsTypeOK, HasTop
  PROVE  Max({mem.version, MaxRunBoundary}) \in Nat
<1>1. mem.version \in Nat /\ MaxRunBoundary \in Nat
  BY TopIsNat DEF DelegationsTypeOK, Memories
<1>2. \E x \in {mem.version, MaxRunBoundary} : \A y \in {mem.version, MaxRunBoundary} : x >= y
  BY <1>1
<1> QED
  BY <1>1, <1>2 DEF Max

LEMMA ResumeOK ==
  ASSUME Inv, NEW d \in Delegations, Resume(d)
  PROVE  Inv'
<1> USE DEF Inv, StateOK
<1> DEFINE version == Max({mem.version, MaxRunBoundary})
<1>1. /\ Sending(d, "queued") /\ Dispatch(d, version + 1)
      /\ call' = [call EXCEPT ![d] = "sent"] /\ call[d] = "queued"
  BY DEF Resume, Dispatch, Sending
<1>2. version \in Nat
  BY LatestVersionOK
<1>3. chain' \in Seq(Jobs) /\ ChainOK'
  BY <1>1, <1>2, DispatchOK DEF DelegationsTypeOK
<1>4. DelegationsTypeOK'
  <2>1. mem' \in Memories
    BY <1>2 DEF Resume, DelegationsTypeOK, Memories
  <2>2. wire' \in Wires
    <3>1. /\ wire \in Wires
          /\ wire' = [wire EXCEPT !.requests = @ \cup {d}, !.events = Outdated({"report"}),
                                 !.exited = FALSE]
      BY DEF Resume, DelegationsTypeOK
    <3>2. wire.requests \cup {d} \in SUBSET Delegations
      BY <3>1 DEF Wires
    <3>3. Outdated({"report"}) \in Seq(WireEvents)
      BY <3>1, OutdatedOK
    <3> QED
      BY <3>1, <3>2, <3>3 DEF Wires
  <2>3. call' \in [Delegations -> {"idle", "queued", "sent", "waiting", "over"}]
    BY <1>1 DEF DelegationsTypeOK
  <2>4. record' \in [state : States, intent : {"active", "stopped"}]
    BY <1>1 DEF Dispatch, States
  <2>5. child' \in Children
    BY DEF Resume, DelegationsTypeOK, Children
  <2> QED
    BY <1>1, <1>3, <2>1, <2>2, <2>3, <2>4, <2>5 DEF Dispatch, DelegationsTypeOK
<1>5. HasTop' /\ \A e \in Delegations : RowOK(e)'
  BY <1>1, SameRows DEF Dispatch, DelegationsTypeOK
<1>6. AcksOK'
  BY DEF Resume, AcksOK, DelegationsTypeOK, Wires
<1> QED
  BY <1>3, <1>4, <1>5, <1>6

(* A dispatch that ends with an update of its row.                           *)
LEMMA SendEndsOK ==
  ASSUME Inv, NEW d \in Delegations, NEW where, where # "idle", Sending(d, where),
         NEW s \in Final \cup {"accepted"},
         NEW b \in Nat \cup {None}, NEW c \in Delegations \cup {None}, NEW a \in Events \cup {None},
         row' = Updated(d, s, b, c, a), s = "accepted" => a = None, c # None => b = None, Done,
         call' \in [Delegations -> {"idle", "queued", "sent", "waiting", "over"}],
         call'[d] \in {"waiting", "over"},
         \A e \in Delegations \ {d} : call'[e] = call[e]
  PROVE  /\ row' \in [Delegations -> Rows] /\ HasTop' /\ \A e \in Delegations : RowOK(e)'
         /\ chain' \in Seq(Jobs) /\ ChainOK'
<1> USE DEF Inv, StateOK
<1>1. chain \in Seq(Jobs) /\ chain # <<>> /\ call[d] # "idle"
  BY DEF DelegationsTypeOK, Sending, Running
<1>2. row' \in [Delegations -> Rows] /\ HasTop' /\ \A e \in Delegations : RowOK(e)'
  BY <1>1, RowsUpdateOK
<1>3. \A e \in Delegations : call'[e] = call[e] \/ call'[e] \in {"waiting", "over"}
  OBVIOUS
<1>4. chain' \in Seq(Jobs) /\ ChainOK'
  BY <1>1, <1>3, DoneOK
<1> QED
  BY <1>2, <1>4

LEMMA SendDoubtedOK ==
  ASSUME Inv, NEW d \in Delegations, SendDoubted(d)
  PROVE  Inv'
<1> USE DEF Inv, StateOK
<1>1. /\ waiter' \in [d : Delegations \cup {None}, boundary : Nat \cup {None}]
      /\ call' \in [Delegations -> {"idle", "queued", "sent", "waiting", "over"}]
      /\ latest' \in [Delegations -> Events \cup {None}]
      /\ call'[d] = "over"
      /\ \A e \in Delegations \ {d} : call'[e] = call[e]
  BY LeaveOK DEF SendDoubted
<1>2. /\ row' \in [Delegations -> Rows] /\ HasTop' /\ \A e \in Delegations : RowOK(e)'
      /\ chain' \in Seq(Jobs) /\ ChainOK'
  <2>1. "uncertain" \in Final \cup {"accepted"}
    BY DEF Final
  <2>2. Sending(d, "queued") /\ row' = Updated(d, "uncertain", None, None, None) /\ Done
    BY DEF SendDoubted
  <2> QED
    BY <1>1, <2>1, <2>2, SendEndsOK
<1>3. DelegationsTypeOK' /\ AcksOK'
  BY <1>1, <1>2 DEF SendDoubted, DelegationsTypeOK, AcksOK
<1> QED
  BY <1>2, <1>3

LEMMA ResumeFailsOK ==
  ASSUME Inv, NEW d \in Delegations, ResumeFails(d)
  PROVE  Inv'
<1> USE DEF Inv, StateOK
<1>1. /\ waiter' \in [d : Delegations \cup {None}, boundary : Nat \cup {None}]
      /\ call' \in [Delegations -> {"idle", "queued", "sent", "waiting", "over"}]
      /\ latest' \in [Delegations -> Events \cup {None}]
      /\ call'[d] = "over"
      /\ \A e \in Delegations \ {d} : call'[e] = call[e]
  BY LeaveOK DEF ResumeFails
<1>2. \E s \in {"uncertain", "failed"} : row' = Updated(d, s, None, None, None)
  BY DEF ResumeFails
<1>3. /\ row' \in [Delegations -> Rows] /\ HasTop' /\ \A e \in Delegations : RowOK(e)'
      /\ chain' \in Seq(Jobs) /\ ChainOK'
  <2>1. PICK s \in {"uncertain", "failed"} : row' = Updated(d, s, None, None, None)
    BY <1>2
  <2>2. s \in Final \cup {"accepted"} /\ s # "accepted"
    BY <2>1 DEF Final
  <2>3. Sending(d, "queued") /\ Done
    BY DEF ResumeFails
  <2> QED
    BY <1>1, <2>1, <2>2, <2>3, SendEndsOK
<1>4. DelegationsTypeOK'
  <2>1. mem' \in Memories
    BY DEF ResumeFails, DelegationsTypeOK, Memories
  <2>2. record' \in [state : States, intent : {"active", "stopped"}]
    <3>1. \/ record' = record
          \/ \E s \in {"error", record.state} : record' = [state |-> s, intent |-> "active"]
      BY DEF ResumeFails
    <3> QED
      BY <3>1 DEF DelegationsTypeOK, States
  <2> QED
    BY <1>1, <1>3, <2>1, <2>2 DEF ResumeFails, DelegationsTypeOK
<1>5. AcksOK'
  BY DEF ResumeFails, AcksOK
<1> QED
  BY <1>3, <1>4, <1>5

LEMMA SendFailsOK ==
  ASSUME Inv, NEW d \in Delegations, SendFails(d)
  PROVE  Inv'
<1> USE DEF Inv, StateOK
<1>1. /\ waiter' \in [d : Delegations \cup {None}, boundary : Nat \cup {None}]
      /\ call' \in [Delegations -> {"idle", "queued", "sent", "waiting", "over"}]
      /\ latest' \in [Delegations -> Events \cup {None}]
      /\ call'[d] = "over"
      /\ \A e \in Delegations \ {d} : call'[e] = call[e]
  BY LeaveOK DEF SendFails
<1>2. /\ row' \in [Delegations -> Rows] /\ HasTop' /\ \A e \in Delegations : RowOK(e)'
      /\ chain' \in Seq(Jobs) /\ ChainOK'
  BY <1>1, SendEndsOK DEF SendFails, Final
<1>3. wire' \in Wires /\ AcksOK'
  <2> DEFINE acks == {a \in wire.acks : a.d # d}
  <2>1. /\ wire \in Wires
        /\ wire' = [wire EXCEPT !.requests = @ \ {d}, !.acks = acks]
    BY DEF SendFails, DelegationsTypeOK
  <2>2. wire.requests \ {d} \in SUBSET Delegations
    BY <2>1 DEF Wires
  <2>3. acks \in SUBSET [d : Delegations, control : Delegations \cup {None}] /\ acks \subseteq wire.acks
    BY <2>1 DEF Wires
  <2> HIDE DEF acks
  <2>4. wire' \in Wires /\ wire'.acks = acks
    BY <2>1, <2>2, <2>3 DEF Wires
  <2> QED
    BY <2>3, <2>4 DEF AcksOK
<1>4. DelegationsTypeOK'
  BY <1>1, <1>2, <1>3 DEF SendFails, DelegationsTypeOK
<1> QED
  BY <1>2, <1>3, <1>4

LEMMA SendThrowsOK ==
  ASSUME Inv, NEW d \in Delegations, SendThrows(d)
  PROVE  Inv'
<1> USE DEF Inv, StateOK
<1>1. /\ chain \in Seq(Jobs) /\ chain # <<>> /\ Done
      /\ call' = [call EXCEPT ![d] = "over"]
      /\ call' \in [Delegations -> {"idle", "queued", "sent", "waiting", "over"}]
      /\ \A e \in Delegations : call'[e] = call[e] \/ call'[e] = "over"
  BY SendingOK DEF SendThrows, DelegationsTypeOK
<1>2. chain' \in Seq(Jobs) /\ ChainOK'
  BY <1>1, DoneOK
<1>3. left' \in Budgets
  <2>1. Spent \in Budgets
    BY SpentOK DEF SendThrows, Fault
  <2> QED
    BY <2>1 DEF SendThrows, Budgets
<1>4. DelegationsTypeOK'
  BY <1>1, <1>2, <1>3 DEF SendThrows, DelegationsTypeOK
<1>5. HasTop' /\ \A e \in Delegations : RowOK(e)'
  BY <1>1, SameRows DEF SendThrows
<1>6. AcksOK'
  BY DEF SendThrows, AcksOK
<1> QED
  BY <1>2, <1>4, <1>5, <1>6

(* The claim of a dispatch and the operation of its acknowledgement bind it.  *)
LEMMA AcknowledgedOK ==
  ASSUME Inv, NEW d \in Delegations, Acknowledged(d)
  PROVE  Inv'
<1> USE DEF Inv, StateOK
<1>1. PICK ack \in wire.acks :
        /\ ack.d = d
        /\ LET claim == Head(chain).claim
               early == /\ mem.recent # None
                        /\ mem.recent.control = ack.control
                        /\ ack.control = None => mem.recent.version = claim
               bound == IF early THEN Updated(d, mem.recent.status, claim, ack.control, mem.recent)
                                 ELSE Updated(d, "accepted", claim, ack.control, None)
           IN  /\ row' = bound
               /\ IF row[d].waits /\ bound[d].status = "accepted"
                    THEN /\ call' = [call EXCEPT ![d] = "waiting"]
                         /\ waiter' = [waiter EXCEPT !.boundary = claim]
                         /\ UNCHANGED latest
                    ELSE Leave(d)
        /\ wire' = [wire EXCEPT !.acks = @ \ {ack}]
  BY DEF Acknowledged
<1> DEFINE claim == Head(chain).claim
<1>2. claim \in Nat \cup {None} /\ Sending(d, "sent") /\ Done
  <2>1. chain \in Seq(Jobs) /\ Sending(d, "sent") /\ Done
    BY DEF Acknowledged, DelegationsTypeOK
  <2> QED
    BY <2>1, SendingOK
<1>3. ack \in [d : Delegations, control : Delegations \cup {None}]
  BY DEF DelegationsTypeOK, Wires
<1>4. mem.recent \in Events \cup {None}
  BY DEF DelegationsTypeOK, Memories
<1>c. ack.control # None => claim = None
  <2>1. chain \in Seq(Jobs)
    BY DEF DelegationsTypeOK
  <2>2. Sends(1) /\ chain[1] = Head(chain) /\ chain[1].d = d
    BY <1>2, <2>1, SendingOK
  <2>3. SendOK(1)
    BY <2>2 DEF ChainOK, Sends
  <2> QED
    BY <1>1, <2>2, <2>3 DEF SendOK, AcksOK
<1>5. /\ waiter' \in [d : Delegations \cup {None}, boundary : Nat \cup {None}]
      /\ call' \in [Delegations -> {"idle", "queued", "sent", "waiting", "over"}]
      /\ latest' \in [Delegations -> Events \cup {None}]
      /\ call'[d] \in {"waiting", "over"}
      /\ \A e \in Delegations \ {d} : call'[e] = call[e]
  <2>1. CASE Leave(d)
    BY <2>1, LeaveOK
  <2>2. CASE /\ call' = [call EXCEPT ![d] = "waiting"]
             /\ waiter' = [waiter EXCEPT !.boundary = claim]
             /\ UNCHANGED latest
    BY <1>2, <2>2 DEF DelegationsTypeOK
  <2> QED
    BY <1>1, <2>1, <2>2
<1>6. /\ row' \in [Delegations -> Rows] /\ HasTop' /\ \A e \in Delegations : RowOK(e)'
      /\ chain' \in Seq(Jobs) /\ ChainOK'
  <2>1. CASE row' = Updated(d, "accepted", claim, ack.control, None)
    BY <1>2, <1>3, <1>c, <1>5, <2>1, SendEndsOK
  <2>2. CASE mem.recent # None /\ row' = Updated(d, mem.recent.status, claim, ack.control, mem.recent)
    <3>1. mem.recent.status \in Final /\ mem.recent.status # "accepted"
      BY <1>4, <2>2 DEF Events, Final
    <3> QED
      BY <1>2, <1>3, <1>c, <1>4, <1>5, <2>2, <3>1, SendEndsOK
  <2> QED
    BY <1>1, <2>1, <2>2
<1>7. wire' \in Wires /\ AcksOK'
  <2>1. wire \in Wires /\ wire' = [wire EXCEPT !.acks = wire.acks \ {ack}]
    BY <1>1 DEF DelegationsTypeOK
  <2>2. wire.acks \ {ack} \in SUBSET [d : Delegations, control : Delegations \cup {None}]
    BY <2>1 DEF Wires
  <2>3. wire' \in Wires /\ wire'.acks = wire.acks \ {ack}
    BY <2>1, <2>2 DEF Wires
  <2> QED
    BY <2>3 DEF AcksOK
<1>8. DelegationsTypeOK'
  BY <1>5, <1>6, <1>7 DEF Acknowledged, DelegationsTypeOK
<1> QED
  BY <1>6, <1>7, <1>8

LEMMA LeavingOK ==
  ASSUME Inv, NEW d \in Delegations, call[d] = "waiting", Leave(d), told' \subseteq Events,
         UNCHANGED <<row, record, mem, report, chain, child, wire, pushed, left>>
  PROVE  Inv'
<1> USE DEF Inv, StateOK
<1>1. /\ waiter' \in [d : Delegations \cup {None}, boundary : Nat \cup {None}]
      /\ call' \in [Delegations -> {"idle", "queued", "sent", "waiting", "over"}]
      /\ latest' \in [Delegations -> Events \cup {None}]
      /\ call'[d] = "over"
      /\ \A e \in Delegations \ {d} : call'[e] = call[e]
  BY LeaveOK
<1>2. HasTop' /\ \A e \in Delegations : RowOK(e)'
  BY <1>1, SameRows
<1>3. ChainOK'
  <2>1. \A i \in 1..Len(chain) : Sends(i) => chain[i].d \in Delegations
    BY DEF Sends, DelegationsTypeOK, Jobs
  <2> QED
    BY <1>1, <2>1 DEF ChainOK, Sends, SendOK
<1>4. DelegationsTypeOK' /\ AcksOK'
  BY <1>1 DEF DelegationsTypeOK, AcksOK
<1> QED
  BY <1>2, <1>3, <1>4

LEMMA WakeOK == ASSUME Inv, NEW d \in Delegations, Wake(d) PROVE Inv'
<1>1. row[d].answer \in Events \cup {None} /\ told \subseteq Events
  BY DEF Inv, DelegationsTypeOK, Rows
<1> QED
  BY <1>1, LeavingOK DEF Wake, Answered

LEMMA CancelOK == ASSUME Inv, NEW d \in Delegations, Cancel(d) PROVE Inv'
<1>1. told \subseteq Events
  BY DEF Inv, DelegationsTypeOK
<1> QED
  BY <1>1, LeavingOK DEF Cancel
-----------------------------------------------------------------------------
(* The child, and what the parent hears.                                     *)
LEMMA WireOK ==
  ASSUME wire \in Wires, NEW requests \in SUBSET Delegations,
         NEW acks \in SUBSET [d : Delegations, control : Delegations \cup {None}],
         NEW events \in Seq(WireEvents), NEW exited \in BOOLEAN,
         wire' = [requests |-> requests, acks |-> acks, events |-> events, exited |-> exited]
  PROVE  wire' \in Wires
BY DEF Wires

LEMMA WireShape ==
  ASSUME wire \in Wires
  PROVE  /\ wire.requests \in SUBSET Delegations
         /\ wire.acks \in SUBSET [d : Delegations, control : Delegations \cup {None}]
         /\ wire.events \in Seq(WireEvents) /\ wire.exited \in BOOLEAN
         /\ wire = [requests |-> wire.requests, acks |-> wire.acks,
                    events |-> wire.events, exited |-> wire.exited]
BY DEF Wires

LEMMA ParentSideOK ==
  ASSUME Inv, UNCHANGED parentSide, wire' \in Wires, AcksOK', child' \in Children, left' \in Budgets
  PROVE  Inv'
<1> USE DEF Inv, StateOK
<1>1. UNCHANGED <<row, record, mem, waiter, report, chain, call, latest, pushed, told>>
  BY DEF parentSide
<1>2. HasTop' /\ \A d \in Delegations : RowOK(d)'
  BY <1>1, SameRows
<1>3. ChainOK'
  BY <1>1, SameChain
<1>4. DelegationsTypeOK'
  BY <1>1 DEF DelegationsTypeOK
<1> QED
  BY <1>2, <1>3, <1>4

LEMMA StartTurnOK ==
  ASSUME DelegationsTypeOK, StartTurn
  PROVE  child' \in Children
<1>1. child \in Children
  BY DEF DelegationsTypeOK
<1>2. child.turn + 1 \in Nat /\ {} \in SUBSET Delegations
  BY <1>1 DEF Children
<1>3. child' = [child EXCEPT !.turn = child.turn + 1, !.busy = TRUE, !.compaction = None, !.held = {}]
  BY DEF StartTurn
<1> QED
  BY <1>1, <1>2, <1>3 DEF Children

LEMMA AckOK ==
  ASSUME wire \in Wires, AcksOK, NEW d \in Delegations, NEW c \in Delegations \cup {None},
         d \in Compactions <=> c # None
  PROVE  /\ Ack(d, c) \in Wires
         /\ Ack(d, c).events = wire.events
         /\ \A ack \in Ack(d, c).acks : ack.d \in Compactions <=> ack.control # None
<1> DEFINE acks == wire.acks \cup {[d |-> d, control |-> c]}
<1>1. /\ wire.requests \ {d} \in SUBSET Delegations
      /\ acks \in SUBSET [d : Delegations, control : Delegations \cup {None}]
  BY WireShape
<1>2. \A ack \in acks : ack.d \in Compactions <=> ack.control # None
  BY DEF AcksOK
<1>3. Ack(d, c) = [wire EXCEPT !.requests = wire.requests \ {d}, !.acks = acks]
  BY DEF Ack
<1> HIDE DEF acks
<1>4. Ack(d, c) \in Wires /\ Ack(d, c).events = wire.events /\ Ack(d, c).acks = acks
  BY <1>1, <1>3 DEF Wires
<1> QED
  BY <1>2, <1>4

LEMMA EmitOK ==
  ASSUME NEW w \in Wires, NEW event \in WireEvents
  PROVE  /\ Emit(w, event) \in Wires
         /\ Emit(w, event).acks = w.acks
<1>1. w.events \in Seq(WireEvents)
  BY DEF Wires
<1>2. Append(w.events, event) \in Seq(WireEvents)
  BY <1>1
<1> QED
  BY <1>2 DEF Emit, Wires

LEMMA AcceptOK == ASSUME Inv, NEW d \in Delegations, Accept(d) PROVE Inv'
<1>1. /\ wire \in Wires /\ AcksOK /\ UNCHANGED parentSide /\ left' \in Budgets
      /\ child \in Children /\ DelegationsTypeOK
  BY DEF Inv, StateOK, DelegationsTypeOK, Accept
<1>2. \A c \in Delegations \cup {None} :
        (d \in Compactions <=> c # None) /\ wire' = Ack(d, c) => wire' \in Wires /\ AcksOK'
  BY <1>1, AckOK DEF AcksOK
<1>3. wire' \in Wires /\ AcksOK' /\ child' \in Children
  <2>1. CASE d \in Compactions
    <3> DEFINE control == IF child.compaction = None THEN d ELSE child.compaction
    <3>1. control \in Delegations /\ control # None
      BY <1>1, NoneFacts DEF Children
    <3>2. child' = [child EXCEPT !.compaction = control] /\ wire' = Ack(d, control)
      BY <2>1 DEF Accept
    <3>3. child' \in Children
      BY <1>1, <3>1, <3>2 DEF Children
    <3> QED
      BY <1>2, <2>1, <3>1, <3>2, <3>3
  <2>2. CASE d \notin Compactions /\ child.compaction # None
    <3>1. child' = [child EXCEPT !.held = @ \cup {d}] /\ wire' = Ack(d, None)
      BY <2>2 DEF Accept
    <3>2. child.held \cup {d} \in SUBSET Delegations
      BY <1>1 DEF Children
    <3>3. child' \in Children
      BY <1>1, <3>1, <3>2 DEF Children
    <3> QED
      BY <1>2, <2>2, <3>1, <3>3
  <2>3. CASE d \notin Compactions /\ child.compaction = None /\ child.busy
    BY <1>1, <1>2, <2>3 DEF Accept
  <2>4. CASE d \notin Compactions /\ child.compaction = None /\ ~child.busy
    <3>1. StartTurn /\ wire' = Emit(Ack(d, None), [type |-> "start"])
      BY <2>4 DEF Accept
    <3>2. /\ Ack(d, None) \in Wires
          /\ \A ack \in Ack(d, None).acks : ack.d \in Compactions <=> ack.control # None
      BY <1>1, <2>4, AckOK
    <3>3. [type |-> "start"] \in WireEvents
      BY DEF WireEvents
    <3>4. wire' \in Wires /\ wire'.acks = Ack(d, None).acks
      BY <3>1, <3>2, <3>3, EmitOK
    <3> QED
      BY <1>1, <3>1, <3>2, <3>4, StartTurnOK DEF AcksOK
  <2> QED
    BY <2>1, <2>2, <2>3, <2>4
<1> QED
  BY <1>1, <1>3, ParentSideOK

LEMMA EmittedOK ==
  ASSUME Inv, NEW event \in WireEvents, wire' = Emit(wire, event)
  PROVE  wire' \in Wires /\ AcksOK'
<1>1. wire \in Wires /\ AcksOK
  BY DEF Inv, StateOK, DelegationsTypeOK
<1> QED
  BY <1>1, EmitOK DEF AcksOK

LEMMA EndTurnOK == ASSUME Inv, NEW outcome \in Outcomes, EndTurn(outcome) PROVE Inv'
<1>1. [type |-> "settled", outcome |-> outcome] \in WireEvents
  BY DEF WireEvents
<1>2. wire' \in Wires /\ AcksOK'
  BY <1>1, EmittedOK DEF EndTurn
<1>3. child' \in Children
  BY DEF Inv, EndTurn, DelegationsTypeOK, Children
<1>4. left' \in Budgets /\ UNCHANGED parentSide
  BY DEF Inv, EndTurn, DelegationsTypeOK
<1> QED
  BY <1>2, <1>3, <1>4, ParentSideOK

LEMMA AskOK == ASSUME Inv, NEW status \in {"blocked", "failed"}, Ask(status) PROVE Inv'
<1>1. [type |-> "report", status |-> status, control |-> None, text |-> left.asks] \in WireEvents
  BY DEF WireEvents, Inv, DelegationsTypeOK, Budgets
<1>2. wire' \in Wires /\ AcksOK'
  BY <1>1, EmittedOK DEF Ask
<1>3. left' \in Budgets
  <2>1. left \in Budgets /\ left' = [left EXCEPT !.asks = left.asks - 1] /\ left.asks > 0
    BY DEF Inv, Ask, DelegationsTypeOK
  <2>2. left.asks - 1 \in Nat
    BY <2>1 DEF Budgets
  <2> QED
    BY <2>1, <2>2 DEF Budgets
<1>4. child' \in Children /\ UNCHANGED parentSide
  BY DEF Inv, Ask, DelegationsTypeOK
<1> QED
  BY <1>2, <1>3, <1>4, ParentSideOK

LEMMA CompactionEndsOK ==
  ASSUME Inv, NEW status \in {"completed", "blocked"}, CompactionEnds(status)
  PROVE  Inv'
<1> DEFINE event == [type |-> "report", status |-> status, control |-> child.compaction,
                    text |-> 0]
           reported == Emit(wire, event)
<1>1. wire \in Wires /\ AcksOK /\ child \in Children /\ DelegationsTypeOK
  BY DEF Inv, StateOK, DelegationsTypeOK
<1>2. event \in WireEvents /\ [type |-> "start"] \in WireEvents
  BY <1>1 DEF WireEvents, Children
<1>3. reported \in Wires /\ reported.acks = wire.acks
  BY <1>1, <1>2, EmitOK
<1>4. \/ child' = [child EXCEPT !.compaction = None, !.held = {}] /\ wire' = reported
      \/ StartTurn /\ wire' = Emit(reported, [type |-> "start"])
  BY DEF CompactionEnds
<1> HIDE DEF reported
<1>5. wire' \in Wires /\ wire'.acks = wire.acks
  BY <1>2, <1>3, <1>4, EmitOK
<1>6. child' \in Children
  <2>1. CASE child' = [child EXCEPT !.compaction = None, !.held = {}]
    BY <1>1, <2>1 DEF Children
  <2>2. CASE StartTurn
    BY <1>1, <2>2, StartTurnOK
  <2> QED
    BY <1>4, <2>1, <2>2
<1>7. AcksOK'
  BY <1>1, <1>5 DEF AcksOK
<1>8. left' \in Budgets /\ UNCHANGED parentSide
  BY <1>1 DEF CompactionEnds, DelegationsTypeOK
<1> QED
  BY <1>5, <1>6, <1>7, <1>8, ParentSideOK

LEMMA DeadOK == ASSUME child \in Children PROVE Dead \in Children
BY DEF Dead, Children

LEMMA ChildDiesOK == ASSUME Inv, ChildDies PROVE Inv'
<1>1. wire' \in Wires /\ AcksOK'
  BY DEF Inv, StateOK, ChildDies, DelegationsTypeOK, Wires, AcksOK
<1>2. child' \in Children
  BY DeadOK DEF Inv, ChildDies, DelegationsTypeOK
<1>3. left' \in Budgets
  BY SpentOK DEF Inv, ChildDies, Fault
<1> QED
  BY <1>1, <1>2, <1>3, ParentSideOK DEF ChildDies

(* Steps that leave rows, calls and acknowledgements alone.                  *)
LEMMA QuietOK ==
  ASSUME Inv, UNCHANGED <<row, call>>, wire'.acks = wire.acks, ChainOK', DelegationsTypeOK'
  PROVE  Inv'
<1>1. HasTop' /\ \A d \in Delegations : RowOK(d)'
  BY SameRows DEF Inv, StateOK
<1>2. AcksOK'
  BY DEF Inv, StateOK, AcksOK
<1> QED
  BY <1>1, <1>2 DEF Inv, StateOK

LEMMA EnqueuedOK ==
  ASSUME Inv, NEW job \in Jobs, job.op # "send", Enqueue(job), UNCHANGED call
  PROVE  chain' \in Seq(Jobs) /\ ChainOK'
<1>1. chain \in Seq(Jobs) /\ ChainOK
  BY DEF Inv, StateOK, DelegationsTypeOK
<1> QED
  BY <1>1, EnqueueOK

LEMMA RanOK ==
  ASSUME Inv, chain # <<>>, Done, UNCHANGED call
  PROVE  chain' \in Seq(Jobs) /\ ChainOK'
<1>1. chain \in Seq(Jobs) /\ ChainOK
  BY DEF Inv, StateOK, DelegationsTypeOK
<1> QED
  BY <1>1, DoneOK

LEMMA HearingOK ==
  ASSUME wire \in Wires, NEW type, Hearing(type)
  PROVE  /\ Head(wire.events) \in WireEvents /\ Head(wire.events).type = type
         /\ wire.events \in Seq(WireEvents) /\ wire.events # <<>>
BY DEF Wires, Hearing

LEMMA NextEventOK ==
  ASSUME wire \in Wires, wire.events # <<>>, NextEvent
  PROVE  wire' \in Wires /\ wire'.acks = wire.acks
<1>1. Tail(wire.events) \in Seq(WireEvents)
  BY DEF Wires
<1> QED
  BY <1>1 DEF NextEvent, Wires

LEMMA HearStartOK == ASSUME Inv, HearStart PROVE Inv'
<1>1. wire \in Wires /\ mem \in Memories /\ mem.version + 1 \in Nat
  BY DEF Inv, DelegationsTypeOK, Memories
<1>2. wire' \in Wires /\ wire'.acks = wire.acks
  BY <1>1, HearingOK, NextEventOK DEF HearStart
<1>3. chain' \in Seq(Jobs) /\ ChainOK'
  <2> DEFINE job == [op |-> "observe", type |-> "start", version |-> mem.version + 1,
                     outcome |-> "running"]
  <2>1. job \in Jobs /\ job.op # "send"
    BY <1>1 DEF Jobs, States
  <2>2. Enqueue(job) /\ UNCHANGED call
    BY DEF HearStart
  <2> QED
    BY <2>1, <2>2, EnqueuedOK
<1>4. mem' \in Memories /\ report' \in ReportStates
  BY <1>1, BumpedOK DEF Inv, HearStart, Memories
<1>5. DelegationsTypeOK'
  BY <1>2, <1>3, <1>4 DEF Inv, HearStart, DelegationsTypeOK
<1> QED
  BY <1>2, <1>3, <1>5, QuietOK DEF HearStart

LEMMA HearSettledOK == ASSUME Inv, HearSettled PROVE Inv'
<1>1. wire \in Wires /\ mem.version \in Nat
  BY DEF Inv, DelegationsTypeOK, Memories
<1>2. wire' \in Wires /\ wire'.acks = wire.acks
  BY <1>1, HearingOK, NextEventOK DEF HearSettled
<1>3. chain' \in Seq(Jobs) /\ ChainOK'
  <2> DEFINE job == [op |-> "observe", type |-> "settled", version |-> mem.version,
                     outcome |-> Head(wire.events).outcome]
  <2>1. Head(wire.events) \in WireEvents /\ Head(wire.events).type = "settled"
    BY <1>1, HearingOK DEF HearSettled
  <2>2. Head(wire.events).outcome \in States
    BY <2>1, DelegationsAssumption DEF WireEvents, States
  <2>3. job \in Jobs /\ job.op # "send"
    BY <1>1, <2>2 DEF Jobs
  <2>4. Enqueue(job) /\ UNCHANGED call
    BY DEF HearSettled
  <2> QED
    BY <2>3, <2>4, EnqueuedOK
<1>4. report' \in ReportStates
  BY BumpedOK DEF Inv, HearSettled
<1>5. DelegationsTypeOK'
  BY <1>2, <1>3, <1>4 DEF Inv, HearSettled, DelegationsTypeOK
<1> QED
  BY <1>2, <1>3, <1>5, QuietOK DEF HearSettled

LEMMA HearExitOK == ASSUME Inv, HearExit PROVE Inv'
<1>1. wire' \in Wires /\ wire'.acks = wire.acks
  BY DEF Inv, HearExit, DelegationsTypeOK, Wires
<1>2. chain' \in Seq(Jobs) /\ ChainOK'
  <2>1. [op |-> "ended"] \in Jobs /\ [op |-> "ended"].op # "send"
    BY DEF Jobs
  <2>2. Enqueue([op |-> "ended"]) /\ UNCHANGED call
    BY DEF HearExit
  <2> QED
    BY <2>1, <2>2, EnqueuedOK
<1>3. report' \in ReportStates
  BY BumpedOK DEF Inv, HearExit
<1>4. DelegationsTypeOK'
  BY <1>1, <1>2, <1>3 DEF Inv, HearExit, DelegationsTypeOK
<1> QED
  BY <1>1, <1>2, <1>4, QuietOK DEF HearExit

LEMMA HearStaleOK == ASSUME Inv, HearStale PROVE Inv'
<1>1. wire \in Wires
  BY DEF Inv, DelegationsTypeOK
<1>2. wire' \in Wires /\ wire'.acks = wire.acks
  BY <1>1, HearingOK, NextEventOK DEF HearStale
<1>3. ChainOK'
  BY SameChain DEF HearStale, Inv, StateOK
<1>4. DelegationsTypeOK'
  BY <1>2 DEF Inv, HearStale, DelegationsTypeOK
<1> QED
  BY <1>2, <1>3, <1>4, QuietOK DEF HearStale

-----------------------------------------------------------------------------
(* Settlements, and the operations of the chain.                             *)
LEMMA SettledRowsOK ==
  ASSUME Inv, NEW event \in Events, row' = Settled(event), UNCHANGED call
  PROVE  row' \in [Delegations -> Rows] /\ HasTop' /\ \A d \in Delegations : RowOK(d)'
<1>1. row \in [Delegations -> Rows] /\ event.status \in Final
  BY DEF Inv, DelegationsTypeOK, Events
<1>2. /\ row' \in [Delegations -> Rows]
      /\ \A d \in Delegations :
           row'[d] = IF d \in SettledBy(event) THEN EndsWith(row[d], event.status, event) ELSE row[d]
  BY <1>1, SettledOK
<1>3. SettledBy(event) \subseteq OpenRows
  BY DEF SettledBy
<1>4. HasTop' /\ \A d \in Delegations : RowOK(d)'
  BY <1>1, <1>2, <1>3, RowsEndOK DEF Inv, StateOK
<1> QED
  BY <1>2, <1>4

LEMMA DeliversOK ==
  ASSUME Inv, NEW event \in Events, NEW ok \in Delivers, Settle(event, ok)
  PROVE  /\ row' = Settled(event)
         /\ pushed' \subseteq Events
         /\ left' \in Budgets /\ left'.thrown = left.thrown
<1>1. DelegationsTypeOK /\ left \in Budgets /\ pushed \subseteq Events
  BY DEF Inv, DelegationsTypeOK
<1>2. ok \/ left.faults > 0
  BY DEF Delivers, Fault
<1>3. pushed' = pushed \/ pushed' = pushed \cup {event}
  BY DEF Settle
<1>4. \/ left' = left
      \/ \E b \in BOOLEAN : left' = [left EXCEPT !.late = b]
      \/ ~ok /\ left' = [Spent EXCEPT !.undelivered = TRUE]
  <2>1. (left.late \/ AnsweredWaiter) \in BOOLEAN
    BY <1>1 DEF Budgets, AnsweredWaiter
  <2>2. \/ left' = [left EXCEPT !.late = left.late \/ AnsweredWaiter]
        \/ left' = left
        \/ ~ok /\ left' = [Spent EXCEPT !.undelivered = TRUE]
    BY DEF Settle
  <2> QED
    BY <2>1, <2>2
<1>5. left' \in Budgets /\ left'.thrown = left.thrown
  <2>1. CASE left' = left \/ \E b \in BOOLEAN : left' = [left EXCEPT !.late = b]
    BY <1>1, <2>1 DEF Budgets
  <2>2. CASE ~ok /\ left' = [Spent EXCEPT !.undelivered = TRUE]
    <3>1. Spent \in Budgets /\ Spent.thrown = left.thrown
      BY <1>1, <1>2, <2>2, SpentOK
    <3> QED
      BY <2>2, <3>1 DEF Budgets
  <2> QED
    BY <1>4, <2>1, <2>2
<1> QED
  BY <1>1, <1>3, <1>5 DEF Settle

LEMMA UpdateNextOK ==
  ASSUME wire \in Wires, wire.events # <<>>, Head(wire.events).type = "report",
         wire' = [wire EXCEPT !.events[1].type = "update"]
  PROVE  wire' \in Wires /\ wire'.acks = wire.acks
<1> DEFINE e == Head(wire.events)
           u == [type |-> "update", status |-> e.status, control |-> e.control, text |-> e.text]
<1>1. wire.events \in Seq(WireEvents) /\ e = wire.events[1] /\ e \in WireEvents
      /\ 1 \in 1..Len(wire.events)
  BY DEF Wires
<1>2. e \in [type : {"report", "update"}, status : {"completed", "blocked", "failed"},
            control : Delegations \cup {None}, text : Nat]
  BY <1>1 DEF WireEvents
<1>3. u \in WireEvents
  BY <1>2 DEF WireEvents
<1>4. ASSUME NEW r, r = [wire.events[1] EXCEPT !.type = "update"] PROVE r = u
  BY <1>1, <1>2, <1>4
<1>5. wire' = [wire EXCEPT !.events = [wire.events EXCEPT ![1] = [wire.events[1] EXCEPT !.type = "update"]]]
  OBVIOUS
<1>6. wire' = [wire EXCEPT !.events = [wire.events EXCEPT ![1] = u]]
  BY <1>4, <1>5
<1> HIDE DEF u
<1>7. [wire.events EXCEPT ![1] = u] \in Seq(WireEvents)
  BY <1>1, <1>3
<1> QED
  BY <1>6, <1>7 DEF Wires

LEMMA ReportSettlesOK == ASSUME Inv, ReportSettles PROVE Inv'
<1> DEFINE e == Head(wire.events)
           event == IF e.control = None
                      THEN Settlement(mem.version, None, e.status, "child", e.text)
                      ELSE Settlement(None, e.control, e.status, "child", e.text)
<1>1. DelegationsTypeOK /\ wire \in Wires /\ mem \in Memories
  BY DEF Inv, DelegationsTypeOK
<1>2. e \in WireEvents /\ e.type = "report" /\ wire.events # <<>>
  BY <1>1, HearingOK DEF ReportSettles
<1>3. event \in Events
  <2>1. e.status \in Final /\ e.control \in Delegations \cup {None} /\ e.text \in Nat
    BY <1>2 DEF WireEvents, Final
  <2>2. mem.version \in Nat
    BY <1>1 DEF Memories
  <2>3. CASE e.control = None
    BY <2>1, <2>2, <2>3 DEF Settlement, Events
  <2>4. CASE e.control # None
    BY <2>1, <2>4, SettlementOK
  <2> QED
    BY <2>3, <2>4
<1> HIDE DEF event
<1>4. PICK ok \in Delivers :
        /\ Settle(event, ok)
        /\ IF ok \/ ClaimedByWaiter(SettledBy(event))
             THEN wire' = [wire EXCEPT !.events[1].type = "update"]
             ELSE NextEvent
  BY DEF ReportSettles, event
<1>5. mem' = [mem EXCEPT !.recent = event]
  BY DEF ReportSettles, event
<1>6. mem' \in Memories
  BY <1>1, <1>3, <1>5 DEF Memories
<1>7. row' = Settled(event) /\ pushed' \subseteq Events /\ left' \in Budgets
  BY <1>3, <1>4, DeliversOK
<1>8. wire' \in Wires /\ wire'.acks = wire.acks
  BY <1>1, <1>2, <1>4, NextEventOK, UpdateNextOK
<1>9. row' \in [Delegations -> Rows] /\ HasTop' /\ \A d \in Delegations : RowOK(d)'
  BY <1>3, <1>7, SettledRowsOK DEF ReportSettles
<1>10. ChainOK'
  BY SameChain DEF ReportSettles, Inv, StateOK
<1>11. DelegationsTypeOK'
  BY <1>1, <1>6, <1>7, <1>8, <1>9 DEF ReportSettles, DelegationsTypeOK
<1>12. AcksOK'
  BY <1>8 DEF Inv, StateOK, AcksOK
<1> QED
  BY <1>9, <1>10, <1>11, <1>12 DEF Inv, StateOK

LEMMA ReportTellsOK == ASSUME Inv, ReportTells PROVE Inv'
<1>1. DelegationsTypeOK /\ wire \in Wires /\ left \in Budgets
  BY DEF Inv, DelegationsTypeOK
<1>2. wire.events # <<>> /\ Head(wire.events).type = "report"
  BY DEF ReportTells, Hearing
<1>3. PICK ok \in Delivers :
        IF ok THEN wire' = [wire EXCEPT !.events[1].type = "update"] /\ UNCHANGED left
              ELSE NextEvent /\ left' = Spent
  BY DEF ReportTells
<1>4. wire' \in Wires /\ wire'.acks = wire.acks
  BY <1>1, <1>2, <1>3, NextEventOK, UpdateNextOK
<1>5. left' \in Budgets
  <2>1. ok \/ left.faults > 0
    BY DEF Delivers, Fault
  <2> QED
    BY <1>1, <1>3, <2>1, SpentOK
<1>6. ChainOK'
  BY SameChain DEF ReportTells, Inv, StateOK
<1>7. DelegationsTypeOK'
  BY <1>1, <1>4, <1>5 DEF ReportTells, DelegationsTypeOK
<1> QED
  BY <1>4, <1>6, <1>7, QuietOK DEF ReportTells

LEMMA ReportUpdatesOK == ASSUME Inv, ReportUpdates PROVE Inv'
<1>1. wire \in Wires /\ DelegationsTypeOK
  BY DEF Inv, DelegationsTypeOK
<1>2. wire' \in Wires /\ wire'.acks = wire.acks
  BY <1>1, HearingOK, NextEventOK DEF ReportUpdates
<1>3. mem' \in Memories
  <2>1. mem' = mem \/ mem' = [mem EXCEPT !.working = FALSE]
    BY DEF ReportUpdates
  <2> QED
    BY <1>1, <2>1 DEF DelegationsTypeOK, Memories
<1>4. record' \in [state : States, intent : {"active", "stopped"}]
  <2>1. \/ record' = [state |-> "error", intent |-> "stopped"]
        \/ record' = [record EXCEPT !.state = "blocked"]
        \/ record' = [record EXCEPT !.state = "done"]
    BY DEF ReportUpdates
  <2> QED
    BY <1>1, <2>1 DEF DelegationsTypeOK, States
<1>5. ChainOK'
  BY SameChain DEF ReportUpdates, Inv, StateOK
<1>6. DelegationsTypeOK'
  BY <1>1, <1>2, <1>3, <1>4 DEF ReportUpdates, DelegationsTypeOK
<1> QED
  BY <1>2, <1>5, <1>6, QuietOK DEF ReportUpdates

LEMMA ObserveOK == ASSUME Inv, Observe PROVE Inv'
<1> DEFINE job == Head(chain)
<1>1. DelegationsTypeOK /\ mem \in Memories
  BY DEF Inv, DelegationsTypeOK
<1>2. chain # <<>> /\ job \in Jobs /\ job.op = "observe"
  BY <1>1 DEF Observe, Running, DelegationsTypeOK
<1>3. job.outcome \in States
  BY <1>2 DEF Jobs
<1>4. record' \in [state : States, intent : {"active", "stopped"}]
  <2>1. record' = record \/ record' = [record EXCEPT !.state = job.outcome]
    BY DEF Observe
  <2> QED
    BY <1>1, <1>3, <2>1 DEF DelegationsTypeOK
<1>5. mem' \in Memories
  <2>1. \/ mem' = mem
        \/ mem' = [mem EXCEPT !.working = FALSE, !.armed = TRUE]
        \/ mem' = [mem EXCEPT !.working = TRUE]
    BY DEF Observe
  <2> QED
    BY <1>1, <2>1 DEF Memories
<1>6. chain' \in Seq(Jobs) /\ ChainOK'
  BY <1>2, RanOK DEF Observe
<1>7. DelegationsTypeOK'
  BY <1>1, <1>4, <1>5, <1>6 DEF Observe, DelegationsTypeOK
<1> QED
  BY <1>6, <1>7, QuietOK DEF Observe

LEMMA ReportFiresOK == ASSUME Inv, ReportFires PROVE Inv'
<1>1. DelegationsTypeOK /\ mem \in Memories
  BY DEF Inv, DelegationsTypeOK
<1>2. mem' \in Memories
  BY <1>1 DEF ReportFires, Memories
<1>3. report' \in ReportStates
  BY <1>1 DEF ReportFires, NoReport, ReportStates, DelegationsTypeOK, Memories, States
<1>4. ChainOK'
  BY SameChain DEF ReportFires, Inv, StateOK
<1>5. DelegationsTypeOK'
  BY <1>1, <1>2, <1>3 DEF ReportFires, DelegationsTypeOK
<1> QED
  BY <1>4, <1>5, QuietOK DEF ReportFires

LEMMA ReportReadsOK == ASSUME Inv, ReportReads PROVE Inv'
<1>1. DelegationsTypeOK /\ child.said \in Nat
  BY DEF Inv, DelegationsTypeOK, Children
<1>2. report' \in ReportStates
  BY <1>1 DEF ReportReads, ReportStates, DelegationsTypeOK
<1>3. left' \in Budgets
  BY <1>1, SpentOK DEF ReportReads, Fault, DelegationsTypeOK
<1>4. chain' \in Seq(Jobs) /\ ChainOK'
  <2>1. [op |-> "report"] \in Jobs /\ [op |-> "report"].op # "send"
    BY DEF Jobs
  <2>2. Enqueue([op |-> "report"]) /\ UNCHANGED call
    BY DEF ReportReads
  <2> QED
    BY <2>1, <2>2, EnqueuedOK
<1>5. DelegationsTypeOK'
  BY <1>1, <1>2, <1>3, <1>4 DEF ReportReads, DelegationsTypeOK
<1> QED
  BY <1>4, <1>5, QuietOK DEF ReportReads

LEMMA ReportEventOK ==
  ASSUME DelegationsTypeOK
  PROVE  /\ ReportEvent \in Events
         /\ ReportEvent.control = None /\ ReportEvent.version = report.version
<1>1. report.version \in Nat /\ report.text \in Nat /\ 0 \in Nat
  BY DEF DelegationsTypeOK, ReportStates
<1>2. ReportStatus \in Final /\ "failed" \in Final
  BY DEF ReportStatus, Final
<1> DEFINE unanswered == Settlement(report.version, None, "failed", "none", 0)
           answered == Settlement(report.version, None, ReportStatus, "turn", report.text)
<1>3. /\ unanswered \in Events /\ unanswered.control = None
      /\ unanswered.version = report.version
  BY <1>1, <1>2 DEF Settlement, Events
<1>4. answered \in Events /\ answered.control = None /\ answered.version = report.version
  BY <1>1, <1>2 DEF Settlement, Events
<1>5. ReportEvent = unanswered \/ ReportEvent = answered
  BY DEF ReportEvent
<1> QED
  BY <1>3, <1>4, <1>5

(* What a report does to rows, memory and delivery.                          *)
LEMMA RunReportCases ==
  ASSUME RunReport
  PROVE  \/ /\ mem' = [mem EXCEPT !.armed = mem.armed \/ Quiet]
            /\ UNCHANGED <<row, record, pushed, left>>
         \/ UNCHANGED <<row, record, mem, pushed, left>>
         \/ /\ \E state \in {"error", "blocked", "done"} : record' = [record EXCEPT !.state = state]
            /\ \/ /\ row' = Settled(ReportEvent)
                  /\ mem' = [mem EXCEPT !.recent = ReportEvent]
                  /\ UNCHANGED <<pushed, left>>
               \/ \E ok \in Delivers :
                    /\ Settle(ReportEvent, ok)
                    /\ \/ mem' = [mem EXCEPT !.recent = ReportEvent, !.last = ReportEvent]
                       \/ mem' = [mem EXCEPT !.recent = ReportEvent]
BY DEF RunReport

LEMMA RunReportOK == ASSUME Inv, RunReport PROVE Inv'
<1>1. /\ DelegationsTypeOK /\ mem \in Memories /\ left \in Budgets
      /\ pushed \subseteq Events /\ row \in [Delegations -> Rows]
      /\ record \in [state : States, intent : {"active", "stopped"}]
      /\ HasTop /\ \A d \in Delegations : RowOK(d)
  BY DEF Inv, StateOK, DelegationsTypeOK
<1>2. ReportEvent \in Events
  BY <1>1, ReportEventOK
<1>3. UNCHANGED <<waiter, call, child, wire, latest, told>> /\ report' = NoReport
  BY DEF RunReport
<1>4. /\ row' \in [Delegations -> Rows] /\ HasTop' /\ \A d \in Delegations : RowOK(d)'
      /\ record' \in [state : States, intent : {"active", "stopped"}]
      /\ mem' \in Memories /\ pushed' \subseteq Events /\ left' \in Budgets
  <2>1. CASE /\ mem' = [mem EXCEPT !.armed = mem.armed \/ Quiet]
             /\ UNCHANGED <<row, record, pushed, left>>
    <3>1. mem' \in Memories
      BY <1>1, <2>1 DEF Memories, Quiet
    <3> QED
      BY <1>1, <1>3, <2>1, <3>1, SameRows
  <2>2. CASE UNCHANGED <<row, record, mem, pushed, left>>
    BY <1>1, <1>3, <2>2, SameRows
  <2>3. CASE /\ \E state \in {"error", "blocked", "done"} : record' = [record EXCEPT !.state = state]
             /\ \/ /\ row' = Settled(ReportEvent)
                   /\ mem' = [mem EXCEPT !.recent = ReportEvent]
                   /\ UNCHANGED <<pushed, left>>
                \/ \E ok \in Delivers :
                     /\ Settle(ReportEvent, ok)
                     /\ \/ mem' = [mem EXCEPT !.recent = ReportEvent, !.last = ReportEvent]
                        \/ mem' = [mem EXCEPT !.recent = ReportEvent]
    <3>1. row' = Settled(ReportEvent) /\ pushed' \subseteq Events /\ left' \in Budgets
      BY <1>1, <1>2, <2>3, DeliversOK
    <3>2. mem' \in Memories
      BY <1>1, <1>2, <2>3 DEF Memories
    <3>3. record' \in [state : States, intent : {"active", "stopped"}]
      BY <1>1, <2>3 DEF States
    <3>4. row' \in [Delegations -> Rows] /\ HasTop' /\ \A d \in Delegations : RowOK(d)'
      BY <1>2, <1>3, <3>1, SettledRowsOK
    <3> QED
      BY <3>1, <3>2, <3>3, <3>4
  <2> QED
    BY <2>1, <2>2, <2>3, RunReportCases
<1>5. chain' \in Seq(Jobs) /\ ChainOK'
  BY <1>3, RanOK DEF RunReport, Running
<1>6. NoReport \in ReportStates
  BY DEF NoReport, ReportStates, States
<1>7. DelegationsTypeOK'
  BY <1>1, <1>3, <1>4, <1>5, <1>6 DEF DelegationsTypeOK
<1>8. AcksOK'
  BY <1>3 DEF Inv, StateOK, AcksOK
<1> QED
  BY <1>4, <1>5, <1>7, <1>8 DEF Inv, StateOK

LEMMA StopCallOK == ASSUME Inv, StopCall PROVE Inv'
<1>1. left' \in Budgets
  BY SpentOK DEF Inv, StopCall, Fault
<1>2. chain' \in Seq(Jobs) /\ ChainOK'
  <2>1. [op |-> "stop"] \in Jobs /\ [op |-> "stop"].op # "send"
    BY DEF Jobs
  <2>2. Enqueue([op |-> "stop"]) /\ UNCHANGED call
    BY DEF StopCall
  <2> QED
    BY <2>1, <2>2, EnqueuedOK
<1>3. DelegationsTypeOK'
  BY <1>1, <1>2 DEF Inv, StopCall, DelegationsTypeOK
<1> QED
  BY <1>2, <1>3, QuietOK DEF StopCall

(* The first part of a stop, and a stop of a process that is gone.           *)
StopKept ==
  /\ record' = [record EXCEPT !.intent = "stopped"]
  /\ UNCHANGED <<row, mem, report, child, wire>>
StopGone ==
  /\ record' = [state |-> "done", intent |-> "stopped"]
  /\ row' = Ended(OpenRows, "failed", None)
  /\ mem' = [mem EXCEPT !.projector = FALSE, !.owned = FALSE]
  /\ report' = Bumped
  /\ child' = Dead
  /\ wire' = [wire EXCEPT !.events = Outdated({"report"}), !.exited = @ \/ child.up]

LEMMA RunStopOK == ASSUME Inv, RunStop PROVE Inv'
<1>1. /\ DelegationsTypeOK /\ mem \in Memories /\ wire \in Wires /\ child \in Children
      /\ row \in [Delegations -> Rows] /\ report \in ReportStates
      /\ record \in [state : States, intent : {"active", "stopped"}]
      /\ HasTop /\ \A d \in Delegations : RowOK(d)
  BY DEF Inv, StateOK, DelegationsTypeOK
<1>2. UNCHANGED <<waiter, call, latest, pushed, told, left>> /\ (StopKept \/ StopGone)
  BY DEF RunStop, StopKept, StopGone
<1>3. /\ row' \in [Delegations -> Rows] /\ HasTop' /\ \A d \in Delegations : RowOK(d)'
      /\ record' \in [state : States, intent : {"active", "stopped"}]
      /\ mem' \in Memories /\ report' \in ReportStates /\ child' \in Children
      /\ wire' \in Wires /\ wire'.acks = wire.acks
  <2>1. CASE StopKept
    BY <1>1, <1>2, <2>1, SameRows DEF StopKept
  <2>2. CASE StopGone
    <3>1. record' \in [state : States, intent : {"active", "stopped"}]
      BY <2>2 DEF StopGone, States
    <3>2. mem' \in Memories
      BY <1>1, <2>2 DEF StopGone, Memories
    <3>3. report' \in ReportStates /\ child' \in Children
      BY <1>1, <2>2, BumpedOK, DeadOK DEF StopGone
    <3>4. wire' \in Wires /\ wire'.acks = wire.acks
      <4>1. Outdated({"report"}) \in Seq(WireEvents) /\ (wire.exited \/ child.up) \in BOOLEAN
        BY <1>1, OutdatedOK
      <4>2. wire' = [wire EXCEPT !.events = Outdated({"report"}), !.exited = wire.exited \/ child.up]
        BY <2>2 DEF StopGone
      <4> QED
        BY <1>1, <4>1, <4>2 DEF Wires
    <3>5. /\ row' \in [Delegations -> Rows]
          /\ \A d \in Delegations :
               row'[d] = IF d \in OpenRows THEN EndsWith(row[d], "failed", None) ELSE row[d]
      <4>1. row' = Ended(OpenRows, "failed", None) /\ "failed" \in Final
        BY <2>2 DEF StopGone, Final
      <4> QED
        BY <1>1, <4>1, EndedOK
    <3>6. HasTop' /\ \A d \in Delegations : RowOK(d)'
      <4>1. "failed" \in Final /\ OpenRows \subseteq OpenRows
        BY DEF Final
      <4> QED
        BY <1>1, <1>2, <3>5, <4>1, RowsEndOK
    <3> QED
      BY <3>1, <3>2, <3>3, <3>4, <3>5, <3>6
  <2> QED
    BY <1>2, <2>1, <2>2
<1>4. chain' \in Seq(Jobs) /\ ChainOK'
  BY <1>2, RanOK DEF RunStop, Running
<1>5. DelegationsTypeOK'
  BY <1>1, <1>2, <1>3, <1>4 DEF DelegationsTypeOK
<1>6. AcksOK'
  BY <1>3 DEF Inv, StateOK, AcksOK
<1> QED
  BY <1>3, <1>4, <1>5, <1>6 DEF Inv, StateOK

LEMMA RunEndedOK == ASSUME Inv, RunEnded PROVE Inv'
<1>1. DelegationsTypeOK /\ mem \in Memories /\ wire \in Wires
  BY DEF Inv, DelegationsTypeOK
<1>2. record' \in [state : States, intent : {"active", "stopped"}]
  <2>1. record' = record \/ record' = [record EXCEPT !.state = "done"]
        \/ record' = [record EXCEPT !.state = "blocked"]
    BY DEF RunEnded
  <2> QED
    BY <1>1, <2>1 DEF DelegationsTypeOK, States
<1>3. mem' \in Memories
  BY <1>1 DEF RunEnded, Memories
<1>4. wire' \in Wires /\ wire'.acks = wire.acks
  <2>1. wire' = wire \/ wire' = [wire EXCEPT !.events = Outdated({"report"})]
    BY DEF RunEnded
  <2>2. Outdated({"report"}) \in Seq(WireEvents)
    BY <1>1, OutdatedOK
  <2> QED
    BY <1>1, <2>1, <2>2 DEF Wires
<1>5. chain' \in Seq(Jobs) /\ ChainOK'
  BY RanOK DEF RunEnded, Running
<1>6. DelegationsTypeOK'
  BY <1>1, <1>2, <1>3, <1>4, <1>5 DEF RunEnded, DelegationsTypeOK
<1> QED
  BY <1>4, <1>5, <1>6, QuietOK DEF RunEnded

(* The rows after a new parent took over: some ended, none changed otherwise. *)
RowsAreSwept ==
  \A d \in Delegations :
    \/ row'[d] = row[d]
    \/ /\ row[d].status \in Open
       /\ \E s \in Final : \E a \in {None, row[d].answer} : row'[d] = EndsWith(row[d], s, a)

LEMMA SweptOK ==
  ASSUME Inv, NEW survives \in BOOLEAN, Restart(survives)
  PROVE  row' \in [Delegations -> Rows] /\ RowsAreSwept
<1> DEFINE ds == SweptDispatches \cup SweptControls
           swept == Ended(ds, "uncertain", None)
           gone == ~survives /\ record.state = "running" /\ record.intent = "active"
<1>1. row \in [Delegations -> Rows] /\ "uncertain" \in Final /\ "failed" \in Final
  BY DEF Inv, DelegationsTypeOK, Final
<1>2. row' = [d \in Delegations |->
                IF gone /\ swept[d].status \in Open
                  THEN [swept[d] EXCEPT !.status = "failed"] ELSE swept[d]]
  BY DEF Restart
<1>3. ASSUME NEW d \in Delegations
      PROVE  swept[d] \in Rows /\ swept[d] = IF d \in ds THEN EndsWith(row[d], "uncertain", None) ELSE row[d]
  <2>1. row[d] \in Rows
    BY <1>1
  <2>2. ASSUME NEW r, r = [row[d] EXCEPT !.status = "uncertain", !.answer = None]
        PROVE  r = EndsWith(row[d], "uncertain", None)
    BY <2>1, <2>2 DEF EndsWith, Rows
  <2>3. EndsWith(row[d], "uncertain", None) \in Rows
    BY <2>1 DEF Rows, EndsWith, Final
  <2>4. swept[d] = IF d \in ds THEN [row[d] EXCEPT !.status = "uncertain", !.answer = None] ELSE row[d]
    BY DEF Ended
  <2> QED
    BY <2>1, <2>2, <2>3, <2>4
<1>4. ds \subseteq OpenRows
  BY DEF SweptDispatches, SweptControls, OpenRows, Open
<1> HIDE DEF ds, swept, gone
<1>5. ASSUME NEW d \in Delegations
      PROVE  /\ row'[d] \in Rows
             /\ \/ row'[d] = row[d]
                \/ /\ row[d].status \in Open
                   /\ \E s \in Final : \E a \in {None, row[d].answer} : row'[d] = EndsWith(row[d], s, a)
  <2>1. CASE d \in ds
    <3>1. swept[d] = EndsWith(row[d], "uncertain", None) /\ row[d].status \in Open
      BY <1>3, <1>4, <2>1 DEF OpenRows
    <3>2. swept[d].status \notin Open
      BY <3>1 DEF EndsWith, Open
    <3>3. row'[d] = swept[d]
      BY <1>2, <3>2
    <3> QED
      BY <1>1, <1>3, <3>1, <3>3
  <2>2. CASE d \notin ds
    <3>1. swept[d] = row[d] /\ row[d] \in Rows
      BY <1>3, <2>2
    <3>2. row'[d] = row[d] \/ (row[d].status \in Open /\ row'[d] = [row[d] EXCEPT !.status = "failed"])
      BY <1>2, <3>1
    <3>3. ASSUME NEW r, r = [row[d] EXCEPT !.status = "failed"]
          PROVE  r = EndsWith(row[d], "failed", row[d].answer)
      BY <3>1, <3>3 DEF EndsWith, Rows
    <3>4. EndsWith(row[d], "failed", row[d].answer) \in Rows
      BY <3>1 DEF EndsWith, Rows, Final
    <3> QED
      BY <1>1, <3>1, <3>2, <3>3, <3>4
  <2> QED
    BY <2>1, <2>2
<1> QED
  BY <1>2, <1>5 DEF RowsAreSwept

LEMMA RestartOK ==
  ASSUME Inv, NEW survives \in BOOLEAN, Restart(survives)
  PROVE  Inv'
<1>1. /\ DelegationsTypeOK /\ wire \in Wires /\ child \in Children
      /\ HasTop /\ \A d \in Delegations : RowOK(d)
  BY DEF Inv, StateOK, DelegationsTypeOK
<1>2. row' \in [Delegations -> Rows] /\ RowsAreSwept
  BY SweptOK
<1>3. HasTop'
  <2>1. \A d \in Delegations : row'[d].boundary = row[d].boundary
    BY <1>2 DEF RowsAreSwept, EndsWith
  <2> QED
    BY <1>1, <2>1, SameBoundaries
<1>4. /\ call' = [d \in Delegations |-> IF call[d] = "idle" THEN "idle" ELSE "over"]
      /\ waiter' = NoWaiter /\ report' = NoReport /\ chain' = <<>>
      /\ latest' = [d \in Delegations |-> None] /\ pushed' = {} /\ told' = {}
  BY DEF Restart
<1>5. ASSUME NEW d \in Delegations PROVE RowOK(d)'
  <2>1. CASE row'[d] = row[d]
    BY <1>1, <1>4, <2>1 DEF RowOK, Bound
  <2>2. CASE row'[d] # row[d]
    <3>1. /\ row[d].status \in Open /\ row'[d].status \in Final
          /\ row'[d].control = row[d].control /\ row'[d].boundary = row[d].boundary
      BY <1>2, <2>2 DEF RowsAreSwept, EndsWith
    <3>2. call[d] # "idle"
      BY <1>1, <3>1 DEF RowOK, NoRow, Open
    <3> QED
      BY <1>1, <1>4, <3>1, <3>2 DEF RowOK, Final, Open
  <2> QED
    BY <2>1, <2>2
<1>6. wire' \in Wires /\ AcksOK'
  <2>1. PICK kept \in SUBSET wire.requests :
          wire' = [requests |-> kept, acks |-> {}, exited |-> FALSE,
                   events |-> IF survives THEN wire.events ELSE Outdated({"report", "update"})]
    BY DEF Restart
  <2>2. wire.events \in Seq(WireEvents) /\ Outdated({"report", "update"}) \in Seq(WireEvents)
        /\ kept \in SUBSET Delegations
    BY <1>1, OutdatedOK DEF Wires
  <2> QED
    BY <2>1, <2>2 DEF Wires, AcksOK
<1>7. mem' \in Memories
  <2>1. MaxRunBoundary \in Nat /\ 0 \in Nat
    BY <1>1, TopIsNat
  <2>2. \E v \in Nat, w \in BOOLEAN, p \in BOOLEAN :
          mem' = [FreshMemory EXCEPT !.version = v, !.working = w, !.projector = p]
    <3> DEFINE adopted == survives /\ record.intent = "active"
               gone == ~survives /\ record.state = "running" /\ record.intent = "active"
    <3>1. mem' = [FreshMemory EXCEPT !.version = IF adopted \/ gone THEN MaxRunBoundary ELSE 0,
                                     !.working = adopted /\ ~Idle, !.projector = adopted]
      BY DEF Restart
    <3>2. /\ (IF adopted \/ gone THEN MaxRunBoundary ELSE 0) \in Nat
          /\ (adopted /\ ~Idle) \in BOOLEAN /\ adopted \in BOOLEAN
      BY <2>1
    <3> QED
      BY <3>1, <3>2
  <2> QED
    BY <2>2 DEF FreshMemory, Memories
<1>8. record' \in [state : States, intent : {"active", "stopped"}]
  <2>1. \E state \in {"done", "running", "error", record.state} : record' = [record EXCEPT !.state = state]
    BY DEF Restart
  <2> QED
    BY <1>1, <2>1 DEF DelegationsTypeOK, States
<1>9. left' \in Budgets
  <2>1. Spent \in Budgets
    BY <1>1, SpentOK DEF Restart, Fault
  <2> QED
    BY <2>1 DEF Restart, Budgets
<1>10. child' \in Children
  BY <1>1, DeadOK DEF Restart
<1>11. chain' \in Seq(Jobs) /\ ChainOK'
  BY <1>4 DEF ChainOK
<1>12. DelegationsTypeOK'
  <2>1. report' \in ReportStates
    BY <1>4 DEF NoReport, ReportStates, States
  <2>2. /\ waiter' \in [d : Delegations \cup {None}, boundary : Nat \cup {None}]
        /\ call' \in [Delegations -> {"idle", "queued", "sent", "waiting", "over"}]
        /\ latest' \in [Delegations -> Events \cup {None}]
    BY <1>4 DEF NoWaiter
  <2> QED
    BY <1>2, <1>4, <1>6, <1>7, <1>8, <1>9, <1>10, <1>11, <2>1, <2>2 DEF DelegationsTypeOK
<1> QED
  BY <1>3, <1>5, <1>6, <1>11, <1>12 DEF Inv, StateOK
-----------------------------------------------------------------------------
LEMMA NextOK == Inv /\ [Next]_vars => Inv'
<1> SUFFICES ASSUME Inv, [Next]_vars PROVE Inv'
  OBVIOUS
<1>1. CASE Call
  BY <1>1, DelegateOK DEF Call
<1>2. CASE Chained
  BY <1>2, SendRequestOK, ResumeOK, ResumeFailsOK, SendDoubtedOK, SendFailsOK, AcknowledgedOK,
     ObserveOK, RunReportOK, RunStopOK, RunEndedOK DEF Chained, SendStep
<1>3. CASE Hears
  BY <1>3, HearStartOK, HearSettledOK, HearExitOK, HearStaleOK, ReportSettlesOK,
     ReportTellsOK, ReportUpdatesOK DEF Hears
<1>4. CASE Reports \/ Wakes \/ StopCall
  BY <1>4, ReportFiresOK, ReportReadsOK, WakeOK, StopCallOK DEF Reports, Wakes
<1>5. CASE ChildStep
  BY <1>5, AcceptOK, EndTurnOK, AskOK, CompactionEndsOK, ChildDiesOK DEF ChildStep
<1>6. CASE \E d \in Delegations : SendThrows(d) \/ Cancel(d)
  BY <1>6, SendThrowsOK, CancelOK
<1>7. CASE \E survives \in BOOLEAN : Restart(survives)
  BY <1>7, RestartOK
<1>8. CASE UNCHANGED vars
  <2>1. UNCHANGED <<row, record, mem, waiter, report, chain, call, child, wire, latest,
                    pushed, told, left>>
    BY <1>8 DEF vars
  <2>2. ChainOK' /\ DelegationsTypeOK'
    BY <2>1, SameChain DEF Inv, StateOK, DelegationsTypeOK
  <2> QED
    BY <2>1, <2>2, QuietOK
<1> QED
  BY <1>1, <1>2, <1>3, <1>4, <1>5, <1>6, <1>7, <1>8 DEF Next

LEMMA Inductive == Spec => []Inv
BY InitOK, NextOK, PTL DEF Spec

(* Every part of the state keeps its type, whatever fails or restarts, for    *)
(* any number of delegations (manager.ts, receipts.ts).                      *)
THEOREM DelegationsAreTyped == Spec => []DelegationsTypeOK
<1>1. Inv => DelegationsTypeOK
  BY DEF Inv
<1> QED
  BY <1>1, Inductive, PTL
-----------------------------------------------------------------------------
(* What one step does to one row: it is reserved, or its dispatch ends, or it  *)
(* ends with what it is bound to.                                            *)
RowEnds(d) ==
  /\ row[d].status \in Open
  /\ \E s \in Final, a \in Events \cup {None} :
       /\ row'[d] = EndsWith(row[d], s, a)
       /\ a # row[d].answer => AnswerOK(row'[d])

RowBinds(d) ==
  /\ row[d].status = "dispatching"
  /\ row'[d].status \in Final \cup {"accepted"}
  /\ row'[d].status = "accepted" => Bound(row'[d])
  /\ row'[d].waits = row[d].waits
  /\ AnswerOK(row'[d])

RowIsReserved(d) ==
  /\ row[d] = NoRow
  /\ row'[d].status = "dispatching" /\ ~Bound(row'[d]) /\ row'[d].answer = None

RowsEnd == \A d \in Delegations : row'[d] = row[d] \/ RowEnds(d)
RowsBind(d) ==
  /\ \A e \in Delegations \ {d} : row'[e] = row[e]
  /\ row'[d] = row[d] \/ RowBinds(d)

LEMMA SettledRowsEnd ==
  ASSUME DelegationsTypeOK, NEW event \in Events, row' = Settled(event)
  PROVE  RowsEnd
<1>1. row \in [Delegations -> Rows] /\ event.status \in Final
  BY DEF DelegationsTypeOK, Events
<1>2. \A d \in Delegations :
        row'[d] = IF d \in SettledBy(event) THEN EndsWith(row[d], event.status, event) ELSE row[d]
  BY <1>1, SettledOK
<1>3. ASSUME NEW d \in SettledBy(event) PROVE RowEnds(d)
  <2>1. /\ d \in Delegations /\ row[d].status \in Open
        /\ IF event.control = None
             THEN row[d].boundary = event.version /\ row[d].control = None
             ELSE row[d].control = event.control
    BY DEF SettledBy, OpenRows
  <2>2. row'[d] = EndsWith(row[d], event.status, event)
    BY <1>2, <2>1
  <2>3. AnswerOK(row'[d])
    BY <2>1, <2>2 DEF AnswerOK, EndsWith
  <2> QED
    BY <1>1, <2>1, <2>2, <2>3 DEF RowEnds
<1> QED
  BY <1>2, <1>3 DEF RowsEnd

LEMMA UpdatedRowBinds ==
  ASSUME DelegationsTypeOK, NEW d \in Delegations, NEW s \in Final \cup {"accepted"},
         NEW b \in Nat \cup {None}, NEW c \in Delegations \cup {None}, NEW a \in Events \cup {None},
         row' = Updated(d, s, b, c, a),
         s = "accepted" => b # None \/ c # None,
         a # None => IF c = None THEN a.control = None /\ a.version = b ELSE a.control = c
  PROVE  RowsBind(d)
<1>1. row \in [Delegations -> Rows]
  BY DEF DelegationsTypeOK
<1>2. /\ \A e \in Delegations \ {d} : row'[e] = row[e]
      /\ row[d].status # "dispatching" => row'[d] = row[d]
      /\ row[d].status = "dispatching" =>
           row'[d] = [status |-> s, waits |-> row[d].waits, boundary |-> b,
                      control |-> c, answer |-> a]
  BY <1>1, UpdatedOK
<1>3. row[d].status = "dispatching" => RowBinds(d)
  BY <1>2 DEF RowBinds, Bound, AnswerOK
<1> QED
  BY <1>2, <1>3 DEF RowsBind

LEMMA FailedRowBinds ==
  ASSUME DelegationsTypeOK, NEW d \in Delegations, NEW s \in {"failed", "uncertain"},
         row' = Updated(d, s, None, None, None)
  PROVE  RowsBind(d)
<1>1. s \in Final \cup {"accepted"} /\ s # "accepted"
  BY DEF Final
<1> QED
  BY <1>1, UpdatedRowBinds

LEMMA AcknowledgedRowBinds ==
  ASSUME Inv, NEW d \in Delegations, Acknowledged(d)
  PROVE  RowsBind(d)
<1>1. /\ DelegationsTypeOK /\ ChainOK /\ AcksOK /\ chain \in Seq(Jobs) /\ wire \in Wires
      /\ mem.recent \in Events \cup {None}
  BY DEF Inv, StateOK, DelegationsTypeOK, Memories
<1> DEFINE claim == Head(chain).claim
<1>2. PICK ack \in wire.acks :
        /\ ack.d = d
        /\ \/ /\ mem.recent # None /\ mem.recent.control = ack.control
              /\ ack.control = None => mem.recent.version = claim
              /\ row' = Updated(d, mem.recent.status, claim, ack.control, mem.recent)
           \/ row' = Updated(d, "accepted", claim, ack.control, None)
  BY DEF Acknowledged
<1>3. ack.control \in Delegations \cup {None}
  BY <1>1 DEF Wires
<1>4. claim \in Nat \cup {None} /\ (claim # None \/ ack.control # None)
  <2>1. Sending(d, "sent")
    BY DEF Acknowledged
  <2>2. /\ Sends(1) /\ chain[1] = Head(chain) /\ chain[1].d = d /\ call[d] = "sent"
        /\ chain[1].claim \in Nat \cup {None}
    BY <1>1, <2>1, SendingOK
  <2>3. SendOK(1)
    BY <1>1, <2>2 DEF ChainOK, Sends
  <2>4. d \in Compactions \/ claim # None
    BY <2>2, <2>3 DEF SendOK
  <2> QED
    BY <1>1, <1>2, <2>2, <2>4 DEF AcksOK
<1>5. CASE row' = Updated(d, "accepted", claim, ack.control, None)
  BY <1>1, <1>3, <1>4, <1>5, UpdatedRowBinds
<1>6. CASE /\ mem.recent # None /\ mem.recent.control = ack.control
           /\ ack.control = None => mem.recent.version = claim
           /\ row' = Updated(d, mem.recent.status, claim, ack.control, mem.recent)
  <2>1. mem.recent.status \in Final /\ mem.recent.status # "accepted"
    BY <1>1, <1>6 DEF Events, Final
  <2> QED
    BY <1>1, <1>3, <1>4, <1>6, <2>1, UpdatedRowBinds
<1> QED
  BY <1>2, <1>5, <1>6

LEMMA StoppedRowsEnd == ASSUME DelegationsTypeOK, RunStop PROVE RowsEnd
<1>1. row' = row \/ row' = Ended(OpenRows, "failed", None)
  BY DEF RunStop
<1>2. CASE row' = Ended(OpenRows, "failed", None)
  <2>1. row \in [Delegations -> Rows] /\ "failed" \in Final
    BY DEF DelegationsTypeOK, Final
  <2>2. \A d \in Delegations :
          row'[d] = IF d \in OpenRows THEN EndsWith(row[d], "failed", None) ELSE row[d]
    BY <1>2, <2>1, EndedOK
  <2>3. ASSUME NEW d \in OpenRows PROVE RowEnds(d)
    <3>1. d \in Delegations /\ row[d].status \in Open /\ row'[d] = EndsWith(row[d], "failed", None)
      BY <2>2, <2>3 DEF OpenRows
    <3>2. AnswerOK(row'[d])
      BY <3>1 DEF AnswerOK, EndsWith
    <3> QED
      BY <2>1, <3>1, <3>2 DEF RowEnds
  <2> QED
    BY <2>2, <2>3 DEF RowsEnd
<1> QED
  BY <1>1, <1>2 DEF RowsEnd

LEMMA SweptRowsEnd ==
  ASSUME Inv, NEW survives \in BOOLEAN, Restart(survives)
  PROVE  RowsEnd
<1>1. RowsAreSwept
  BY SweptOK
<1>2. ASSUME NEW d \in Delegations, row'[d] # row[d] PROVE RowEnds(d)
  <2>1. PICK s \in Final, a \in {None, row[d].answer} :
          row[d].status \in Open /\ row'[d] = EndsWith(row[d], s, a)
    BY <1>1, <1>2 DEF RowsAreSwept
  <2>2. a \in Events \cup {None}
    BY DEF Inv, DelegationsTypeOK, Rows
  <2>3. a # row[d].answer => AnswerOK(row'[d])
    BY <2>1 DEF AnswerOK, EndsWith
  <2> QED
    BY <2>1, <2>2, <2>3 DEF RowEnds
<1> QED
  BY <1>2 DEF RowsEnd

LEMMA RunReportRowsEnd == ASSUME DelegationsTypeOK, RunReport PROVE RowsEnd
<1>1. row' = row \/ row' = Settled(ReportEvent)
  BY RunReportCases DEF Settle
<1>2. ReportEvent \in Events
  BY ReportEventOK
<1> QED
  BY <1>1, <1>2, SettledRowsEnd DEF RowsEnd

LEMMA ReportSettlesRowsEnd == ASSUME DelegationsTypeOK, ReportSettles PROVE RowsEnd
<1>1. wire \in Wires /\ mem.version \in Nat
  BY DEF DelegationsTypeOK, Memories
<1> DEFINE e == Head(wire.events)
           event == IF e.control = None
                      THEN Settlement(mem.version, None, e.status, "child", e.text)
                      ELSE Settlement(None, e.control, e.status, "child", e.text)
<1>2. e \in WireEvents /\ e.type = "report"
  BY <1>1, HearingOK DEF ReportSettles
<1>3. event \in Events
  <2>1. e.status \in Final /\ e.control \in Delegations \cup {None} /\ e.text \in Nat
    BY <1>2 DEF WireEvents, Final
  <2>2. CASE e.control = None
    BY <1>1, <2>1, <2>2 DEF Settlement, Events
  <2>3. CASE e.control # None
    BY <2>1, <2>3, SettlementOK
  <2> QED
    BY <2>2, <2>3
<1>4. row' = Settled(event)
  BY DEF ReportSettles, Settle
<1> QED
  BY <1>3, <1>4, SettledRowsEnd

LEMMA DelegateReserves ==
  ASSUME Inv, NEW d \in Delegations, NEW waits \in BOOLEAN, Delegate(d, waits)
  PROVE  /\ RowIsReserved(d) /\ row'[d].waits = waits
         /\ \A e \in Delegations \ {d} : row'[e] = row[e]
<1>1. row \in [Delegations -> Rows] /\ row[d] = NoRow
  BY DEF Inv, StateOK, RowOK, DelegationsTypeOK, Delegate
<1>2. row' = [row EXCEPT ![d] = [NoRow EXCEPT !.status = "dispatching", !.waits = waits]]
  BY DEF Delegate, Reserved
<1>3. row'[d] = [NoRow EXCEPT !.status = "dispatching", !.waits = waits]
  BY <1>1, <1>2
<1> QED
  BY <1>1, <1>2, <1>3 DEF RowIsReserved, NoRow, Bound

RowSteps ==
  \/ RowsEnd
  \/ \E d \in Delegations : RowsBind(d)
  \/ \E d \in Delegations : RowIsReserved(d) /\ \A e \in Delegations \ {d} : row'[e] = row[e]

LEMMA RowStepsOK == Inv /\ [Next]_vars => RowSteps
<1> SUFFICES ASSUME Inv, [Next]_vars PROVE RowSteps
  OBVIOUS
<1>0. DelegationsTypeOK
  BY DEF Inv
<1>1. ASSUME row' = row PROVE RowsEnd
  BY <1>1 DEF RowsEnd
<1>2. CASE Call
  BY <1>2, DelegateReserves DEF Call, RowSteps
<1>3. CASE SendStep
  <2>1. PICK d \in Delegations :
          SendRequest(d) \/ Resume(d) \/ ResumeFails(d) \/ SendDoubted(d) \/ SendFails(d)
    BY <1>3 DEF SendStep
  <2>2. CASE SendRequest(d) \/ Resume(d)
    BY <1>1, <2>2 DEF SendRequest, Resume, Dispatch, RowSteps
  <2>3. CASE ResumeFails(d) \/ SendDoubted(d) \/ SendFails(d)
    <3>1. \E s \in {"failed", "uncertain"} : row' = Updated(d, s, None, None, None)
      BY <2>3 DEF ResumeFails, SendDoubted, SendFails
    <3> QED
      BY <1>0, <3>1, FailedRowBinds DEF RowSteps
  <2> QED
    BY <2>1, <2>2, <2>3
<1>4. CASE \E d \in Delegations : Acknowledged(d)
  BY <1>4, AcknowledgedRowBinds DEF RowSteps
<1>5. CASE RunReport \/ RunStop \/ ReportSettles
  BY <1>0, <1>5, RunReportRowsEnd, StoppedRowsEnd, ReportSettlesRowsEnd DEF RowSteps
<1>6. CASE Observe \/ RunEnded \/ Reports \/ StopCall
  BY <1>1, <1>6 DEF Observe, RunEnded, Reports, ReportFires, ReportReads, StopCall, RowSteps
<1>7. CASE HearStart \/ HearSettled \/ HearExit \/ HearStale \/ ReportTells \/ ReportUpdates
  BY <1>1, <1>7 DEF HearStart, HearSettled, HearExit, HearStale, ReportTells, ReportUpdates, RowSteps
<1>8. CASE Wakes \/ \E d \in Delegations : SendThrows(d) \/ Cancel(d)
  BY <1>1, <1>8 DEF Wakes, Wake, SendThrows, Cancel, RowSteps
<1>9. CASE ChildStep
  BY <1>1, <1>9 DEF ChildStep, Accept, EndTurn, Ask, CompactionEnds, ChildDies, parentSide, RowSteps
<1>10. CASE \E survives \in BOOLEAN : Restart(survives)
  BY <1>10, SweptRowsEnd DEF RowSteps
<1>11. CASE UNCHANGED vars
  BY <1>1, <1>11 DEF vars, RowSteps
<1> QED
  BY <1>2, <1>3, <1>4, <1>5, <1>6, <1>7, <1>8, <1>9, <1>10, <1>11 DEF Next, Chained, Hears

(* A delegation is only ever answered by the end of the turn or compaction it  *)
(* is bound to, in every order of events and after any restart (bindDispatch,  *)
(* settleReceipts).                                                         *)
THEOREM AnswersBelong == Spec => []AnswerIsOfItsTurn
<1>1. Init => AnswerIsOfItsTurn
  BY DEF Init, NoRow, AnswerIsOfItsTurn
<1>2. Inv /\ AnswerIsOfItsTurn /\ [Next]_vars => AnswerIsOfItsTurn'
  <2> SUFFICES ASSUME Inv, AnswerIsOfItsTurn, [Next]_vars, NEW d \in Delegations
               PROVE  AnswerOK(row'[d])
    BY DEF AnswerIsOfItsTurn, AnswerOK
  <2>1. AnswerOK(row[d])
    BY DEF AnswerIsOfItsTurn, AnswerOK
  <2>2. CASE row'[d] = row[d]
    BY <2>1, <2>2
  <2>3. CASE RowEnds(d)
    BY <2>1, <2>3 DEF RowEnds, AnswerOK, EndsWith
  <2>4. CASE RowBinds(d)
    BY <2>4 DEF RowBinds
  <2>5. CASE RowIsReserved(d)
    BY <2>5 DEF RowIsReserved, AnswerOK
  <2> QED
    BY <2>2, <2>3, <2>4, <2>5, RowStepsOK DEF RowSteps, RowsEnd, RowsBind
<1> QED
  BY <1>1, <1>2, Inductive, PTL DEF Spec

(* No step breaks the life of a row: bound at most once, accepted only when     *)
(* bound, and nothing of it changes after its end (receipts.ts).             *)
THEOREM RowsStayLawful == Spec => RowsAreLawful
<1>1. Inv /\ [Next]_vars =>
        [\A d \in Delegations : row'[d] # row[d] => Lawful(row[d], row'[d])]_row
  <2> SUFFICES ASSUME Inv, [Next]_vars, NEW d \in Delegations, row'[d] # row[d]
               PROVE  Lawful(row[d], row'[d])
    OBVIOUS
  <2>1. RowOK(d)
    BY DEF Inv, StateOK
  <2>2. CASE RowEnds(d)
    BY <2>2 DEF RowEnds, EndsWith, Lawful, Final, Open
  <2>3. CASE RowBinds(d)
    BY <2>1, <2>3 DEF RowBinds, RowOK, Lawful, Final, Open
  <2>4. CASE RowIsReserved(d)
    BY <2>4 DEF RowIsReserved, Lawful
  <2> QED
    BY <2>2, <2>3, <2>4, RowStepsOK DEF RowSteps, RowsEnd, RowsBind
<1> QED
  BY <1>1, Inductive, PTL DEF Spec, RowsAreLawful
-----------------------------------------------------------------------------
(* The slot of the child.                                                    *)
SlotRows ==
  \A d \in Delegations :
    /\ row'[d].waits = row[d].waits
    /\ call[d] = "waiting" => row'[d].boundary = row[d].boundary
    /\ row'[d].status = "accepted" => row[d].status = "accepted"

LEMMA RowsEndSlot == ASSUME RowsEnd PROVE SlotRows
<1>1. ASSUME NEW d \in Delegations, RowEnds(d)
      PROVE  /\ row'[d].waits = row[d].waits /\ row'[d].boundary = row[d].boundary
             /\ row'[d].status # "accepted"
  <2>1. PICK s \in Final, a \in Events \cup {None} : row'[d] = EndsWith(row[d], s, a)
    BY <1>1 DEF RowEnds
  <2> QED
    BY <2>1 DEF EndsWith, Final
<1> QED
  BY <1>1 DEF RowsEnd, SlotRows

LEMMA SlotKept ==
  ASSUME DelegationsTypeOK, SlotOK, SlotRows, UNCHANGED waiter,
         \/ UNCHANGED call
         \/ \E d \in Delegations : call[d] = "queued" /\ call' = [call EXCEPT ![d] = "sent"],
         left'.thrown = left.thrown
  PROVE  SlotOK'
<1>1. \A d \in Delegations : /\ call'[d] = "waiting" <=> call[d] = "waiting"
                             /\ call'[d] \in Active <=> call[d] \in Active
                             /\ call'[d] = "over" <=> call[d] = "over"
  BY DEF DelegationsTypeOK, Active
<1>2. waiter.d \in Delegations \cup {None}
  BY DEF DelegationsTypeOK
<1> QED
  BY <1>1, <1>2 DEF SlotOK, SlotRows

LEMMA SlotLeft ==
  ASSUME DelegationsTypeOK, SlotOK, NEW d \in Delegations, call[d] \in Active, Leave(d),
         \A e \in Delegations : row'[e].waits = row[e].waits,
         \A e \in Delegations \ {d} : row'[e] = row[e],
         left'.thrown = left.thrown
  PROVE  SlotOK'
<1>1. /\ call'[d] = "over" /\ \A e \in Delegations \ {d} : call'[e] = call[e]
      /\ waiter' = IF row[d].waits THEN NoWaiter ELSE waiter
  BY DEF Leave, DelegationsTypeOK
<1>2. call'[d] \notin Active /\ call'[d] # "waiting"
  BY <1>1 DEF Active
<1>3. waiter.d \in Delegations \cup {None}
  BY DEF DelegationsTypeOK
<1>4. CASE row[d].waits
  <2>1. waiter.d = d /\ waiter' = NoWaiter
    BY <1>1, <1>4 DEF SlotOK
  <2>2. \A e \in Delegations : ~(call'[e] \in Active /\ row'[e].waits)
    BY <1>1, <1>2, <2>1 DEF SlotOK
  <2>3. \A e \in Delegations : call'[e] # "waiting"
    BY <1>1, <1>2, <2>2 DEF SlotOK, Active
  <2> QED
    BY <2>1, <2>2, <2>3 DEF SlotOK, NoWaiter
<1>5. CASE ~row[d].waits
  <2>1. waiter' = waiter /\ waiter.d # d
    BY <1>1, <1>5, NoneFacts DEF SlotOK
  <2> QED
    BY <1>1, <1>2, <1>3, <2>1 DEF SlotOK
<1> QED
  BY <1>4, <1>5

LEMMA UpdatedSlot ==
  ASSUME DelegationsTypeOK, NEW d \in Delegations, NEW s \in Final \cup {"accepted"},
         NEW b \in Nat \cup {None}, NEW c \in Delegations \cup {None}, NEW a \in Events \cup {None},
         row' = Updated(d, s, b, c, a)
  PROVE  /\ \A e \in Delegations : row'[e].waits = row[e].waits
         /\ \A e \in Delegations \ {d} : row'[e] = row[e]
<1>1. row \in [Delegations -> Rows]
  BY DEF DelegationsTypeOK
<1> QED
  BY <1>1, UpdatedOK

LEMMA DelegateSlot ==
  ASSUME Inv, SlotOK, NEW d \in Delegations, NEW waits \in BOOLEAN, Delegate(d, waits)
  PROVE  SlotOK'
<1>1. /\ DelegationsTypeOK /\ call[d] = "idle" /\ UNCHANGED left
      /\ waits => waiter.d = None
      /\ waiter' = IF waits THEN [d |-> d, boundary |-> None] ELSE waiter
  BY DEF Inv, Delegate
<1>2. call'[d] = "queued" /\ \A e \in Delegations \ {d} : call'[e] = call[e]
  BY <1>1 DEF Delegate, DelegationsTypeOK
<1>3. row'[d].waits = waits /\ \A e \in Delegations \ {d} : row'[e] = row[e]
  BY DelegateReserves
<1>4. waiter.d \in Delegations \cup {None} /\ waiter.d # d
  BY <1>1, NoneFacts DEF SlotOK, Active, DelegationsTypeOK
<1>5. CASE waits
  <2>1. \A e \in Delegations : ~(call[e] \in Active /\ row[e].waits)
    BY <1>1, <1>5, NoneFacts DEF SlotOK
  <2>2. \A e \in Delegations : call'[e] # "waiting"
    BY <1>2, <2>1 DEF SlotOK, Active
  <2> QED
    BY <1>1, <1>2, <1>3, <1>5, <2>1, <2>2 DEF SlotOK, Active
<1>6. CASE ~waits
  BY <1>1, <1>2, <1>3, <1>4, <1>6 DEF SlotOK, Active
<1> QED
  BY <1>5, <1>6

LEMMA AcknowledgedSlot ==
  ASSUME Inv, SlotOK, NEW d \in Delegations, Acknowledged(d)
  PROVE  SlotOK'
<1>1. /\ DelegationsTypeOK /\ RowOK(d) /\ UNCHANGED left /\ chain \in Seq(Jobs)
      /\ mem.recent \in Events \cup {None} /\ wire \in Wires
  BY DEF Inv, StateOK, Acknowledged, DelegationsTypeOK, Memories
<1> DEFINE claim == Head(chain).claim
<1>2. call[d] = "sent" /\ claim \in Nat \cup {None}
  <2>1. Sending(d, "sent")
    BY DEF Acknowledged
  <2> QED
    BY <1>1, <2>1, SendingOK
<1>3. PICK ack \in wire.acks, s \in Final \cup {"accepted"}, a \in Events \cup {None} :
        /\ row' = Updated(d, s, claim, ack.control, a)
        /\ \/ /\ row[d].waits /\ row'[d].status = "accepted"
              /\ call' = [call EXCEPT ![d] = "waiting"]
              /\ waiter' = [waiter EXCEPT !.boundary = claim]
           \/ Leave(d)
  <2>1. mem.recent # None => mem.recent.status \in Final
    BY <1>1 DEF Events
  <2> QED
    BY <1>1, <2>1 DEF Acknowledged
<1>4. ack.control \in Delegations \cup {None}
  BY <1>1 DEF Wires
<1>5. /\ \A e \in Delegations : row'[e].waits = row[e].waits
      /\ \A e \in Delegations \ {d} : row'[e] = row[e]
  BY <1>1, <1>2, <1>3, <1>4, UpdatedSlot
<1>6. CASE Leave(d)
  BY <1>1, <1>2, <1>5, <1>6, SlotLeft DEF Active
<1>7. CASE /\ row[d].waits /\ row'[d].status = "accepted"
           /\ call' = [call EXCEPT ![d] = "waiting"]
           /\ waiter' = [waiter EXCEPT !.boundary = claim]
  <2>1. row[d].status # "accepted"
    BY <1>1, <1>2 DEF RowOK
  <2>2. row'[d].boundary = claim
    <3>1. row \in [Delegations -> Rows]
      BY <1>1 DEF DelegationsTypeOK
    <3>2. /\ row[d].status # "dispatching" => row'[d] = row[d]
          /\ row[d].status = "dispatching" =>
               row'[d] = [status |-> s, waits |-> row[d].waits, boundary |-> claim,
                          control |-> ack.control, answer |-> a]
      BY <1>2, <1>3, <1>4, <3>1, UpdatedOK
    <3> QED
      BY <1>7, <2>1, <3>2
  <2>3. waiter.d = d /\ call[d] \in Active
    BY <1>2, <1>7 DEF SlotOK, Active
  <2>4. waiter'.d = d /\ waiter'.boundary = claim
    BY <1>1, <1>7, <2>3 DEF DelegationsTypeOK
  <2>5. call'[d] = "waiting" /\ \A e \in Delegations \ {d} : call'[e] = call[e]
    BY <1>1, <1>7 DEF DelegationsTypeOK
  <2>6. \A e \in Delegations \ {d} : ~(call[e] \in Active /\ row[e].waits)
    BY <2>3 DEF SlotOK
  <2>7. \A e \in Delegations \ {d} : call[e] # "waiting"
    BY <2>6 DEF SlotOK, Active
  <2>8. row'[d].waits /\ row'[d].boundary = claim /\ call'[d] \in Active /\ d # None
    BY <1>5, <1>7, <2>2, <2>5, NoneFacts DEF Active
  <2>9. \A e \in Delegations : e # d => ~(call'[e] \in Active /\ row'[e].waits) /\ call'[e] # "waiting"
    BY <1>5, <2>5, <2>6, <2>7
  <2> HIDE DEF claim
  <2> QED
    BY <2>4, <2>5, <2>8, <2>9 DEF SlotOK
<1> QED
  BY <1>3, <1>6, <1>7

LEMMA SlotStep == Inv /\ SlotOK /\ [Next]_vars => SlotOK'
<1> SUFFICES ASSUME Inv, SlotOK, [Next]_vars PROVE SlotOK'
  OBVIOUS
<1>0. DelegationsTypeOK
  BY DEF Inv
<1>1. ASSUME row' = row PROVE RowsEnd
  BY <1>1 DEF RowsEnd
<1>2. ASSUME UNCHANGED <<row, waiter, call>>, left'.thrown = left.thrown PROVE SlotOK'
  BY <1>0, <1>1, <1>2, RowsEndSlot, SlotKept
<1>3. CASE Call
  BY <1>3, DelegateSlot DEF Call
<1>4. CASE SendStep
  <2>1. PICK d \in Delegations :
          SendRequest(d) \/ Resume(d) \/ ResumeFails(d) \/ SendDoubted(d) \/ SendFails(d)
    BY <1>4 DEF SendStep
  <2>2. CASE SendRequest(d) \/ Resume(d)
    <3>1. UNCHANGED <<row, waiter, left>> /\ call[d] = "queued" /\ call' = [call EXCEPT ![d] = "sent"]
      BY <2>2 DEF SendRequest, Resume, Dispatch, Sending
    <3> QED
      BY <1>0, <1>1, <3>1, RowsEndSlot, SlotKept
  <2>3. CASE ResumeFails(d) \/ SendDoubted(d) \/ SendFails(d)
    <3>1. /\ \E s \in {"failed", "uncertain"} : row' = Updated(d, s, None, None, None)
          /\ Leave(d) /\ UNCHANGED left /\ call[d] \in Active
      BY <2>3 DEF ResumeFails, SendDoubted, SendFails, Sending, Active
    <3>2. /\ \A e \in Delegations : row'[e].waits = row[e].waits
          /\ \A e \in Delegations \ {d} : row'[e] = row[e]
      <4>1. PICK s \in {"failed", "uncertain"} : row' = Updated(d, s, None, None, None)
        BY <3>1
      <4>2. s \in Final \cup {"accepted"}
        BY DEF Final
      <4> QED
        BY <1>0, <4>1, <4>2, UpdatedSlot
    <3> QED
      BY <1>0, <3>1, <3>2, SlotLeft
  <2> QED
    BY <2>1, <2>2, <2>3
<1>5. CASE \E d \in Delegations : Acknowledged(d)
  BY <1>5, AcknowledgedSlot
<1>6. CASE RunReport \/ RunStop \/ ReportSettles
  <2>1. RowsEnd
    BY <1>0, <1>6, RunReportRowsEnd, StoppedRowsEnd, ReportSettlesRowsEnd
  <2>2. UNCHANGED <<waiter, call>>
    BY <1>6 DEF RunReport, RunStop, ReportSettles
  <2>3. left'.thrown = left.thrown
    <3>1. CASE RunReport
      BY <1>0, <3>1, RunReportCases, ReportEventOK, DeliversOK
    <3>2. CASE RunStop
      BY <3>2 DEF RunStop
    <3>3. CASE ReportSettles
      <4>1. \/ left' = left
            \/ \E b : left' = [left EXCEPT !.late = b]
            \/ left.faults > 0 /\ left' = [Spent EXCEPT !.undelivered = TRUE]
        BY <3>3 DEF ReportSettles, Settle, Delivers, Fault
      <4>2. left.faults > 0 => Spent \in Budgets /\ Spent.thrown = left.thrown
        BY <1>0, SpentOK
      <4> QED
        BY <1>0, <4>1, <4>2 DEF DelegationsTypeOK, Budgets
    <3> QED
      BY <1>6, <3>1, <3>2, <3>3
  <2> QED
    BY <1>0, <2>1, <2>2, <2>3, RowsEndSlot, SlotKept
<1>7. CASE Observe \/ RunEnded \/ ReportFires
  BY <1>2, <1>7 DEF Observe, RunEnded, ReportFires
<1>8. CASE HearStart \/ HearSettled \/ HearExit \/ HearStale \/ ReportUpdates
  BY <1>2, <1>8 DEF HearStart, HearSettled, HearExit, HearStale, ReportUpdates
<1>9. CASE ReportTells \/ ReportReads \/ StopCall \/ ChildDies
  <2>1. UNCHANGED <<row, waiter, call>>
    BY <1>9 DEF ReportTells, ReportReads, StopCall, ChildDies, parentSide
  <2>2. left' = left \/ (left.faults > 0 /\ left' = Spent)
    BY <1>9 DEF ReportTells, ReportReads, StopCall, ChildDies, Delivers, Fault
  <2>3. left'.thrown = left.thrown
    BY <1>0, <2>2, SpentOK
  <2> QED
    BY <1>2, <2>1, <2>3
<1>10. CASE \E status \in {"blocked", "failed"} : Ask(status)
  <2>1. UNCHANGED <<row, waiter, call>> /\ left' = [left EXCEPT !.asks = left.asks - 1]
    BY <1>10 DEF Ask, parentSide
  <2>2. left'.thrown = left.thrown
    BY <1>0, <2>1 DEF DelegationsTypeOK, Budgets
  <2> QED
    BY <1>2, <2>1, <2>2
<1>11. CASE \/ \E d \in Delegations : Accept(d)
            \/ \E outcome \in Outcomes : EndTurn(outcome)
            \/ \E status \in {"completed", "blocked"} : CompactionEnds(status)
  BY <1>2, <1>11 DEF Accept, EndTurn, CompactionEnds, parentSide
<1>12. CASE Wakes \/ \E d \in Delegations : Cancel(d)
  <2>1. PICK d \in Delegations : call[d] = "waiting" /\ Leave(d) /\ UNCHANGED <<row, left>>
    BY <1>12 DEF Wakes, Wake, Answered, Cancel
  <2> QED
    BY <1>0, <2>1, SlotLeft DEF Active
<1>13. CASE \E d \in Delegations : SendThrows(d)
  <2>1. PICK d \in Delegations : SendThrows(d)
    BY <1>13
  <2>2. left.faults > 0 /\ left' = [Spent EXCEPT !.thrown = TRUE]
    BY <2>1 DEF SendThrows, Fault
  <2>3. left'.thrown
    BY <1>0, <2>2, SpentOK DEF Budgets
  <2>4. /\ UNCHANGED <<row, waiter>> /\ call[d] = "queued" /\ call'[d] = "over"
        /\ \A e \in Delegations \ {d} : call'[e] = call[e]
    BY <1>0, <2>1 DEF SendThrows, Sending, DelegationsTypeOK
  <2>5. row[d].status # "accepted"
    BY <2>4 DEF Inv, StateOK, RowOK
  <2>6. waiter.d \in Delegations \cup {None}
    BY <1>0 DEF DelegationsTypeOK
  <2> QED
    BY <2>3, <2>4, <2>5, <2>6, NoneFacts DEF SlotOK, Active
<1>14. CASE \E survives \in BOOLEAN : Restart(survives)
  <2>1. /\ call' = [d \in Delegations |-> IF call[d] = "idle" THEN "idle" ELSE "over"]
        /\ waiter' = NoWaiter
    BY <1>14 DEF Restart
  <2> QED
    BY <2>1 DEF SlotOK, Active, NoWaiter
<1>15. CASE UNCHANGED vars
  BY <1>2, <1>15 DEF vars
<1> QED
  BY <1>3, <1>4, <1>5, <1>6, <1>7, <1>8, <1>9, <1>10, <1>11, <1>12, <1>13, <1>14, <1>15
     DEF Next, Chained, Hears, Reports, ChildStep

(* The slot of a child is held by a call that has not ended, and every waiting  *)
(* call holds it with the number of its own turn, as long as the registry did  *)
(* not throw (#waiters, #bindDispatch, #claimedByWaiter).                    *)
THEOREM SlotStaysOwned == Spec => []SlotIsOwned
<1>1. Init => SlotOK
  BY DEF Init, SlotOK, Active, NoWaiter
<1>2. Inv /\ SlotOK => SlotIsOwned
  <2> SUFFICES ASSUME Inv, SlotOK, ~left.thrown
               PROVE  /\ waiter.d # None => row[waiter.d].waits
                                            /\ call[waiter.d] \in {"queued", "sent", "waiting"}
                      /\ \A d \in Delegations :
                           call[d] = "waiting" => waiter = [d |-> d, boundary |-> row[d].boundary]
    BY DEF SlotIsOwned
  <2>1. waiter \in [d : Delegations \cup {None}, boundary : Nat \cup {None}]
    BY DEF Inv, DelegationsTypeOK
  <2>2. waiter = [d |-> waiter.d, boundary |-> waiter.boundary]
    BY <2>1
  <2>3. \A d \in Delegations :
          call[d] = "waiting" => waiter.d = d /\ waiter.boundary = row[d].boundary
    BY DEF SlotOK, Active
  <2> QED
    BY <2>2, <2>3 DEF SlotOK, Active
<1> QED
  BY <1>1, <1>2, SlotStep, Inductive, PTL DEF Spec
-----------------------------------------------------------------------------
(* Who hears an answer. A call that waits is bound or answered; and an answer *)
(* that a row or the latest settlement holds was delivered, or is the one of  *)
(* a waiting call that is about to return.                                   *)
Excused == left.undelivered \/ left.restarted \/ left.late
Heard(e) ==
  \/ e = None \/ e.by = "none" \/ e \in pushed \cup told
  \/ \E w \in Delegations : call[w] = "waiting" /\ row[w].answer = e
WaitingOK ==
  \A d \in Delegations : call[d] = "waiting" => row[d].status \in Final \cup {"accepted"}
HeardOK == Excused \/ (Heard(mem.recent) /\ \A d \in Delegations : Heard(row[d].answer))

(* The answer of a row never changes.                                        *)
LEMMA AnswerStays ==
  ASSUME Inv, [Next]_vars, NEW d \in Delegations, row[d].answer # None
  PROVE  row'[d].answer = row[d].answer
<1>1. RowOK(d)
  BY DEF Inv, StateOK
<1>2. row[d].status \notin Open /\ row[d] # NoRow
  BY <1>1 DEF RowOK, NoRow
<1>3. ~RowEnds(d) /\ ~RowBinds(d) /\ ~RowIsReserved(d)
  BY <1>2 DEF RowEnds, RowBinds, RowIsReserved, Open
<1> QED
  BY <1>3, RowStepsOK DEF RowSteps, RowsEnd, RowsBind

(* A call begins to wait when its row is bound.                              *)
LEMMA WaitsWhenBound ==
  ASSUME Inv, [Next]_vars, NEW d \in Delegations, call'[d] = "waiting", call[d] # "waiting"
  PROVE  row'[d].status = "accepted"
<1>1. call \in [Delegations -> {"idle", "queued", "sent", "waiting", "over"}]
  BY DEF Inv, DelegationsTypeOK
<1>2. call' # call
  BY <1>1
<1>3. CASE \E e \in Delegations : Acknowledged(e)
  <2>1. PICK e \in Delegations :
          \/ row'[e].status = "accepted" /\ call' = [call EXCEPT ![e] = "waiting"]
          \/ Leave(e)
    BY <1>3 DEF Acknowledged
  <2> QED
    BY <1>1, <2>1 DEF Leave
<1>4. CASE Call
  BY <1>1, <1>4 DEF Call, Delegate
<1>5. CASE SendStep
  BY <1>1, <1>5 DEF SendStep, SendRequest, Resume, Dispatch, ResumeFails, SendDoubted, SendFails, Leave
<1>6. CASE Wakes \/ \E e \in Delegations : SendThrows(e) \/ Cancel(e)
  BY <1>1, <1>6 DEF Wakes, Wake, SendThrows, Cancel, Leave
<1>7. CASE \E survives \in BOOLEAN : Restart(survives)
  <2>1. call' = [e \in Delegations |-> IF call[e] = "idle" THEN "idle" ELSE "over"]
    BY <1>7 DEF Restart
  <2> QED
    BY <2>1
<1>8. CASE Observe \/ RunReport \/ RunStop \/ RunEnded \/ Hears \/ Reports \/ StopCall \/ ChildStep
           \/ UNCHANGED vars
  BY <1>2, <1>8 DEF Observe, RunReport, RunStop, RunEnded, Hears, HearStart, HearSettled, HearExit,
     HearStale, ReportSettles, ReportTells, ReportUpdates, Reports, ReportFires, ReportReads,
     StopCall, ChildStep, Accept, EndTurn, Ask, CompactionEnds, ChildDies, parentSide, vars
<1> QED
  BY <1>3, <1>4, <1>5, <1>6, <1>7, <1>8 DEF Next, Chained

LEMMA WaitingStep == ASSUME Inv, WaitingOK, [Next]_vars PROVE WaitingOK'
<1> SUFFICES ASSUME NEW d \in Delegations, call'[d] = "waiting"
             PROVE  row'[d].status \in Final \cup {"accepted"}
  BY DEF WaitingOK
<1>1. CASE call[d] # "waiting"
  BY <1>1, WaitsWhenBound
<1>2. CASE call[d] = "waiting"
  <2>1. row[d].status \in Final \cup {"accepted"} /\ row[d] # NoRow
    BY <1>2 DEF WaitingOK, NoRow, Final
  <2>2. ~RowIsReserved(d)
    BY <2>1 DEF RowIsReserved
  <2>3. RowEnds(d) => row'[d].status \in Final
    BY DEF RowEnds, EndsWith
  <2> QED
    BY <2>1, <2>2, <2>3, RowStepsOK DEF RowSteps, RowsEnd, RowsBind, RowBinds
<1> QED
  BY <1>1, <1>2

(* A settlement that a waiting call claims is its answer, unless it was       *)
(* answered before.                                                          *)
LEMMA ClaimedAnswers ==
  ASSUME Inv, SlotOK, WaitingOK, NEW event \in Events, event.control # None \/ event.version # None,
         row' = Settled(event), ClaimedByWaiter(SettledBy(event))
  PROVE  AnsweredWaiter \/ \E w \in Delegations : call[w] = "waiting" /\ row'[w].answer = event
<1>1. /\ row \in [Delegations -> Rows] /\ waiter.d \in Delegations \cup {None}
      /\ \A d \in Delegations : RowOK(d)
  BY DEF Inv, StateOK, DelegationsTypeOK
<1>2. ASSUME NEW d \in SettledBy(event)
      PROVE  d \in Delegations /\ row[d].status = "accepted" /\ row'[d].answer = event
  <2>1. d \in Delegations /\ row[d].status \in Open /\ Bound(row[d])
    BY DEF SettledBy, OpenRows, Bound
  <2>2. row[d].status = "accepted"
    BY <1>1, <2>1 DEF RowOK
  <2>3. row'[d] = EndsWith(row[d], event.status, event)
    BY <1>1, <2>1, SettledOK
  <2> QED
    BY <2>1, <2>2, <2>3 DEF EndsWith
<1>3. CASE waiter.d \in SettledBy(event)
  <2>1. waiter.d \in Delegations /\ row[waiter.d].status = "accepted" /\ row'[waiter.d].answer = event
    BY <1>2, <1>3
  <2>2. call[waiter.d] = "waiting"
    BY <1>1, <2>1, NoneFacts DEF SlotOK, Active, RowOK
  <2> QED
    BY <2>1, <2>2
<1>4. CASE waiter.d \notin SettledBy(event)
  <2>1. PICK d \in SettledBy(event) : waiter.boundary # None /\ row[d].boundary = waiter.boundary
    BY <1>4 DEF ClaimedByWaiter
  <2> DEFINE w == waiter.d
  <2>2. w \in Delegations /\ call[w] = "waiting" /\ row[w].boundary = waiter.boundary
    BY <1>1, <2>1 DEF SlotOK
  <2>3. d \in Delegations /\ row[d].control = None /\ row[w].control = None
    BY <1>1, <1>2, <2>1, <2>2 DEF RowOK
  <2>4. event.control = None /\ row[d].boundary = event.version
    BY <2>3 DEF SettledBy
  <2>5. w \notin OpenRows
    BY <1>4, <2>1, <2>2, <2>3, <2>4 DEF SettledBy
  <2>6. row[w].status \in Final
    BY <2>2, <2>5 DEF OpenRows, WaitingOK, Open
  <2> QED
    BY <2>2, <2>6 DEF AnsweredWaiter, Answered
<1> QED
  BY <1>3, <1>4

(* What is heard stays so, when no call leaves without its answer.            *)
HeardNext(e) ==
  \/ e = None \/ e.by = "none" \/ e \in pushed' \cup told'
  \/ \E w \in Delegations : call'[w] = "waiting" /\ row'[w].answer = e
LeavesHeard ==
  /\ pushed \cup told \subseteq pushed' \cup told'
  /\ \A w \in Delegations : call[w] = "waiting" /\ row[w].answer # None =>
                              call'[w] = "waiting" \/ row[w].answer \in told'

LEMMA HeardStays ==
  ASSUME Inv, [Next]_vars, LeavesHeard, NEW e, Heard(e)
  PROVE  HeardNext(e)
<1>1. CASE e = None \/ e.by = "none" \/ e \in pushed \cup told
  BY <1>1 DEF HeardNext, LeavesHeard
<1>2. CASE e # None /\ \E w \in Delegations : call[w] = "waiting" /\ row[w].answer = e
  BY <1>2, AnswerStays DEF HeardNext, LeavesHeard
<1> QED
  BY <1>1, <1>2 DEF Heard

(* What was heard before is all that is to be heard, or one settlement more.  *)
LEMMA HeardWith ==
  ASSUME Inv, HeardOK, [Next]_vars, Excused => Excused', LeavesHeard,
         NEW event, Excused' \/ HeardNext(event),
         mem'.recent \in {mem.recent, event},
         \A d \in Delegations : row'[d].answer \in {row[d].answer, None, mem.recent, event}
  PROVE  HeardOK'
<1> SUFFICES ASSUME ~Excused, ~Excused'
             PROVE  HeardNext(mem'.recent) /\ \A d \in Delegations : HeardNext(row'[d].answer)
  BY DEF HeardOK, Heard, HeardNext
<1>1. Heard(mem.recent) /\ \A d \in Delegations : Heard(row[d].answer)
  BY DEF HeardOK
<1>2. HeardNext(mem.recent) /\ \A d \in Delegations : HeardNext(row[d].answer)
  BY <1>1, HeardStays
<1>3. HeardNext(None)
  BY DEF HeardNext
<1> QED
  BY <1>2, <1>3

LEMMA HeardKept ==
  ASSUME Inv, HeardOK, [Next]_vars, Excused => Excused', LeavesHeard, mem'.recent = mem.recent,
         \A d \in Delegations : row'[d].answer \in {row[d].answer, None, mem.recent}
  PROVE  HeardOK'
<1>1. HeardNext(None)
  BY DEF HeardNext
<1> QED
  BY <1>1, HeardWith

(* The parent settles a turn or a compaction.                                *)
LEMMA SettleHeard ==
  ASSUME Inv, SlotOK, WaitingOK, HeardOK, [Next]_vars,
         NEW event \in Events, event.control # None \/ event.version # None,
         row' = Settled(event), UNCHANGED <<call, told>>, mem'.recent = event,
         \/ event.by = "none" /\ UNCHANGED <<pushed, left>>
         \/ \E ok \in Delivers : Settle(event, ok)
  PROVE  HeardOK'
<1>1. row \in [Delegations -> Rows] /\ left \in Budgets
  BY DEF Inv, DelegationsTypeOK
<1>2. \A d \in Delegations : row'[d].answer \in {row[d].answer, event}
  <2>1. \A d \in Delegations :
          row'[d] = IF d \in SettledBy(event) THEN EndsWith(row[d], event.status, event) ELSE row[d]
    BY <1>1, SettledOK
  <2>2. \A d \in Delegations : EndsWith(row[d], event.status, event).answer = event
    BY DEF EndsWith
  <2> QED
    BY <2>1, <2>2
<1>3. LeavesHeard
  BY DEF LeavesHeard, Settle
<1>4. CASE event.by = "none" /\ UNCHANGED <<pushed, left>>
  <2>1. HeardNext(event) /\ Excused' = Excused
    BY <1>4 DEF HeardNext, Excused
  <2> QED
    BY <1>2, <1>3, <2>1, HeardWith
<1>5. CASE \E ok \in Delivers : Settle(event, ok)
  <2>1. PICK ok \in Delivers : Settle(event, ok)
    BY <1>5
  <2>2. (Excused => Excused') /\ (Excused' \/ HeardNext(event))
    <3>1. CASE ClaimedByWaiter(SettledBy(event))
      <4>1. left' = [left EXCEPT !.late = left.late \/ AnsweredWaiter]
        BY <2>1, <3>1 DEF Settle
      <4>2. /\ left'.undelivered = left.undelivered /\ left'.restarted = left.restarted
            /\ left'.late = (left.late \/ AnsweredWaiter)
        BY <1>1, <4>1 DEF Budgets
      <4> QED
        BY <3>1, <4>2, ClaimedAnswers DEF Excused, HeardNext
    <3>2. CASE ~ClaimedByWaiter(SettledBy(event)) /\ ok
      BY <2>1, <3>2 DEF Settle, HeardNext, Excused
    <3>3. CASE ~ClaimedByWaiter(SettledBy(event)) /\ ~ok
      <4>1. left' = [Spent EXCEPT !.undelivered = TRUE] /\ left.faults > 0
        BY <2>1, <3>3 DEF Settle, Delivers, Fault
      <4>2. left'.undelivered
        BY <4>1, SpentOK DEF Inv, Budgets
      <4> QED
        BY <4>2 DEF Excused
    <3> QED
      BY <3>1, <3>2, <3>3
  <2> QED
    BY <1>2, <1>3, <2>2, HeardWith
<1> QED
  BY <1>4, <1>5

(* Steps that leave rows, settlements and deliveries alone.                   *)
LEMMA LeftStays ==
  ASSUME left \in Budgets, left.faults > 0,
         left' = Spent \/ left' = [Spent EXCEPT !.thrown = TRUE]
  PROVE  Excused' = Excused
<1>1. /\ left'.undelivered = left.undelivered /\ left'.restarted = left.restarted
      /\ left'.late = left.late
  BY DEF Spent, Budgets
<1> QED
  BY <1>1 DEF Excused

LEMMA SameHeard ==
  ASSUME Inv, HeardOK, [Next]_vars, UNCHANGED <<row, pushed, told>>, mem'.recent = mem.recent,
         Excused => Excused',
         \A d \in Delegations : call[d] = "waiting" => call'[d] = "waiting"
  PROVE  HeardOK'
<1>1. LeavesHeard
  BY DEF LeavesHeard
<1> QED
  BY <1>1, HeardKept

(* A row that ends without an answer, and a call that leaves without one.      *)
LEMMA UpdatedHeard ==
  ASSUME Inv, HeardOK, [Next]_vars, NEW d \in Delegations, NEW s \in Final \cup {"accepted"},
         NEW b \in Nat \cup {None}, NEW c \in Delegations \cup {None},
         NEW a \in Events \cup {None}, a \in {None, mem.recent},
         row' = Updated(d, s, b, c, a), UNCHANGED <<pushed, told, left>>, mem'.recent = mem.recent,
         call[d] # "waiting", \A e \in Delegations \ {d} : call'[e] = call[e]
  PROVE  HeardOK'
<1>1. row \in [Delegations -> Rows]
  BY DEF Inv, DelegationsTypeOK
<1>2. /\ \A e \in Delegations \ {d} : row'[e] = row[e]
      /\ row'[d].answer \in {row[d].answer, a}
  <2>1. /\ \A e \in Delegations \ {d} : row'[e] = row[e]
        /\ row[d].status # "dispatching" => row'[d] = row[d]
        /\ row[d].status = "dispatching" =>
             row'[d] = [status |-> s, waits |-> row[d].waits, boundary |-> b,
                        control |-> c, answer |-> a]
    BY <1>1, UpdatedOK
  <2> QED
    BY <2>1
<1>3. LeavesHeard /\ Excused' = Excused
  BY DEF LeavesHeard, Excused
<1>4. \A e \in Delegations : row'[e].answer \in {row[e].answer, None, mem.recent}
  BY <1>2
<1> QED
  BY <1>3, <1>4, HeardKept

LEMMA LeaveCalls ==
  ASSUME Inv, NEW d \in Delegations, Leave(d)
  PROVE  call' = [call EXCEPT ![d] = "over"] /\ \A e \in Delegations \ {d} : call'[e] = call[e]
BY DEF Leave, Inv, DelegationsTypeOK

LEMMA CallHeard ==
  ASSUME Inv, HeardOK, [Next]_vars, NEW d \in Delegations, NEW waits \in BOOLEAN, Delegate(d, waits)
  PROVE  HeardOK'
<1>1. /\ row \in [Delegations -> Rows] /\ mem \in Memories
      /\ call \in [Delegations -> {"idle", "queued", "sent", "waiting", "over"}]
  BY DEF Inv, DelegationsTypeOK
<1>2. /\ row' = Reserved(d, waits) /\ mem' = [mem EXCEPT !.armed = FALSE]
      /\ call[d] = "idle" /\ call' = [call EXCEPT ![d] = "queued"]
      /\ UNCHANGED <<pushed, told, left>>
  BY DEF Delegate
<1>3. /\ \A e \in Delegations \ {d} : row'[e] = row[e]
      /\ row'[d].answer = None
  BY <1>1, <1>2 DEF Reserved, NoRow
<1>4. mem'.recent = mem.recent
  BY <1>1, <1>2 DEF Memories
<1>5. LeavesHeard /\ Excused' = Excused
  BY <1>1, <1>2, <1>3 DEF LeavesHeard, Excused
<1>6. \A e \in Delegations : row'[e].answer \in {row[e].answer, None, mem.recent}
  BY <1>3
<1> QED
  BY <1>4, <1>5, <1>6, HeardKept

LEMMA SendHeard ==
  ASSUME Inv, HeardOK, [Next]_vars, SendStep
  PROVE  HeardOK'
<1>0. /\ row \in [Delegations -> Rows] /\ mem \in Memories
      /\ call \in [Delegations -> {"idle", "queued", "sent", "waiting", "over"}]
  BY DEF Inv, DelegationsTypeOK
<1>1. PICK d \in Delegations :
        SendRequest(d) \/ Resume(d) \/ ResumeFails(d) \/ SendDoubted(d) \/ SendFails(d)
  BY DEF SendStep
<1>2. call[d] \in {"queued", "sent"}
  BY <1>1 DEF SendRequest, Resume, ResumeFails, SendDoubted, SendFails, Sending
<1>3. CASE SendRequest(d) \/ Resume(d)
  <2>1. /\ UNCHANGED <<row, pushed, told, left>> /\ call' = [call EXCEPT ![d] = "sent"]
        /\ \/ mem' = [mem EXCEPT !.working = TRUE]
           \/ \E v : mem' = [mem EXCEPT !.working = TRUE, !.version = v,
                                        !.projector = TRUE, !.owned = TRUE]
    BY <1>3 DEF SendRequest, Resume, Dispatch
  <2>2. mem'.recent = mem.recent
    BY <1>0, <2>1 DEF Memories
  <2> QED
    BY <1>0, <1>2, <2>1, <2>2, SameHeard DEF Excused
<1>4. CASE ResumeFails(d) \/ SendDoubted(d) \/ SendFails(d)
  <2>1. /\ \E s \in {"failed", "uncertain"} : row' = Updated(d, s, None, None, None)
        /\ Leave(d) /\ UNCHANGED <<pushed, told, left>>
        /\ \/ mem' = mem
           \/ \E w : mem' = [mem EXCEPT !.working = w, !.projector = TRUE]
    BY <1>4 DEF ResumeFails, SendDoubted, SendFails
  <2>2. mem'.recent = mem.recent
    BY <1>0, <2>1 DEF Memories
  <2>3. PICK s \in {"failed", "uncertain"} : row' = Updated(d, s, None, None, None)
    BY <2>1
  <2> QED
    BY <1>2, <2>1, <2>2, <2>3, LeaveCalls, UpdatedHeard DEF Final
<1> QED
  BY <1>1, <1>3, <1>4

LEMMA AcknowledgedHeard ==
  ASSUME Inv, HeardOK, [Next]_vars, NEW d \in Delegations, Acknowledged(d)
  PROVE  HeardOK'
<1>0. /\ row \in [Delegations -> Rows] /\ mem \in Memories /\ wire \in Wires
      /\ call \in [Delegations -> {"idle", "queued", "sent", "waiting", "over"}]
      /\ chain \in Seq(Jobs)
  BY DEF Inv, DelegationsTypeOK
<1> DEFINE claim == Head(chain).claim
<1>1. PICK ack \in wire.acks :
        /\ \/ mem.recent # None /\ row' = Updated(d, mem.recent.status, claim, ack.control, mem.recent)
           \/ row' = Updated(d, "accepted", claim, ack.control, None)
        /\ call' = [call EXCEPT ![d] = "waiting"] \/ Leave(d)
  BY DEF Acknowledged
<1>2. UNCHANGED <<mem, pushed, told, left>> /\ call[d] = "sent" /\ Sending(d, "sent")
  BY DEF Acknowledged, Sending
<1>3. \A e \in Delegations \ {d} : call'[e] = call[e]
  BY <1>0, <1>1, LeaveCalls
<1>4. /\ ack.control \in Delegations \cup {None}
      /\ mem.recent \in Events \cup {None} /\ (mem.recent # None => mem.recent.status \in Final)
  BY <1>0, <1>1 DEF Wires, Memories, Events
<1>5. claim \in Nat \cup {None}
  BY <1>0, <1>2, SendingOK
<1>6. CASE mem.recent # None /\ row' = Updated(d, mem.recent.status, claim, ack.control, mem.recent)
  BY <1>2, <1>3, <1>4, <1>5, <1>6, UpdatedHeard
<1>7. CASE row' = Updated(d, "accepted", claim, ack.control, None)
  BY <1>2, <1>3, <1>4, <1>5, <1>7, UpdatedHeard
<1> QED
  BY <1>1, <1>6, <1>7

LEMMA ReportHeard ==
  ASSUME Inv, SlotOK, WaitingOK, HeardOK, [Next]_vars, RunReport
  PROVE  HeardOK'
<1>0. DelegationsTypeOK /\ mem \in Memories /\ report \in ReportStates
  BY DEF Inv, DelegationsTypeOK
<1>1. UNCHANGED <<call, told>>
  BY DEF RunReport
<1>2. /\ ReportEvent \in Events /\ ReportEvent.version # None
  BY <1>0, ReportEventOK, NoneFacts DEF ReportStates
<1>3. \/ UNCHANGED <<row, pushed, left>>
         /\ \/ mem' = [mem EXCEPT !.armed = mem.armed \/ Quiet]
            \/ mem' = mem
      \/ /\ Unanswered /\ row' = Settled(ReportEvent) /\ UNCHANGED <<pushed, left>>
         /\ mem' = [mem EXCEPT !.recent = ReportEvent]
      \/ /\ \E ok \in Delivers : Settle(ReportEvent, ok)
         /\ \/ mem' = [mem EXCEPT !.recent = ReportEvent, !.last = ReportEvent]
            \/ mem' = [mem EXCEPT !.recent = ReportEvent]
  BY DEF RunReport
<1>4. CASE /\ UNCHANGED <<row, pushed, left>>
           /\ \/ mem' = [mem EXCEPT !.armed = mem.armed \/ Quiet]
              \/ mem' = mem
  <2>1. mem'.recent = mem.recent
    BY <1>0, <1>4 DEF Memories
  <2> QED
    BY <1>1, <1>4, <2>1, SameHeard DEF Excused
<1>5. CASE /\ Unanswered /\ row' = Settled(ReportEvent) /\ UNCHANGED <<pushed, left>>
           /\ mem' = [mem EXCEPT !.recent = ReportEvent]
  <2>1. ReportEvent.by = "none"
    BY <1>5 DEF ReportEvent, Settlement
  <2>2. mem'.recent = ReportEvent
    BY <1>0, <1>5 DEF Memories
  <2> QED
    BY <1>1, <1>2, <1>5, <2>1, <2>2, SettleHeard
<1>6. CASE /\ \E ok \in Delivers : Settle(ReportEvent, ok)
           /\ \/ mem' = [mem EXCEPT !.recent = ReportEvent, !.last = ReportEvent]
              \/ mem' = [mem EXCEPT !.recent = ReportEvent]
  <2>1. mem'.recent = ReportEvent
    BY <1>0, <1>6 DEF Memories
  <2>2. row' = Settled(ReportEvent)
    BY <1>6 DEF Settle
  <2> QED
    BY <1>1, <1>2, <1>6, <2>1, <2>2, SettleHeard
<1> QED
  BY <1>3, <1>4, <1>5, <1>6

(* The event that a report of the child becomes.                             *)
LEMMA ReportedEvent ==
  ASSUME Inv, ReportSettles
  PROVE  \E event \in Events :
           /\ event.control # None \/ event.version # None
           /\ mem' = [mem EXCEPT !.recent = event]
           /\ \E ok \in Delivers : Settle(event, ok)
<1>1. /\ wire.events # <<>> /\ Head(wire.events).type = "report"
      /\ Head(wire.events).status # "failed"
  BY DEF ReportSettles, Hearing
<1>2. wire.events \in Seq(WireEvents) /\ mem.version \in Nat
  BY DEF Inv, DelegationsTypeOK, Wires, Memories
<1>3. Head(wire.events) \in WireEvents
  BY <1>1, <1>2
<1> DEFINE e == Head(wire.events)
           event == IF e.control = None
                      THEN Settlement(mem.version, None, e.status, "child", e.text)
                      ELSE Settlement(None, e.control, e.status, "child", e.text)
<1>4. e.status \in Final /\ e.control \in Delegations \cup {None} /\ e.text \in Nat
  BY <1>1, <1>3 DEF WireEvents, Final
<1>5. event \in Events /\ (event.control # None \/ event.version # None)
  <2>1. CASE e.control = None
    BY <1>2, <1>4, <2>1, SettlementOK, NoneFacts
  <2>2. CASE e.control # None
    <3>1. event = Settlement(None, e.control, e.status, "child", e.text)
      BY <2>2
    <3>2. None \in Nat \cup {None} /\ "child" \in {"turn", "child", "none"}
      OBVIOUS
    <3> QED
      BY <1>4, <2>2, <3>1, <3>2 DEF Settlement, Events
  <2> QED
    BY <2>1, <2>2
<1>6. mem' = [mem EXCEPT !.recent = event] /\ \E ok \in Delivers : Settle(event, ok)
  BY DEF ReportSettles
<1> QED
  BY <1>5, <1>6

LEMMA HearsHeard ==
  ASSUME Inv, SlotOK, WaitingOK, HeardOK, [Next]_vars, Hears
  PROVE  HeardOK'
<1>0. mem \in Memories /\ left \in Budgets
  BY DEF Inv, DelegationsTypeOK
<1>1. CASE ReportSettles
  <2>1. PICK event \in Events :
          /\ event.control # None \/ event.version # None
          /\ mem' = [mem EXCEPT !.recent = event]
          /\ \E ok \in Delivers : Settle(event, ok)
    BY <1>1, ReportedEvent
  <2>2. mem'.recent = event
    BY <1>0, <2>1 DEF Memories
  <2>3. row' = Settled(event) /\ UNCHANGED <<call, told>>
    BY <1>1, <2>1 DEF Settle, ReportSettles
  <2> QED
    BY <2>1, <2>2, <2>3, SettleHeard
<1>2. CASE ~ReportSettles
  <2>1. UNCHANGED <<row, pushed, told, call>>
    BY <1>2 DEF Hears, HearStart, HearSettled, HearExit, HearStale, ReportTells, ReportUpdates
  <2>2. \/ mem' = mem
        \/ \E v : mem' = [mem EXCEPT !.version = v, !.working = TRUE, !.armed = FALSE]
        \/ mem' = [mem EXCEPT !.working = FALSE]
    BY <1>2 DEF Hears, HearStart, HearSettled, HearExit, HearStale, ReportTells, ReportUpdates
  <2>3. mem'.recent = mem.recent
    BY <1>0, <2>2 DEF Memories
  <2>4. left' = left \/ (left' = Spent /\ left.faults > 0)
    BY <1>2 DEF Hears, HearStart, HearSettled, HearExit, HearStale, ReportTells, ReportUpdates,
       Delivers, Fault
  <2>5. Excused' = Excused
    BY <1>0, <2>4, LeftStays DEF Excused
  <2> QED
    BY <2>1, <2>3, <2>5, SameHeard
<1> QED
  BY <1>1, <1>2

LEMMA WakeHeard ==
  ASSUME Inv, HeardOK, [Next]_vars, NEW d \in Delegations, Wake(d) \/ Cancel(d)
  PROVE  HeardOK'
<1>0. \A e \in Delegations : RowOK(e)
  BY DEF Inv, StateOK
<1>1. UNCHANGED <<row, mem, pushed, left>> /\ Leave(d)
  BY DEF Wake, Cancel
<1>2. \A e \in Delegations \ {d} : call'[e] = call[e]
  BY <1>1, LeaveCalls
<1>3. told \subseteq told' /\ (row[d].answer # None => row[d].answer \in told')
  BY <1>0 DEF Wake, Cancel, RowOK
<1>4. LeavesHeard /\ Excused' = Excused
  BY <1>1, <1>2, <1>3 DEF LeavesHeard, Excused
<1> QED
  BY <1>1, <1>4, HeardKept

LEMMA StopHeard ==
  ASSUME Inv, HeardOK, [Next]_vars, RunStop
  PROVE  HeardOK'
<1>0. row \in [Delegations -> Rows] /\ mem \in Memories
  BY DEF Inv, DelegationsTypeOK
<1>1. /\ UNCHANGED <<call, pushed, told, left>>
      /\ \/ UNCHANGED <<row, mem>>
         \/ /\ row' = Ended(OpenRows, "failed", None)
            /\ mem' = [mem EXCEPT !.projector = FALSE, !.owned = FALSE]
  BY DEF RunStop
<1>2. mem'.recent = mem.recent
  BY <1>0, <1>1 DEF Memories
<1>3. \A d \in Delegations : row'[d].answer \in {row[d].answer, None}
  <2>1. CASE UNCHANGED row
    BY <2>1
  <2>2. CASE row' = Ended(OpenRows, "failed", None)
    <3>1. \A d \in Delegations :
            row'[d] = IF d \in OpenRows THEN EndsWith(row[d], "failed", None) ELSE row[d]
      BY <1>0, <2>2, EndedOK DEF Final
    <3>2. \A d \in Delegations : EndsWith(row[d], "failed", None).answer = None
      BY DEF EndsWith
    <3> QED
      BY <3>1, <3>2
  <2> QED
    BY <1>1, <2>1, <2>2
<1>4. LeavesHeard /\ Excused' = Excused
  BY <1>1 DEF LeavesHeard, Excused
<1> QED
  BY <1>2, <1>3, <1>4, HeardKept

LEMMA ChildHeard ==
  ASSUME Inv, HeardOK, [Next]_vars, ChildStep \/ StopCall \/ Reports \/ Observe \/ RunEnded
  PROVE  HeardOK'
<1>0. mem \in Memories /\ left \in Budgets
  BY DEF Inv, DelegationsTypeOK
<1>1. UNCHANGED <<row, pushed, told, call>>
  BY DEF ChildStep, StopCall, Reports, Observe, RunEnded, ReportFires, ReportReads, Accept, EndTurn,
     Ask, CompactionEnds, ChildDies, parentSide
<1>2. mem'.recent = mem.recent
  <2>1. CASE Observe \/ RunEnded \/ ReportFires
    BY <1>0, <2>1 DEF Observe, RunEnded, ReportFires, Memories
  <2>2. CASE ChildStep \/ StopCall \/ ReportReads
    BY <2>2 DEF ChildStep, StopCall, ReportReads, Accept, EndTurn, Ask, CompactionEnds, ChildDies,
       parentSide
  <2> QED
    BY <2>1, <2>2 DEF Reports
<1>3. \/ left' = left \/ left' = [left EXCEPT !.asks = left.asks - 1]
      \/ left' = Spent /\ left.faults > 0
  BY DEF ChildStep, StopCall, Reports, Observe, RunEnded, ReportFires, ReportReads, Accept, EndTurn,
     Ask, CompactionEnds, ChildDies, Fault
<1>4. Excused' = Excused
  BY <1>0, <1>3, LeftStays DEF Excused, Budgets
<1> QED
  BY <1>1, <1>2, <1>4, SameHeard

LEMMA HeardStep == Inv /\ SlotOK /\ WaitingOK /\ HeardOK /\ [Next]_vars => HeardOK'
<1> SUFFICES ASSUME Inv, SlotOK, WaitingOK, HeardOK, [Next]_vars PROVE HeardOK'
  OBVIOUS
<1>1. CASE Call
  BY <1>1, CallHeard DEF Call
<1>2. CASE Chained
  BY <1>2, SendHeard, AcknowledgedHeard, ReportHeard, StopHeard, ChildHeard DEF Chained
<1>3. CASE Hears
  BY <1>3, HearsHeard
<1>4. CASE Wakes \/ \E d \in Delegations : Cancel(d)
  BY <1>4, WakeHeard DEF Wakes
<1>5. CASE ChildStep \/ StopCall \/ Reports
  BY <1>5, ChildHeard
<1>6. CASE \E d \in Delegations : SendThrows(d)
  <2>1. PICK d \in Delegations : SendThrows(d)
    BY <1>6
  <2>2. /\ UNCHANGED <<row, mem, pushed, told>> /\ call[d] = "queued"
        /\ call' = [call EXCEPT ![d] = "over"]
        /\ left.faults > 0 /\ left' = [Spent EXCEPT !.thrown = TRUE]
    BY <2>1 DEF SendThrows, Sending, Fault
  <2>3. /\ left \in Budgets
        /\ call \in [Delegations -> {"idle", "queued", "sent", "waiting", "over"}]
    BY DEF Inv, DelegationsTypeOK
  <2>4. Excused' = Excused
    BY <2>2, <2>3, LeftStays
  <2> QED
    BY <2>2, <2>3, <2>4, SameHeard
<1>7. CASE \E survives \in BOOLEAN : Restart(survives)
  <2>1. left' = [Spent EXCEPT !.restarted = TRUE] /\ left \in Budgets
    BY <1>7 DEF Restart, Inv, DelegationsTypeOK
  <2>2. left'.restarted
    BY <2>1 DEF Spent, Budgets
  <2> QED
    BY <2>2 DEF HeardOK, Excused
<1>8. CASE UNCHANGED vars
  BY <1>8, SameHeard DEF vars, Excused
<1> QED
  BY <1>1, <1>2, <1>3, <1>4, <1>5, <1>6, <1>7, <1>8 DEF Next

(* An answer that a delegation got was delivered to the conversation or told to *)
(* a call, or a waiting call is about to be told; the exceptions are named in   *)
(* the property (#settleEvent, #claimedByWaiter, the end of a wait).           *)
THEOREM AnswersReachTheParent == Spec => []AnswersAreHeard
<1>1. Init => SlotOK /\ WaitingOK /\ HeardOK
  <2> SUFFICES ASSUME Init PROVE SlotOK /\ WaitingOK /\ HeardOK
    OBVIOUS
  <2>1. /\ row = [d \in Delegations |-> NoRow] /\ call = [d \in Delegations |-> "idle"]
        /\ waiter = NoWaiter
        /\ mem = [FreshMemory EXCEPT !.projector = TRUE, !.owned = TRUE]
    BY DEF Init
  <2>2. mem.recent = None /\ \A d \in Delegations : row[d].answer = None /\ call[d] = "idle"
    BY <2>1 DEF FreshMemory, NoRow
  <2> QED
    BY <2>1, <2>2 DEF SlotOK, Active, NoWaiter, WaitingOK, HeardOK, Heard
<1>2. HeardOK => AnswersAreHeard
  BY DEF HeardOK, Heard, Excused, AnswersAreHeard
<1> QED
  BY <1>1, <1>2, SlotStep, WaitingStep, HeardStep, Inductive, PTL DEF Spec

(* A settlement that answers a waiting call goes to that call alone: it is not  *)
(* pushed to the conversation as well (#claimedByWaiter, #settleEvent).         *)
THEOREM OnePathForAnAnswer == Spec => OnePath
<1>1. Init => SlotOK
  BY DEF Init, SlotOK, Active, NoWaiter
<1>2. ASSUME Inv, SlotOK, [Next]_vars, NEW d \in Delegations, call[d] = "waiting",
             row'[d].answer # row[d].answer
      PROVE  pushed' = pushed
  <2>1. row' # row /\ waiter.d = d /\ DelegationsTypeOK /\ \A e \in Delegations : RowOK(e)
    BY <1>2 DEF SlotOK, Active, Inv, StateOK
  <2>2. ASSUME NEW event \in Events, NEW ok, Settle(event, ok)
        PROVE  pushed' = pushed
    <3>1. d \in SettledBy(event)
      BY <1>2, <2>1, <2>2, SettledOK DEF Settle, DelegationsTypeOK
    <3> QED
      BY <2>1, <2>2, <3>1 DEF Settle, ClaimedByWaiter
  <2>3. CASE RunReport
    BY <2>1, <2>2, <2>3, RunReportCases, ReportEventOK
  <2>4. CASE Hears
    <3>1. CASE ReportSettles
      BY <1>2, <2>2, <3>1, ReportedEvent
    <3>2. CASE ~ReportSettles
      BY <2>4, <3>2 DEF Hears, HearStart, HearSettled, HearExit, HearStale, ReportTells, ReportUpdates
    <3> QED
      BY <3>1, <3>2
  <2>5. CASE \E survives \in BOOLEAN : Restart(survives)
    <3>1. PICK s \in Final, a \in {None, row[d].answer} :
            row[d].status \in Open /\ row'[d] = EndsWith(row[d], s, a)
      BY <1>2, <2>5, SweptOK DEF RowsAreSwept
    <3>2. row[d].answer = None
      BY <2>1, <3>1 DEF RowOK
    <3> QED
      BY <1>2, <3>1, <3>2 DEF EndsWith
  <2>6. CASE Call \/ SendStep \/ (\E e \in Delegations : Acknowledged(e)) \/ Observe \/ RunStop \/ RunEnded
    BY <2>6 DEF Call, Delegate, SendStep, SendRequest, Resume, Dispatch, ResumeFails, SendDoubted,
       SendFails, Acknowledged, Observe, RunStop, RunEnded
  <2>7. CASE Reports \/ Wakes \/ StopCall \/ \E e \in Delegations : SendThrows(e) \/ Cancel(e)
    BY <2>7 DEF Reports, ReportFires, ReportReads, Wakes, Wake, StopCall, SendThrows, Cancel
  <2>8. CASE ChildStep \/ UNCHANGED vars
    BY <2>8 DEF ChildStep, Accept, EndTurn, Ask, CompactionEnds, ChildDies, parentSide, vars
  <2> QED
    BY <1>2, <2>3, <2>4, <2>5, <2>6, <2>7, <2>8 DEF Next, Chained
<1>3. Inv /\ SlotOK /\ [Next]_vars =>
        [\A d \in Delegations :
           call[d] = "waiting" /\ row'[d].answer # row[d].answer => pushed' = pushed]_vars
  BY <1>2
<1> QED
  BY <1>1, <1>3, SlotStep, Inductive, PTL DEF Spec, OnePath
=============================================================================
