--------------------------- MODULE MailboxProofs ---------------------------
(***************************************************************************)
(* The mailbox keeps what it promises for any number of children, transports *)
(* and commands, any claim limit and any backlog: no request runs twice, an  *)
(* answer is an answer, the backlog of a child is bounded, and a child starts *)
(* nothing its parent has given up.                                          *)
(*                                                                         *)
(* MailInv is inductive.  The promises are not: that a request runs once     *)
(* rests on "what can still be claimed has not been run" (OnceOK); that an   *)
(* answer is real on "what is settled or in a handler's hands has been given *)
(* to a handler" (CalledOK); that the backlog is bounded on who holds the    *)
(* claimed events (ClaimsOK): when a transport opens, all of them return to  *)
(* the backlog at once, and only one batch of them can be out.               *)
(***************************************************************************)
EXTENDS Mailbox, SelectionProofs

TableOK ==
  /\ table \in Seq(Ids) /\ status \in [Ids -> Status]
  /\ used \subseteq Ids /\ Rows \subseteq used
  /\ \A id \in Ids : status[id] = "none" <=> id \notin Rows

CallersOK ==
  /\ faults \in BOOLEAN /\ waiting \subseteq used
  /\ answer \in [Ids -> Answers] /\ runs \in [Ids -> Nat]

LoopsOK ==
  /\ link \in [Transports -> {"unused", "open", "closed", "dead"}]
  /\ polling \in [Transports -> BOOLEAN]
  /\ batch \in [Transports -> Seq(ToParent)]
  /\ current \in [Transports -> Reports \cup {None}]
  /\ spent \in [Transports -> SUBSET Events]
  /\ active \in [Children -> SUBSET Requests]

MailTypeOK == TableOK /\ CallersOK /\ LoopsOK

(* A request that can still be claimed has not been run.                     *)
OnceOK == \A id \in Requests : /\ runs[id] <= 1
                               /\ status[id] = "pending" \/ id \notin used => runs[id] = 0

(* What is being handled or was settled has been given to a handler.         *)
CalledOK == /\ \A t \in Transports : current[t] # None => runs[current[t]] > 0
            /\ \A c \in Children : \A id \in active[c] : runs[id] > 0
            /\ \A id \in Ids : status[id] \in {"done", "failed"} => runs[id] > 0
            /\ \A id \in Ids : answer[id] \in {"result", "error"} => runs[id] > 0

(* A row whose waiter was answered is gone, and an id is never used twice.   *)
GoneOK == \A id \in Ids : /\ answer[id] # "none" => id \in used
                          /\ answer[id] \notin {"none", "unreadable"} /\ ~faults
                                => id \notin Rows

(* A request on the table has somebody who waits for its answer.             *)
Died == \E t \in Transports : link[t] = "dead"
AwaitedOK == \A id \in Requests \cap Rows :
                id \in waiting \/ faults \/ answer[id] = "unreadable" \/ Died

(* The events of a child that are pending or claimed.  What is claimed is in *)
(* the hands of the open transport, or was in those of the last one.         *)
Pend(c)    == {id \in Events : Of[id] = c /\ status[id] = "pending"}
Work(c)    == {id \in Events : Of[id] = c /\ status[id] = "working"}
Opened     == {t \in Transports : link[t] # "unused"}
Claimed(t) == IF polling[t] THEN Range(batch[t]) \cup spent[t] ELSE {}

ClaimsOK ==
  /\ IsFiniteSet(Opened) /\ \A t, u \in Open : t = u
  /\ ~faults => \A id \in Events : status[id] = "working" =>
        Opened # {} /\ \A t \in Open : id \in Claimed(t)

BacklogOK ==
  ~faults => \A c \in Children :
     /\ Cardinality(Work(c)) <= MaxClaim
     /\ Cardinality(Pend(c) \cup Work(c)) <= MaxEvents + MaxClaim
     /\ ~TakenOver => Cardinality(Pend(c)) <= MaxEvents

MailInv == MailTypeOK /\ OnceOK /\ CalledOK /\ GoneOK /\ AwaitedOK /\ ClaimsOK /\ BacklogOK

-----------------------------------------------------------------------------
(* The table.                                                                *)

LEMMA KindsDiffer ==
  /\ \A id \in Requests : id \in Ids /\ id \notin Reports /\ id \notin Events /\ id \notin ToParent
  /\ \A id \in Events : id \in Ids /\ id \in ToParent /\ id \notin Reports
  /\ \A id \in Reports : id \in Ids /\ id \in ToParent /\ id # None
  /\ Requests \subseteq Ids /\ Reports \subseteq Ids /\ Events \subseteq Ids /\ ToParent \subseteq Ids
  BY MailboxAssumption DEF Ids, ToParent

LEMMA DeletedIs ==
  ASSUME TableOK, NEW gone, Delete(gone)
  PROVE  /\ table' \in Seq(Ids) /\ status' \in [Ids -> Status]
         /\ Rows' = Rows \ gone
         /\ \A id \in Ids : status'[id] = "none" <=> id \notin Rows'
         /\ \A id \in Ids : status'[id] = IF id \in gone THEN "none" ELSE status[id]
<1>1. table \in Seq(Ids) /\ status \in [Ids -> Status] /\ Rows \subseteq Ids
  BY DEF TableOK
<1>2. /\ table' = Selected(table, Ids \ gone)
      /\ status' = [id \in Ids |-> IF id \in gone THEN "none" ELSE status[id]]
  BY DEF Delete
<1>3. table' \in Seq(Ids) /\ Rows' = Rows \ gone
  <2>1. Rows' = Rows \cap (Ids \ gone) /\ table' \in Seq(Ids)
    BY <1>1, <1>2, SelectedRange DEF Rows
  <2> QED BY <1>1, <2>1
<1>4. status' \in [Ids -> Status]
      /\ \A id \in Ids : status'[id] = IF id \in gone THEN "none" ELSE status[id]
  BY <1>1, <1>2 DEF Status
<1>5. \A id \in Ids : status'[id] = "none" <=> id \notin Rows'
  BY <1>3, <1>4 DEF TableOK
<1> QED BY <1>3, <1>4, <1>5

LEMMA DroppedIs ==
  ASSUME TableOK, faults \in BOOLEAN, NEW ids, Drop(ids)
  PROVE  /\ table' \in Seq(Ids) /\ status' \in [Ids -> Status]
         /\ Rows' \subseteq Rows
         /\ \A id \in Ids : status'[id] = "none" <=> id \notin Rows'
         /\ \A id \in Ids : status'[id] = status[id] \/ (id \in ids /\ status'[id] = "none")
         /\ faults' \in BOOLEAN /\ (faults => faults')
         /\ ~faults' => \A id \in ids : id \notin Rows'
<1>1. PICK kept \in SUBSET ids : Delete(ids \ kept) /\ faults' = (faults \/ kept # {})
  BY DEF Drop
<1>2. /\ table' \in Seq(Ids) /\ status' \in [Ids -> Status]
      /\ Rows' = Rows \ (ids \ kept)
      /\ \A id \in Ids : status'[id] = "none" <=> id \notin Rows'
      /\ \A id \in Ids : status'[id] = IF id \in ids \ kept THEN "none" ELSE status[id]
  BY <1>1, DeletedIs
<1>3. faults' \in BOOLEAN /\ (faults => faults') /\ (~faults' => kept = {})
  BY <1>1
<1> QED BY <1>2, <1>3

LEMMA MarkedIs ==
  ASSUME TableOK, NEW ids, NEW s \in Status \ {"none"}, table' = table, status' = Mark(ids, s)
  PROVE  /\ table' \in Seq(Ids) /\ status' \in [Ids -> Status]
         /\ Rows' = Rows
         /\ \A id \in Ids : status'[id] = "none" <=> id \notin Rows'
         /\ \A id \in Ids : status'[id] = IF id \in ids \cap Rows THEN s ELSE status[id]
<1>1. table \in Seq(Ids) /\ status \in [Ids -> Status]
  BY DEF TableOK
<1>2. Rows' = Rows
  BY DEF Rows
<1>3. status' \in [Ids -> Status]
      /\ \A id \in Ids : status'[id] = IF id \in ids \cap Rows THEN s ELSE status[id]
  BY <1>1 DEF Mark
<1>4. \A id \in Ids : status'[id] = "none" <=> id \notin Rows'
  BY <1>2, <1>3 DEF TableOK
<1> QED BY <1>1, <1>2, <1>3, <1>4

LEMMA AppendedIs ==
  ASSUME table \in Seq(Ids), NEW id \in Ids
  PROVE  Append(table, id) \in Seq(Ids) /\ Range(Append(table, id)) = Rows \cup {id}
<1> DEFINE q == Append(table, id)
           L == Len(table)
<1>1. /\ q \in Seq(Ids) /\ DOMAIN q = 1..(L + 1) /\ DOMAIN table = 1..L /\ L \in Nat
      /\ q[L + 1] = id /\ \A i \in 1..L : q[i] = table[i]
  OBVIOUS
<1>2. \A i \in 1..(L + 1) : i \in 1..L \/ i = L + 1
  BY <1>1
<1>3. 1..L \subseteq 1..(L + 1) /\ L + 1 \in 1..(L + 1)
  BY <1>1
<1> HIDE DEF q, L
<1>4. Range(q) = Rows \cup {id}
  BY <1>1, <1>2, <1>3 DEF Range, Rows
<1> QED BY <1>1, <1>4 DEF q

LEMMA EnqueuedIs ==
  ASSUME TableOK, NEW id \in Ids, Enqueue(id)
  PROVE  /\ TableOK'
         /\ id \notin used /\ used' = used \cup {id} /\ Rows' = Rows \cup {id}
         /\ \A e \in Ids : status'[e] = IF e = id THEN "pending" ELSE status[e]
         /\ faults' = faults
<1>1. table \in Seq(Ids) /\ status \in [Ids -> Status] /\ used \subseteq Ids /\ Rows \subseteq used
  BY DEF TableOK
<1>2. /\ id \notin used /\ used' = used \cup {id} /\ faults' = faults
      /\ table' = Append(table, id) /\ status' = [status EXCEPT ![id] = "pending"]
  BY DEF Enqueue
<1>3. table' \in Seq(Ids) /\ Rows' = Rows \cup {id}
  BY <1>1, <1>2, AppendedIs DEF Rows
<1>4. status' \in [Ids -> Status]
      /\ \A e \in Ids : status'[e] = IF e = id THEN "pending" ELSE status[e]
  BY <1>1, <1>2 DEF Status
<1>5. \A e \in Ids : status'[e] = "none" <=> e \notin Rows'
  BY <1>3, <1>4 DEF TableOK
<1> QED BY <1>1, <1>2, <1>3, <1>4, <1>5 DEF TableOK

(* What is claimed was pending.                                              *)
LEMMA OldestIs ==
  ASSUME TableOK, NEW ids \in SUBSET Ids, NEW n \in Nat
  PROVE  /\ Oldest(ids, n) \in Seq(ids) /\ Len(Oldest(ids, n)) <= n
         /\ \A id \in Range(Oldest(ids, n)) : id \in ids /\ id \in Rows /\ status[id] = "pending"
<1> DEFINE P == {id \in ids : status[id] = "pending"}
           ready == Selected(table, P)
           k == IF Len(ready) < n THEN Len(ready) ELSE n
           q == Oldest(ids, n)
<1>1. table \in Seq(Ids)
  BY DEF TableOK
<1>2. ready \in Seq(Ids) /\ Range(ready) = Rows \cap P
  BY <1>1, SelectedRange DEF Rows
<1>3. q = SubSeq(ready, 1, k)
  BY DEF Oldest
<1> HIDE DEF ready, q
<1>4. Len(ready) \in Nat /\ k \in Nat /\ k <= Len(ready) /\ k <= n /\ DOMAIN ready = 1..Len(ready)
  BY <1>2
<1> HIDE DEF k
<1>5. \A i \in 1..k : ready[i] \in ids
  BY <1>2, <1>4 DEF Range
<1>6. /\ q \in Seq(ids)
      /\ Len(q) = IF 1 <= k THEN k - 1 + 1 ELSE 0
      /\ \A i \in 1..(k - 1 + 1) : q[i] = ready[1 + i - 1]
  <2>1. 1 \in Int /\ k \in Int
    BY <1>4
  <2> QED BY <1>3, <1>5, <2>1, SubSeqProperties
<1>7. Len(q) = k /\ DOMAIN q = 1..k /\ \A i \in 1..k : q[i] = ready[i]
  BY <1>4, <1>6
<1>8. \A i \in 1..k : q[i] \in Range(ready)
  BY <1>4, <1>7 DEF Range
<1>9. \A id \in Range(q) : id \in Rows \cap P
  BY <1>2, <1>7, <1>8 DEF Range
<1> QED BY <1>4, <1>6, <1>7, <1>9 DEF q

(* The events of a child that are on the table are finitely many.            *)
LEMMA EventsFinite ==
  ASSUME TableOK, NEW c
  PROVE  IsFiniteSet(Pend(c)) /\ IsFiniteSet(Work(c)) /\ IsFiniteSet(Pend(c) \cup Work(c))
<1>1. IsFiniteSet(Rows)
  BY RangeIsFinite DEF TableOK, Rows
<1>2. Pend(c) \subseteq Rows /\ Work(c) \subseteq Rows
  BY KindsDiffer DEF TableOK, Pend, Work
<1> QED BY <1>1, <1>2, FS_Subset

-----------------------------------------------------------------------------
(* What a step may do without harm, part by part.                            *)

LEMMA OnceKept ==
  ASSUME MailInv, used \subseteq used', \A id \in Requests : runs'[id] = runs[id],
         \A id \in Requests : status'[id] = "pending" => status[id] = "pending" \/ id \notin used
  PROVE  OnceOK'
  BY DEF MailInv, OnceOK

LEMMA CalledKept ==
  ASSUME MailInv, runs' \in [Ids -> Nat], \A id \in Ids : runs'[id] >= runs[id],
         \A t \in Transports : \/ current'[t] = current[t] \/ current'[t] = None
                               \/ runs'[current'[t]] > 0,
         \A c \in Children : \A id \in active'[c] : id \in active[c] \/ runs'[id] > 0,
         \A id \in Ids : status'[id] \in {"done", "failed"} => status'[id] = status[id] \/ runs'[id] > 0,
         \A id \in Ids : answer'[id] \in {"result", "error"} => answer'[id] = answer[id] \/ runs'[id] > 0
  PROVE  CalledOK'
<1>1. runs \in [Ids -> Nat] /\ \A id \in Ids : runs[id] > 0 => runs'[id] > 0
  BY DEF MailInv, MailTypeOK, CallersOK
<1>2. \A t \in Transports : current[t] # None => current[t] \in Ids
  BY KindsDiffer DEF MailInv, MailTypeOK, LoopsOK
<1>3. \A c \in Children : \A id \in active[c] : id \in Ids
  BY KindsDiffer DEF MailInv, MailTypeOK, LoopsOK
<1>4. \A t \in Transports : current'[t] # None => runs'[current'[t]] > 0
  BY <1>1, <1>2 DEF MailInv, CalledOK
<1>5. \A c \in Children : \A id \in active'[c] : runs'[id] > 0
  BY <1>1, <1>3 DEF MailInv, CalledOK
<1>6. \A id \in Ids : status'[id] \in {"done", "failed"} => runs'[id] > 0
  BY <1>1 DEF MailInv, CalledOK
<1>7. \A id \in Ids : answer'[id] \in {"result", "error"} => runs'[id] > 0
  BY <1>1 DEF MailInv, CalledOK
<1> QED BY <1>4, <1>5, <1>6, <1>7 DEF CalledOK

LEMMA GoneKept ==
  ASSUME MailInv, used \subseteq used', faults => faults',
         \A id \in Rows' : id \in Rows \/ id \notin used,
         \A id \in Ids : \/ answer'[id] = answer[id]
                         \/ id \in used /\ answer'[id] = "unreadable"
                         \/ id \in used /\ (faults' \/ id \notin Rows')
  PROVE  GoneOK'
<1>1. ASSUME NEW id \in Ids PROVE answer'[id] # "none" => id \in used'
  BY DEF MailInv, GoneOK
<1>2. ASSUME NEW id \in Ids, answer'[id] \notin {"none", "unreadable"}, ~faults' PROVE id \notin Rows'
  BY <1>2 DEF MailInv, GoneOK
<1> QED BY <1>1, <1>2 DEF GoneOK

LEMMA AwaitedKept ==
  ASSUME MailInv, faults => faults',
         \A t \in Transports : link[t] = "dead" => link'[t] = "dead",
         \A id \in Requests \cap Rows' :
            \/ id \in Rows /\ (id \in waiting => id \in waiting') /\ answer'[id] = answer[id]
            \/ id \in waiting' \/ faults' \/ answer'[id] = "unreadable" \/ Died'
  PROVE  AwaitedOK'
<1>1. Died => Died'
  BY DEF Died
<1> QED BY <1>1 DEF MailInv, AwaitedOK

LEMMA ClaimsKept ==
  ASSUME MailInv, faults => faults', Opened' = Opened, Open' \subseteq Open,
         \A id \in Events : status'[id] = "working" =>
            /\ status[id] = "working"
            /\ \A t \in Open' : id \in Claimed(t) => id \in Claimed(t)'
  PROVE  ClaimsOK'
<1>1. IsFiniteSet(Opened') /\ \A t, u \in Open' : t = u
  BY DEF MailInv, ClaimsOK
<1>2. ASSUME ~faults', NEW id \in Events, status'[id] = "working"
      PROVE  Opened' # {} /\ \A t \in Open' : id \in Claimed(t)'
  BY <1>2 DEF MailInv, ClaimsOK
<1> QED BY <1>1, <1>2 DEF ClaimsOK

LEMMA BacklogKept ==
  ASSUME MailInv, TableOK', faults => faults', Opened' = Opened,
         \A id \in Events : status'[id] \in {"pending", "working"} => status'[id] = status[id]
  PROVE  BacklogOK'
<1>1. TakenOver' <=> TakenOver
  BY DEF Opened, TakenOver
<1>2. ASSUME ~faults', NEW c \in Children
      PROVE  /\ Cardinality(Work(c)') <= MaxClaim
             /\ Cardinality(Pend(c)' \cup Work(c)') <= MaxEvents + MaxClaim
             /\ ~TakenOver' => Cardinality(Pend(c)') <= MaxEvents
  <2>1. Pend(c)' \subseteq Pend(c) /\ Work(c)' \subseteq Work(c)
    BY DEF Pend, Work
  <2>2. /\ IsFiniteSet(Pend(c)) /\ IsFiniteSet(Work(c)) /\ IsFiniteSet(Pend(c) \cup Work(c))
    BY EventsFinite DEF MailInv, MailTypeOK
  <2>3. /\ Cardinality(Work(c)') <= Cardinality(Work(c))
        /\ Cardinality(Pend(c)' \cup Work(c)') <= Cardinality(Pend(c) \cup Work(c))
        /\ Cardinality(Pend(c)') <= Cardinality(Pend(c))
        /\ IsFiniteSet(Pend(c)') /\ IsFiniteSet(Work(c)') /\ IsFiniteSet(Pend(c)' \cup Work(c)')
    BY <2>1, <2>2, FS_Subset
  <2>4. /\ Cardinality(Work(c)) \in Nat /\ Cardinality(Pend(c) \cup Work(c)) \in Nat
        /\ Cardinality(Pend(c)) \in Nat
        /\ Cardinality(Work(c)') \in Nat /\ Cardinality(Pend(c)' \cup Work(c)') \in Nat
        /\ Cardinality(Pend(c)') \in Nat
    BY <2>2, <2>3, FS_CardinalityType
  <2>5. /\ Cardinality(Work(c)) <= MaxClaim
        /\ Cardinality(Pend(c) \cup Work(c)) <= MaxEvents + MaxClaim
        /\ ~TakenOver => Cardinality(Pend(c)) <= MaxEvents
    BY <1>2 DEF MailInv, BacklogOK
  <2>6. MaxClaim \in Nat /\ MaxEvents \in Nat
    BY MailboxAssumption
  <2> QED BY <1>1, <2>3, <2>4, <2>5, <2>6
<1> QED BY <1>2 DEF BacklogOK, Pend, Work

(* The parent's links stay as they are and nothing is claimed.               *)
LEMMA LinkKept ==
  ASSUME MailInv, faults => faults', UNCHANGED <<link, polling, batch, spent>>,
         \A id \in Events : status'[id] = "working" => status[id] = "working"
  PROVE  Opened' = Opened /\ ClaimsOK'
<1>1. Opened' = Opened /\ Open' = Open /\ \A t : Claimed(t)' = Claimed(t)
  BY DEF Opened, Open, Claimed
<1> QED BY <1>1, ClaimsKept

-----------------------------------------------------------------------------
(* The end of waits.                                                         *)

(* Some waits end with the same answer and their rows are dropped.           *)
LEMMA CutOK ==
  ASSUME MailInv, NEW cut \in SUBSET waiting, NEW a \in Answers \ {"none"},
         Drop(cut), waiting' = waiting \ cut,
         answer' = [id \in Ids |-> IF id \in cut THEN a ELSE answer[id]],
         a \in {"result", "error"} => \A id \in cut : runs[id] > 0,
         UNCHANGED <<used, runs, polling, batch, current, spent, active>>,
         link' \in [Transports -> {"unused", "open", "closed", "dead"}],
         \A t \in Transports : link'[t] = link[t] \/ (link[t] = "open" /\ link'[t] = "closed")
  PROVE  MailInv'
<1>1. /\ table' \in Seq(Ids) /\ status' \in [Ids -> Status]
      /\ Rows' \subseteq Rows
      /\ \A id \in Ids : status'[id] = "none" <=> id \notin Rows'
      /\ \A id \in Ids : status'[id] = status[id] \/ (id \in cut /\ status'[id] = "none")
      /\ faults' \in BOOLEAN /\ (faults => faults')
      /\ ~faults' => \A id \in cut : id \notin Rows'
  BY DroppedIs DEF MailInv, MailTypeOK, CallersOK
<1>2. cut \subseteq used /\ used \subseteq Ids
  BY DEF MailInv, MailTypeOK, TableOK, CallersOK
<1>3. TableOK'
  BY <1>1, <1>2 DEF MailInv, MailTypeOK, TableOK
<1>4. CallersOK'
  BY <1>1, <1>2 DEF MailInv, MailTypeOK, CallersOK
<1>5. LoopsOK'
  BY DEF MailInv, MailTypeOK, LoopsOK
<1>6. \A id \in Ids : answer'[id] = IF id \in cut THEN a ELSE answer[id]
  OBVIOUS
<1>7. OnceOK'
  <2>1. \A id \in Requests : status'[id] = "pending" => status[id] = "pending"
    BY <1>1, KindsDiffer
  <2> QED BY <2>1, OnceKept
<1>8. CalledOK'
  BY <1>1, <1>6, CalledKept DEF MailInv, MailTypeOK, CallersOK
<1>9. GoneOK'
  BY <1>1, <1>2, <1>6, GoneKept
<1>10. AwaitedOK'
  <2>1. \A id \in Requests \cap Rows' :
            \/ id \in Rows /\ (id \in waiting => id \in waiting') /\ answer'[id] = answer[id]
            \/ faults'
    BY <1>1, <1>6, KindsDiffer
  <2> QED BY <1>1, <2>1, AwaitedKept
<1>11. Opened' = Opened /\ Open' \subseteq Open /\ \A t : Claimed(t)' = Claimed(t)
  BY DEF Opened, Open, Claimed
<1>12. ClaimsOK'
  <2>1. \A id \in Events : status'[id] = "working" => status[id] = "working"
    BY <1>1, KindsDiffer
  <2> QED BY <1>1, <1>11, <2>1, ClaimsKept
<1>13. BacklogOK'
  <2>1. \A id \in Events : status'[id] \in {"pending", "working"} => status'[id] = status[id]
    BY <1>1, KindsDiffer
  <2> QED BY <1>1, <1>3, <1>11, <2>1, BacklogKept
<1> QED BY <1>3, <1>4, <1>5, <1>7, <1>8, <1>9, <1>10, <1>12, <1>13 DEF MailInv, MailTypeOK

LEMMA CloseTransportOK ==
  ASSUME MailInv, NEW t \in Transports, CloseTransport(t)
  PROVE  MailInv'
<1> DEFINE cut == waiting \cap Requests
<1>1. /\ Drop(cut) /\ waiting' = waiting \ cut
      /\ answer' = [id \in Ids |-> IF id \in cut THEN "cancelled" ELSE answer[id]]
      /\ UNCHANGED <<used, runs, polling, batch, current, spent, active>>
      /\ link' = [link EXCEPT ![t] = "closed"] /\ link[t] = "open"
  BY DEF CloseTransport, childVars
<1>2. /\ link' \in [Transports -> {"unused", "open", "closed", "dead"}]
      /\ \A u \in Transports : link'[u] = link[u] \/ (link[u] = "open" /\ link'[u] = "closed")
  BY <1>1 DEF MailInv, MailTypeOK, LoopsOK
<1>3. cut \in SUBSET waiting /\ "cancelled" \in Answers \ {"none"}
  BY DEF Answers
<1> HIDE DEF cut
<1> QED BY <1>1, <1>2, <1>3, CutOK

LEMMA DetachOK ==
  ASSUME MailInv, NEW c \in Children, Detach(c)
  PROVE  MailInv'
<1> DEFINE cut == waiting \cap ReportsOf(c)
<1>1. /\ Drop(cut) /\ waiting' = waiting \ cut
      /\ answer' = [id \in Ids |-> IF id \in cut THEN "cancelled" ELSE answer[id]]
      /\ UNCHANGED <<used, runs, polling, batch, current, spent, active, link>>
  BY DEF Detach, parentVars
<1>2. link' \in [Transports -> {"unused", "open", "closed", "dead"}]
  BY <1>1 DEF MailInv, MailTypeOK, LoopsOK
<1>3. cut \in SUBSET waiting /\ "cancelled" \in Answers \ {"none"}
  BY DEF Answers
<1> HIDE DEF cut
<1> QED BY <1>1, <1>2, <1>3, CutOK

(* One wait ends.                                                            *)
LEMMA SettleOK ==
  ASSUME MailInv, NEW id \in Ids, NEW a \in Answers \ {"none"}, Settle(id, a), Drop({id}),
         a \in {"result", "error"} => runs[id] > 0
  PROVE  MailInv'
<1>1. /\ id \in waiting /\ waiting' = waiting \ {id}
      /\ answer' = [answer EXCEPT ![id] = a]
      /\ UNCHANGED <<used, runs, polling, batch, current, spent, active, link>>
  BY DEF Settle, parentVars, childVars
<1>2. /\ link' \in [Transports -> {"unused", "open", "closed", "dead"}]
      /\ answer \in [Ids -> Answers]
  BY <1>1 DEF MailInv, MailTypeOK, LoopsOK, CallersOK
<1>3. answer' = [e \in Ids |-> IF e \in {id} THEN a ELSE answer[e]]
  BY <1>1, <1>2
<1>4. {id} \in SUBSET waiting /\ (a \in {"result", "error"} => \A e \in {id} : runs[e] > 0)
  BY <1>1
<1> QED BY <1>1, <1>2, <1>3, <1>4, CutOK

LEMMA ReadFailsOK ==
  ASSUME MailInv, NEW id \in Ids, ReadFails(id)
  PROVE  MailInv'
<1>1. /\ id \in waiting /\ waiting' = waiting \ {id}
      /\ answer' = [answer EXCEPT ![id] = "unreadable"]
      /\ UNCHANGED <<used, runs, polling, batch, current, spent, active, link>>
      /\ UNCHANGED <<table, status, faults>>
  BY DEF ReadFails, Settle, parentVars, childVars
<1>2. id \in used /\ answer \in [Ids -> Answers] /\ "unreadable" \in Answers
  BY <1>1 DEF MailInv, MailTypeOK, CallersOK, Answers
<1>3. \A e \in Ids : answer'[e] = IF e = id THEN "unreadable" ELSE answer[e]
  BY <1>1, <1>2
<1>4. TableOK' /\ LoopsOK' /\ Rows' = Rows
  BY <1>1 DEF MailInv, MailTypeOK, TableOK, LoopsOK, Rows
<1>5. CallersOK'
  BY <1>1, <1>2 DEF MailInv, MailTypeOK, CallersOK
<1>6. OnceOK'
  BY <1>1, OnceKept
<1>7. CalledOK'
  BY <1>1, <1>3, CalledKept DEF MailInv, MailTypeOK, CallersOK
<1>8. GoneOK'
  BY <1>1, <1>2, <1>3, <1>4, GoneKept
<1>9. AwaitedOK'
  BY <1>1, <1>3, <1>4, KindsDiffer, AwaitedKept
<1>10. Opened' = Opened /\ ClaimsOK'
  BY <1>1, LinkKept
<1>11. BacklogOK'
  BY <1>1, <1>4, <1>10, BacklogKept
<1> QED BY <1>4, <1>5, <1>6, <1>7, <1>8, <1>9, <1>10, <1>11 DEF MailInv, MailTypeOK

LEMMA WaitOK ==
  ASSUME MailInv, NEW id \in Ids, Wait(id)
  PROVE  MailInv'
<1>1. CASE ReadAnswer(id)
  <2>1. runs[id] > 0
    BY <1>1 DEF ReadAnswer, MailInv, CalledOK
  <2>2. {"result", "error"} \subseteq Answers \ {"none"}
    BY DEF Answers
  <2> QED BY <1>1, <2>1, <2>2, SettleOK DEF ReadAnswer
<1>2. CASE Expire(id)
  <2>1. "timeout" \in Answers \ {"none"}
    BY DEF Answers
  <2> QED BY <1>2, <2>1, SettleOK DEF Expire
<1>3. CASE Cancel(id)
  <2>1. "cancelled" \in Answers \ {"none"}
    BY DEF Answers
  <2> QED BY <1>3, <2>1, SettleOK DEF Cancel
<1>4. CASE ReadFails(id)
  BY <1>4, ReadFailsOK
<1> QED BY <1>1, <1>2, <1>3, <1>4 DEF Wait

-----------------------------------------------------------------------------
(* What is sent.                                                             *)

(* A command whose sender waits.                                             *)
LEMMA SendOK ==
  ASSUME MailInv, NEW id \in Requests \cup Reports, Enqueue(id), waiting' = waiting \cup {id},
         UNCHANGED <<answer, runs, link, polling, batch, current, spent, active>>
  PROVE  MailInv'
<1>1. id \in Ids /\ id \notin Events
  BY KindsDiffer
<1>2. /\ TableOK'
      /\ id \notin used /\ used' = used \cup {id} /\ Rows' = Rows \cup {id}
      /\ \A e \in Ids : status'[e] = IF e = id THEN "pending" ELSE status[e]
      /\ faults' = faults
  BY <1>1, EnqueuedIs DEF MailInv, MailTypeOK
<1>3. CallersOK' /\ LoopsOK'
  BY <1>2 DEF MailInv, MailTypeOK, CallersOK, LoopsOK
<1>4. OnceOK'
  <2>1. \A e \in Requests : status'[e] = "pending" => status[e] = "pending" \/ e \notin used
    BY <1>2, KindsDiffer
  <2> QED BY <1>2, <2>1, OnceKept
<1>5. CalledOK'
  BY <1>2, CalledKept DEF MailInv, MailTypeOK, CallersOK
<1>6. GoneOK'
  BY <1>2, GoneKept
<1>7. AwaitedOK'
  BY <1>2, AwaitedKept
<1>8. Opened' = Opened /\ ClaimsOK'
  BY <1>1, <1>2, KindsDiffer, LinkKept
<1>9. BacklogOK'
  BY <1>1, <1>2, <1>8, KindsDiffer, BacklogKept
<1> QED BY <1>2, <1>3, <1>4, <1>5, <1>6, <1>7, <1>8, <1>9 DEF MailInv, MailTypeOK

LEMMA RequestOK ==
  ASSUME MailInv, NEW id \in Ids, Request(id)
  PROVE  MailInv'
  BY SendOK DEF Request, parentVars, childVars

LEMMA ReportOK ==
  ASSUME MailInv, NEW id \in Ids, Report(id)
  PROVE  MailInv'
  BY SendOK DEF Report, parentVars, childVars

(* Of a sequence without its first elements at most n are left.              *)
LEMMA NewestAreFew ==
  ASSUME NEW T, NEW q \in Seq(T), NEW n \in Nat
  PROVE  LET rest == Range(q) \ {q[i] : i \in 1..(Len(q) - n)}
         IN  IsFiniteSet(rest) /\ Cardinality(rest) <= n
<1> DEFINE rest == Range(q) \ {q[i] : i \in 1..(Len(q) - n)}
<1>0. Len(q) \in Nat /\ DOMAIN q = 1..Len(q)
  OBVIOUS
<1>1. IsFiniteSet(Range(q)) /\ Cardinality(Range(q)) <= Len(q)
  BY RangeIsFinite
<1>2. IsFiniteSet(rest) /\ Cardinality(rest) <= Cardinality(Range(q))
  BY <1>1, FS_Subset
<1>3. Cardinality(rest) \in Nat /\ Cardinality(Range(q)) \in Nat
  BY <1>1, <1>2, FS_CardinalityType
<1>4. ASSUME Len(q) <= n PROVE Cardinality(rest) <= n
  <2> HIDE DEF rest
  <2> QED BY <1>0, <1>1, <1>2, <1>3, <1>4
<1>5. ASSUME n < Len(q) PROVE Cardinality(rest) <= n
  <2> DEFINE I == (Len(q) - n + 1)..Len(q)
             f == [i \in I |-> q[i]]
             S == {q[i] : i \in I}
  <2>1. IsFiniteSet(I) /\ Cardinality(I) <= n
    <3>1. Len(q) - n + 1 \in Int /\ Len(q) \in Int
      BY <1>0
    <3>2. /\ IsFiniteSet(I)
          /\ Cardinality(I) = IF Len(q) - n + 1 > Len(q) THEN 0
                              ELSE Len(q) - (Len(q) - n + 1) + 1
      BY <3>1, FS_Interval
    <3> HIDE DEF I
    <3> QED BY <1>0, <1>5, <3>2
  <2>2. f \in Surjection(I, S)
    BY DEF Surjection
  <2>3. IsFiniteSet(S) /\ Cardinality(S) <= Cardinality(I)
    <3> HIDE DEF f, S, I
    <3> QED BY <2>1, <2>2, FS_Surjection
  <2>4. rest \subseteq S
    <3>1. ASSUME NEW x \in rest PROVE x \in S
      <4>1. PICK i \in 1..Len(q) : x = q[i]
        BY <1>0 DEF Range
      <4>2. i \notin 1..(Len(q) - n)
        BY <4>1
      <4>3. i \in I
        BY <1>0, <4>2
      <4> QED BY <4>1, <4>3
    <3> QED BY <3>1
  <2>5. Cardinality(rest) <= Cardinality(S)
    <3> HIDE DEF rest, S
    <3> QED BY <2>3, <2>4, FS_Subset
  <2>6. Cardinality(S) \in Nat /\ Cardinality(I) \in Nat
    <3> HIDE DEF S, I
    <3> QED BY <2>1, <2>3, FS_CardinalityType
  <2> HIDE DEF S, I, rest
  <2> QED BY <1>2, <1>3, <2>1, <2>3, <2>5, <2>6
<1>6. Cardinality(rest) <= n
  BY <1>0, <1>4, <1>5
<1> QED BY <1>2, <1>6

(* An event pushes out the oldest pending ones of its child.                 *)
LEMMA SendEventIs ==
  ASSUME MailInv, NEW id \in Ids, SendEvent(id)
  PROVE  \E trimmed \in SUBSET (Pend(Of[id]) \cup {id}) :
           /\ TableOK' /\ Rows' = (Rows \cup {id}) \ trimmed
           /\ \A e \in Ids : status'[e] = IF e \in trimmed THEN "none"
                                          ELSE IF e = id THEN "pending" ELSE status[e]
           /\ IsFiniteSet((Pend(Of[id]) \cup {id}) \ trimmed)
           /\ Cardinality((Pend(Of[id]) \cup {id}) \ trimmed) <= MaxEvents
<1> DEFINE P == {e \in Events : Of[e] = Of[id] /\ status[e] = "pending"}
           chosen == Selected(table, P)
           queued == chosen \o <<id>>
           L == Len(queued)
           trimmed == {queued[i] : i \in 1..(L - MaxEvents)}
<1>1. /\ id \in Events /\ id \notin used /\ used' = used \cup {id}
      /\ table' = Selected(Append(table, id), Ids \ trimmed)
      /\ status' = [e \in Ids |-> IF e \in trimmed THEN "none"
                                  ELSE IF e = id THEN "pending" ELSE status[e]]
  BY DEF SendEvent
<1>2. /\ table \in Seq(Ids) /\ status \in [Ids -> Status] /\ Rows \subseteq used /\ used \subseteq Ids
      /\ \A e \in Ids : status[e] = "none" <=> e \notin Rows
  BY DEF MailInv, MailTypeOK, TableOK
<1>3. chosen \in Seq(Ids) /\ Range(chosen) = Rows \cap P
  BY <1>2, SelectedRange DEF Rows
<1>4. P = Pend(Of[id]) /\ P \subseteq Rows
  BY <1>2, KindsDiffer DEF Pend
<1>5. queued \in Seq(Ids) /\ Range(queued) = P \cup {id}
  <2> HIDE DEF chosen
  <2>1. queued = Append(chosen, id)
    BY <1>3
  <2>2. /\ Append(chosen, id) \in Seq(Ids) /\ DOMAIN Append(chosen, id) = 1..(Len(chosen) + 1)
        /\ DOMAIN chosen = 1..Len(chosen) /\ Len(chosen) \in Nat
        /\ Append(chosen, id)[Len(chosen) + 1] = id
        /\ \A i \in 1..Len(chosen) : Append(chosen, id)[i] = chosen[i]
    BY <1>3
  <2>3. /\ \A i \in 1..(Len(chosen) + 1) : i \in 1..Len(chosen) \/ i = Len(chosen) + 1
        /\ 1..Len(chosen) \subseteq 1..(Len(chosen) + 1)
        /\ Len(chosen) + 1 \in 1..(Len(chosen) + 1)
    BY <2>2
  <2>4. Range(Append(chosen, id)) = Range(chosen) \cup {id}
    BY <2>2, <2>3 DEF Range
  <2> QED BY <1>3, <1>4, <2>1, <2>2, <2>4
<1> HIDE DEF queued
<1>6. trimmed \subseteq P \cup {id}
  <2>1. L \in Nat /\ DOMAIN queued = 1..L /\ MaxEvents \in Nat
    BY <1>5, MailboxAssumption
  <2>2. \A i \in 1..(L - MaxEvents) : i \in 1..L
    BY <2>1
  <2> QED BY <1>5, <2>1, <2>2 DEF Range
<1>7. /\ IsFiniteSet((P \cup {id}) \ trimmed)
      /\ Cardinality((P \cup {id}) \ trimmed) <= MaxEvents
  BY <1>5, MailboxAssumption, NewestAreFew
<1> HIDE DEF trimmed, L
<1>8. table' \in Seq(Ids) /\ Rows' = (Rows \cup {id}) \ trimmed
  <2>1. Append(table, id) \in Seq(Ids) /\ Range(Append(table, id)) = Rows \cup {id}
    BY <1>2, AppendedIs
  <2>2. table' \in Seq(Ids) /\ Rows' = (Rows \cup {id}) \cap (Ids \ trimmed)
    <3> DEFINE q == Append(table, id)
    <3>1. q \in Seq(Ids) /\ Range(q) = Rows \cup {id} /\ table' = Selected(q, Ids \ trimmed)
      BY <1>1, <2>1
    <3> HIDE DEF q
    <3>2. table' \in Seq(Ids) /\ Range(table') = Range(q) \cap (Ids \ trimmed)
      BY <3>1, SelectedRange
    <3> QED BY <3>1, <3>2 DEF Rows
  <2> QED BY <1>2, <2>2
<1>9. status' \in [Ids -> Status]
      /\ \A e \in Ids : status'[e] = IF e \in trimmed THEN "none"
                                     ELSE IF e = id THEN "pending" ELSE status[e]
  BY <1>1, <1>2 DEF Status
<1>10. \A e \in Ids : status'[e] = "none" <=> e \notin Rows'
  BY <1>2, <1>8, <1>9
<1>11. used' \subseteq Ids /\ Rows' \subseteq used'
  BY <1>1, <1>2, <1>8
<1>12. TableOK'
  BY <1>8, <1>9, <1>10, <1>11 DEF TableOK
<1> HIDE DEF P
<1> QED BY <1>4, <1>6, <1>7, <1>8, <1>9, <1>12

LEMMA SendEventOK ==
  ASSUME MailInv, NEW id \in Ids, SendEvent(id)
  PROVE  MailInv'
<1> DEFINE c == Of[id]
<1>1. /\ id \in Events /\ id \notin used /\ used' = used \cup {id}
      /\ UNCHANGED <<faults, waiting, answer, runs, link, polling, batch, current, spent, active>>
  BY DEF SendEvent, callerVars, parentVars, childVars
<1>2. PICK trimmed \in SUBSET (Pend(c) \cup {id}) :
           /\ TableOK' /\ Rows' = (Rows \cup {id}) \ trimmed
           /\ \A e \in Ids : status'[e] = IF e \in trimmed THEN "none"
                                          ELSE IF e = id THEN "pending" ELSE status[e]
           /\ IsFiniteSet((Pend(c) \cup {id}) \ trimmed)
           /\ Cardinality((Pend(c) \cup {id}) \ trimmed) <= MaxEvents
  BY SendEventIs
<1>3. CallersOK' /\ LoopsOK'
  BY <1>1 DEF MailInv, MailTypeOK, CallersOK, LoopsOK
<1>4. OnceOK'
  <2>1. \A e \in Requests : status'[e] = "pending" => status[e] = "pending"
    BY <1>1, <1>2, KindsDiffer
  <2> QED BY <1>1, <2>1, OnceKept
<1>5. CalledOK'
  BY <1>1, <1>2, CalledKept DEF MailInv, MailTypeOK, CallersOK
<1>6. GoneOK'
  BY <1>1, <1>2, GoneKept
<1>7. AwaitedOK'
  BY <1>1, <1>2, KindsDiffer, AwaitedKept
<1>8. Opened' = Opened /\ ClaimsOK'
  BY <1>1, <1>2, KindsDiffer, LinkKept
<1>9. \A d : Work(d)' \subseteq Work(d)
  BY <1>2, KindsDiffer DEF Work
<1>10. Pend(c)' = (Pend(c) \cup {id}) \ trimmed
  BY <1>1, <1>2, KindsDiffer DEF Pend
<1>11. \A d : d # c => Pend(d)' \subseteq Pend(d)
  BY <1>2, KindsDiffer DEF Pend
<1>12. BacklogOK'
  <2> SUFFICES ASSUME ~faults', NEW d \in Children
               PROVE  /\ Cardinality(Work(d)') <= MaxClaim
                      /\ Cardinality(Pend(d)' \cup Work(d)') <= MaxEvents + MaxClaim
                      /\ ~TakenOver' => Cardinality(Pend(d)') <= MaxEvents
    BY DEF BacklogOK, Pend, Work
  <2>1. IsFiniteSet(Pend(d)) /\ IsFiniteSet(Work(d)) /\ IsFiniteSet(Pend(d) \cup Work(d))
    BY EventsFinite DEF MailInv, MailTypeOK
  <2>2. /\ Cardinality(Work(d)) <= MaxClaim
        /\ Cardinality(Pend(d) \cup Work(d)) <= MaxEvents + MaxClaim
        /\ ~TakenOver => Cardinality(Pend(d)) <= MaxEvents
    BY <1>1 DEF MailInv, BacklogOK
  <2>3. MaxClaim \in Nat /\ MaxEvents \in Nat
    BY MailboxAssumption
  <2>4. /\ IsFiniteSet(Work(d)') /\ Cardinality(Work(d)') <= Cardinality(Work(d))
    BY <1>9, <2>1, FS_Subset
  <2>5. TakenOver' <=> TakenOver
    BY <1>8 DEF TakenOver, Opened
  <2>6. CASE d = c
    <3>1. IsFiniteSet(Pend(d)') /\ Cardinality(Pend(d)') <= MaxEvents
      BY <1>2, <1>10, <2>6
    <3>2. Cardinality(Pend(d)' \cup Work(d)') <= Cardinality(Pend(d)') + Cardinality(Work(d)')
      <4>1. Cardinality(Pend(d)' \cap Work(d)') \in Nat
        BY <3>1, FS_Intersection, FS_CardinalityType
      <4>2. /\ Cardinality(Pend(d)' \cup Work(d)')
                = Cardinality(Pend(d)') + Cardinality(Work(d)') - Cardinality(Pend(d)' \cap Work(d)')
            /\ Cardinality(Pend(d)') \in Nat /\ Cardinality(Work(d)') \in Nat
        BY <2>4, <3>1, FS_Union, FS_CardinalityType
      <4> QED BY <4>1, <4>2
    <3>3. /\ Cardinality(Pend(d)') \in Nat /\ Cardinality(Work(d)') \in Nat
          /\ Cardinality(Work(d)) \in Nat
          /\ Cardinality(Pend(d)' \cup Work(d)') \in Nat
      BY <2>1, <2>4, <3>1, FS_Union, FS_CardinalityType
    <3> QED BY <2>2, <2>3, <2>4, <3>1, <3>2, <3>3
  <2>7. CASE d # c
    <3>1. Pend(d)' \subseteq Pend(d) /\ Pend(d)' \cup Work(d)' \subseteq Pend(d) \cup Work(d)
      BY <1>9, <1>11, <2>7
    <3>2. /\ IsFiniteSet(Pend(d)') /\ Cardinality(Pend(d)') <= Cardinality(Pend(d))
          /\ IsFiniteSet(Pend(d)' \cup Work(d)')
          /\ Cardinality(Pend(d)' \cup Work(d)') <= Cardinality(Pend(d) \cup Work(d))
      BY <2>1, <3>1, FS_Subset
    <3>3. /\ Cardinality(Pend(d)) \in Nat /\ Cardinality(Pend(d)') \in Nat
          /\ Cardinality(Work(d)) \in Nat /\ Cardinality(Work(d)') \in Nat
          /\ Cardinality(Pend(d) \cup Work(d)) \in Nat
          /\ Cardinality(Pend(d)' \cup Work(d)') \in Nat
      BY <2>1, <2>4, <3>2, FS_CardinalityType
    <3> QED BY <2>2, <2>3, <2>4, <2>5, <3>2, <3>3
  <2> QED BY <2>6, <2>7
<1> QED BY <1>2, <1>3, <1>4, <1>5, <1>6, <1>7, <1>8, <1>12 DEF MailInv, MailTypeOK

-----------------------------------------------------------------------------
(* The parent.                                                               *)

LEMMA OpenTransportOK ==
  ASSUME MailInv, NEW t \in Transports, OpenTransport(t)
  PROVE  MailInv'
<1> DEFINE gone == {id \in Rows : status[id] \in {"done", "failed"}}
<1>1. /\ Open = {} /\ link[t] = "unused" /\ link' = [link EXCEPT ![t] = "open"]
      /\ table' = Selected(table, Ids \ gone)
      /\ status' = [id \in Ids |->
              IF id \in gone THEN "none"
              ELSE IF id \in ToParent /\ status[id] = "working" THEN "pending"
              ELSE status[id]]
      /\ UNCHANGED <<used, faults, waiting, answer, runs, polling, batch, current, spent, active>>
  BY DEF OpenTransport, callerVars, childVars
<1>2. /\ table \in Seq(Ids) /\ status \in [Ids -> Status] /\ Rows \subseteq used /\ used \subseteq Ids
      /\ \A id \in Ids : status[id] = "none" <=> id \notin Rows
      /\ link \in [Transports -> {"unused", "open", "closed", "dead"}]
  BY DEF MailInv, MailTypeOK, TableOK, LoopsOK
<1> HIDE DEF gone
<1>3. table' \in Seq(Ids) /\ Rows' = Rows \ gone
  <2>1. table' \in Seq(Ids) /\ Rows' = Rows \cap (Ids \ gone)
    BY <1>1, <1>2, SelectedRange DEF Rows
  <2> QED BY <1>2, <2>1
<1>4. /\ \A id \in Ids : status'[id] = IF id \in gone THEN "none"
              ELSE IF id \in ToParent /\ status[id] = "working" THEN "pending"
              ELSE status[id]
      /\ status' \in [Ids -> Status]
  BY <1>1, <1>2 DEF Status
<1>5. \A id \in Ids : status'[id] = "none" <=> id \notin Rows'
  BY <1>2, <1>3, <1>4
<1>6. TableOK'
  BY <1>1, <1>2, <1>3, <1>4, <1>5 DEF TableOK
<1>7. CallersOK' /\ LoopsOK'
  BY <1>1 DEF MailInv, MailTypeOK, CallersOK, LoopsOK
<1>8. OnceOK'
  <2>1. \A id \in Requests : status'[id] = "pending" => status[id] = "pending"
    BY <1>4, KindsDiffer
  <2> QED BY <1>1, <2>1, OnceKept
<1>9. CalledOK'
  BY <1>1, <1>4, CalledKept DEF MailInv, MailTypeOK, CallersOK
<1>10. GoneOK'
  BY <1>1, <1>3, GoneKept
<1>11. AwaitedOK'
  BY <1>1, <1>2, <1>3, AwaitedKept
<1>12. Open' = {t} /\ Opened' = Opened \cup {t} /\ t \notin Opened
  BY <1>1, <1>2 DEF Open, Opened
<1>13. /\ IsFiniteSet(Opened) /\ IsFiniteSet(Opened')
       /\ Cardinality(Opened') = Cardinality(Opened) + 1 /\ Cardinality(Opened) \in Nat
  BY <1>12, FS_AddElement, FS_CardinalityType DEF MailInv, ClaimsOK
<1>14. \A id \in Events : status'[id] # "working"
  BY <1>4, KindsDiffer
<1>15. ClaimsOK'
  BY <1>12, <1>13, <1>14 DEF ClaimsOK
<1>16. BacklogOK'
  <2> SUFFICES ASSUME ~faults', NEW c \in Children
               PROVE  /\ Cardinality(Work(c)') <= MaxClaim
                      /\ Cardinality(Pend(c)' \cup Work(c)') <= MaxEvents + MaxClaim
                      /\ ~TakenOver' => Cardinality(Pend(c)') <= MaxEvents
    BY DEF BacklogOK, Pend, Work
  <2>1. Work(c)' = {} /\ Pend(c)' \subseteq Pend(c) \cup Work(c)
    BY <1>4, <1>14, KindsDiffer DEF Pend, Work
  <2>2. IsFiniteSet(Pend(c)) /\ IsFiniteSet(Pend(c) \cup Work(c))
    BY EventsFinite DEF MailInv, MailTypeOK
  <2>3. IsFiniteSet(Pend(c)') /\ Cardinality(Pend(c)') <= Cardinality(Pend(c) \cup Work(c))
    BY <2>1, <2>2, FS_Subset
  <2>4. /\ Cardinality(Pend(c)') \in Nat /\ Cardinality(Pend(c) \cup Work(c)) \in Nat
        /\ Cardinality(Pend(c)) \in Nat /\ Cardinality(Work(c)') = 0
        /\ Pend(c)' \cup Work(c)' = Pend(c)'
    BY <2>1, <2>2, <2>3, FS_CardinalityType, FS_EmptySet
  <2>5. /\ Cardinality(Pend(c) \cup Work(c)) <= MaxEvents + MaxClaim
        /\ ~TakenOver => Cardinality(Pend(c)) <= MaxEvents
    BY <1>1 DEF MailInv, BacklogOK
  <2>6. MaxClaim \in Nat /\ MaxEvents \in Nat
    BY MailboxAssumption
  <2>7. ASSUME ~TakenOver' PROVE Cardinality(Pend(c)') <= MaxEvents
    <3>1. Cardinality(Opened) = 0 /\ Opened = {}
      <4>1. ~(Cardinality(Opened') > 1)
        BY <2>7 DEF TakenOver, Opened
      <4> QED BY <1>13, <4>1, FS_EmptySet
    <3>2. ~TakenOver
      BY <3>1 DEF TakenOver, Opened
    <3>3. Work(c) = {}
      BY <1>1, <3>1 DEF MailInv, ClaimsOK, Work
    <3>4. Cardinality(Pend(c)') <= Cardinality(Pend(c))
      BY <2>3, <3>3
    <3> QED BY <2>4, <2>5, <2>6, <3>2, <3>4
  <2> QED BY <2>3, <2>4, <2>5, <2>6, <2>7
<1> QED BY <1>6, <1>7, <1>8, <1>9, <1>10, <1>11, <1>15, <1>16 DEF MailInv, MailTypeOK

LEMMA ParentCrashOK ==
  ASSUME MailInv, ParentCrash
  PROVE  MailInv'
<1>1. /\ \E t \in Transports : link[t] \in {"open", "closed"}
      /\ link' = [t \in Transports |-> IF link[t] = "unused" THEN "unused" ELSE "dead"]
      /\ waiting' = waiting \ Requests
      /\ polling' = [t \in Transports |-> FALSE]
      /\ batch' = [t \in Transports |-> <<>>]
      /\ current' = [t \in Transports |-> None]
      /\ spent' = [t \in Transports |-> {}]
      /\ UNCHANGED <<table, status, used, faults, answer, runs, active>>
  BY DEF ParentCrash, tableVars, childVars
<1>2. TableOK' /\ Rows' = Rows
  BY <1>1 DEF MailInv, MailTypeOK, TableOK, Rows
<1>3. CallersOK'
  BY <1>1 DEF MailInv, MailTypeOK, CallersOK
<1>4. LoopsOK'
  <2>1. link' \in [Transports -> {"unused", "open", "closed", "dead"}]
    BY <1>1
  <2>2. polling' \in [Transports -> BOOLEAN]
    BY <1>1
  <2>3. batch' \in [Transports -> Seq(ToParent)]
    BY <1>1
  <2>4. current' \in [Transports -> Reports \cup {None}] /\ spent' \in [Transports -> SUBSET Events]
    BY <1>1
  <2> QED BY <1>1, <2>1, <2>2, <2>3, <2>4 DEF MailInv, MailTypeOK, LoopsOK
<1>5. OnceOK'
  BY <1>1, OnceKept
<1>6. CalledOK'
  BY <1>1, CalledKept DEF MailInv, MailTypeOK, CallersOK
<1>7. GoneOK'
  BY <1>1, <1>2, GoneKept
<1>8. AwaitedOK'
  <2>1. Died'
    BY <1>1 DEF Died
  <2> QED BY <2>1 DEF AwaitedOK
<1>9. Opened' = Opened /\ Open' = {}
  BY <1>1 DEF Opened, Open
<1>10. ClaimsOK'
  BY <1>1, <1>9, ClaimsKept
<1>11. BacklogOK'
  BY <1>1, <1>2, <1>9, BacklogKept
<1> QED BY <1>2, <1>3, <1>4, <1>5, <1>6, <1>7, <1>8, <1>10, <1>11 DEF MailInv, MailTypeOK

LEMMA PollOK ==
  ASSUME MailInv, NEW t \in Transports, Poll(t)
  PROVE  MailInv'
<1> DEFINE claimed == Oldest(ToParent, MaxClaim)
<1>1. /\ link[t] = "open" /\ ~polling[t]
      /\ polling' = [polling EXCEPT ![t] = TRUE]
      /\ batch' = [batch EXCEPT ![t] = claimed]
      /\ status' = Mark(Range(claimed), "working")
      /\ UNCHANGED <<table, used, faults, waiting, answer, runs, link, current, spent, active>>
  BY DEF Poll, callerVars, childVars
<1>2. /\ claimed \in Seq(ToParent) /\ Len(claimed) <= MaxClaim
      /\ \A id \in Range(claimed) : id \in ToParent /\ id \in Rows /\ status[id] = "pending"
      /\ MaxClaim \in Nat /\ MaxEvents \in Nat
  BY OldestIs, MailboxAssumption, KindsDiffer DEF MailInv, MailTypeOK
<1> HIDE DEF claimed
<1>3. /\ table' \in Seq(Ids) /\ status' \in [Ids -> Status] /\ Rows' = Rows
      /\ \A id \in Ids : status'[id] = "none" <=> id \notin Rows'
      /\ \A id \in Ids : status'[id] = IF id \in Range(claimed) \cap Rows THEN "working" ELSE status[id]
  <2>1. "working" \in Status \ {"none"}
    BY DEF Status
  <2> QED BY <1>1, <2>1, MarkedIs DEF MailInv, MailTypeOK
<1>4. TableOK'
  BY <1>1, <1>3 DEF MailInv, MailTypeOK, TableOK
<1>5. CallersOK'
  BY <1>1 DEF MailInv, MailTypeOK, CallersOK
<1>6. LoopsOK'
  BY <1>1, <1>2 DEF MailInv, MailTypeOK, LoopsOK
<1>7. OnceOK'
  <2>1. \A id \in Requests : status'[id] = "pending" => status[id] = "pending"
    BY <1>3, KindsDiffer
  <2> QED BY <1>1, <2>1, OnceKept
<1>8. CalledOK'
  BY <1>1, <1>3, CalledKept DEF MailInv, MailTypeOK, CallersOK
<1>9. GoneOK'
  BY <1>1, <1>3, GoneKept
<1>10. AwaitedOK'
  BY <1>1, <1>3, AwaitedKept
<1>11. /\ Opened' = Opened /\ Open' = Open /\ t \in Open /\ t \in Opened
       /\ \A u \in Open : u = t
  BY <1>1 DEF Open, Opened, MailInv, ClaimsOK
<1>12. /\ polling \in [Transports -> BOOLEAN] /\ batch \in [Transports -> Seq(ToParent)]
  BY DEF MailInv, MailTypeOK, LoopsOK
<1>13. Claimed(t) = {} /\ Claimed(t)' = Range(claimed) \cup spent[t]
  BY <1>1, <1>12 DEF Claimed
<1>14. ASSUME ~faults, NEW id \in Events PROVE status[id] # "working"
  BY <1>11, <1>13, <1>14 DEF MailInv, ClaimsOK
<1>15. ASSUME ~faults, NEW id \in Events, status'[id] = "working" PROVE id \in Range(claimed)
  BY <1>3, <1>14, <1>15, KindsDiffer
<1>16. ClaimsOK'
  <2>1. ASSUME ~faults', NEW id \in Events, status'[id] = "working"
        PROVE  Opened' # {} /\ \A u \in Open' : id \in Claimed(u)'
    <3>1. id \in Claimed(t)'
      BY <1>1, <1>13, <1>15, <2>1
    <3>2. \A u \in Open' : u = t
      BY <1>11
    <3> QED BY <1>11, <3>1, <3>2
  <2>2. IsFiniteSet(Opened') /\ \A u, v \in Open' : u = v
    BY <1>11 DEF MailInv, ClaimsOK
  <2> QED BY <2>1, <2>2 DEF ClaimsOK
<1>17. BacklogOK'
  <2> SUFFICES ASSUME ~faults', NEW c \in Children
               PROVE  /\ Cardinality(Work(c)') <= MaxClaim
                      /\ Cardinality(Pend(c)' \cup Work(c)') <= MaxEvents + MaxClaim
                      /\ ~TakenOver' => Cardinality(Pend(c)') <= MaxEvents
    BY DEF BacklogOK, Pend, Work
  <2>1. /\ Work(c)' \subseteq Range(claimed) /\ Pend(c)' \subseteq Pend(c)
        /\ Pend(c)' \cup Work(c)' \subseteq Pend(c) \cup Work(c)
    BY <1>1, <1>2, <1>3, <1>15, KindsDiffer DEF Pend, Work
  <2>2. IsFiniteSet(Pend(c)) /\ IsFiniteSet(Pend(c) \cup Work(c))
    BY EventsFinite DEF MailInv, MailTypeOK
  <2>3. IsFiniteSet(Range(claimed)) /\ Cardinality(Range(claimed)) <= Len(claimed)
    BY <1>2, RangeIsFinite
  <2>4. /\ IsFiniteSet(Work(c)') /\ Cardinality(Work(c)') <= Cardinality(Range(claimed))
        /\ IsFiniteSet(Pend(c)') /\ Cardinality(Pend(c)') <= Cardinality(Pend(c))
        /\ IsFiniteSet(Pend(c)' \cup Work(c)')
        /\ Cardinality(Pend(c)' \cup Work(c)') <= Cardinality(Pend(c) \cup Work(c))
    BY <2>1, <2>2, <2>3, FS_Subset
  <2>5. /\ Cardinality(Range(claimed)) \in Nat /\ Cardinality(Work(c)') \in Nat
        /\ Cardinality(Pend(c)') \in Nat /\ Cardinality(Pend(c)) \in Nat
        /\ Cardinality(Pend(c)' \cup Work(c)') \in Nat
        /\ Cardinality(Pend(c) \cup Work(c)) \in Nat /\ Len(claimed) \in Nat
    BY <1>2, <2>2, <2>3, <2>4, FS_CardinalityType
  <2>6. /\ Cardinality(Pend(c) \cup Work(c)) <= MaxEvents + MaxClaim
        /\ ~TakenOver => Cardinality(Pend(c)) <= MaxEvents
    BY <1>1 DEF MailInv, BacklogOK
  <2>7. TakenOver' <=> TakenOver
    BY <1>11 DEF TakenOver, Opened
  <2>8. Cardinality(Work(c)') <= MaxClaim
    BY <1>2, <2>3, <2>4, <2>5
  <2> QED BY <1>2, <2>4, <2>5, <2>6, <2>7, <2>8
<1> QED BY <1>4, <1>5, <1>6, <1>7, <1>8, <1>9, <1>10, <1>16, <1>17 DEF MailInv, MailTypeOK

(* The first command of a batch and the rest of it.                          *)
LEMMA NextIs ==
  ASSUME MailInv, NEW t \in Transports, NextCommand(t)
  PROVE  /\ Head(batch[t]) \in ToParent /\ Tail(batch[t]) \in Seq(ToParent)
         /\ \A id \in Range(batch[t]) : id = Head(batch[t]) \/ id \in Range(Tail(batch[t]))
         /\ polling[t] /\ current[t] = None
<1> DEFINE b == batch[t]
<1>1. b \in Seq(ToParent) /\ b # <<>>
  BY DEF MailInv, MailTypeOK, LoopsOK, NextCommand
<1> HIDE DEF b
<1>2. /\ Head(b) \in ToParent /\ Tail(b) \in Seq(ToParent) /\ Head(b) = b[1]
      /\ Len(b) \in Nat /\ Len(Tail(b)) = Len(b) - 1
      /\ DOMAIN b = 1..Len(b) /\ DOMAIN Tail(b) = 1..Len(Tail(b))
      /\ \A i \in 1..Len(Tail(b)) : Tail(b)[i] = b[i + 1]
  BY <1>1, HeadTailProperties
<1>3. ASSUME NEW i \in 1..Len(b), i # 1 PROVE b[i] \in Range(Tail(b))
  <2>1. i - 1 \in 1..Len(Tail(b)) /\ (i - 1) + 1 = i
    BY <1>2, <1>3
  <2>2. Tail(b)[i - 1] = b[i]
    BY <1>2, <2>1
  <2> QED BY <1>2, <2>1, <2>2 DEF Range
<1>4. \A id \in Range(b) : id = Head(b) \/ id \in Range(Tail(b))
  BY <1>2, <1>3 DEF Range
<1>5. polling[t] /\ current[t] = None
  BY DEF NextCommand
<1> QED BY <1>2, <1>4, <1>5 DEF b

LEMMA HandleEventOK ==
  ASSUME MailInv, NEW t \in Transports, HandleEvent(t)
  PROVE  MailInv'
<1> DEFINE h == Head(batch[t])
<1>1. /\ NextCommand(t) /\ h \in Events
      /\ runs' = [runs EXCEPT ![h] = @ + 1]
      /\ spent' = [spent EXCEPT ![t] = @ \cup {h}]
      /\ batch' = [batch EXCEPT ![t] = Tail(@)]
      /\ UNCHANGED <<table, status, used, faults, waiting, answer, link, polling, current, active>>
  BY DEF HandleEvent, tableVars, callerVars, childVars
<1>2. /\ Tail(batch[t]) \in Seq(ToParent)
      /\ \A id \in Range(batch[t]) : id = h \/ id \in Range(Tail(batch[t]))
      /\ polling[t]
  BY <1>1, NextIs
<1>3. /\ runs \in [Ids -> Nat] /\ spent \in [Transports -> SUBSET Events]
      /\ batch \in [Transports -> Seq(ToParent)]
  BY DEF MailInv, MailTypeOK, CallersOK, LoopsOK
<1> HIDE DEF h
<1>4. /\ runs' \in [Ids -> Nat] /\ \A id \in Ids : runs'[id] >= runs[id]
      /\ \A id \in Ids : id # h => runs'[id] = runs[id]
  BY <1>1, <1>3, KindsDiffer
<1>5. spent' \in [Transports -> SUBSET Events] /\ batch' \in [Transports -> Seq(ToParent)]
  BY <1>1, <1>2, <1>3
<1>6. TableOK' /\ Rows' = Rows
  BY <1>1 DEF MailInv, MailTypeOK, TableOK, Rows
<1>7. CallersOK' /\ LoopsOK'
  BY <1>1, <1>4, <1>5 DEF MailInv, MailTypeOK, CallersOK, LoopsOK
<1>8. OnceOK'
  BY <1>1, <1>4, KindsDiffer, OnceKept
<1>9. CalledOK'
  BY <1>1, <1>4, CalledKept
<1>10. GoneOK'
  BY <1>1, <1>6, GoneKept
<1>11. AwaitedOK'
  BY <1>1, <1>6, AwaitedKept
<1>12. Opened' = Opened /\ Open' = Open /\ Open \subseteq Transports
  BY <1>1 DEF Opened, Open
<1>13. \A u \in Open : \A id \in Claimed(u) : id \in Claimed(u)'
  <2>1. ASSUME NEW id \in Claimed(t) PROVE id \in Claimed(t)'
    BY <1>1, <1>2, <1>3, <2>1 DEF Claimed
  <2>2. ASSUME NEW u \in Open, u # t PROVE Claimed(u)' = Claimed(u)
    BY <1>1, <1>3, <1>12, <2>2 DEF Claimed
  <2> QED BY <2>1, <2>2
<1>14. ClaimsOK'
  BY <1>1, <1>12, <1>13, ClaimsKept
<1>15. BacklogOK'
  BY <1>1, <1>6, <1>12, BacklogKept
<1> QED BY <1>6, <1>7, <1>8, <1>9, <1>10, <1>11, <1>14, <1>15 DEF MailInv, MailTypeOK

LEMMA BeginReportOK ==
  ASSUME MailInv, NEW t \in Transports, BeginReport(t)
  PROVE  MailInv'
<1> DEFINE h == Head(batch[t])
<1>1. /\ NextCommand(t) /\ h \in Reports
      /\ runs' = [runs EXCEPT ![h] = @ + 1]
      /\ current' = [current EXCEPT ![t] = h]
      /\ Delete(spent[t])
      /\ spent' = [spent EXCEPT ![t] = {}]
      /\ batch' = [batch EXCEPT ![t] = Tail(@)]
      /\ UNCHANGED <<used, faults, waiting, answer, link, polling, active>>
  BY DEF BeginReport, callerVars, childVars
<1>2. /\ Tail(batch[t]) \in Seq(ToParent)
      /\ \A id \in Range(batch[t]) : id = h \/ id \in Range(Tail(batch[t]))
      /\ polling[t]
  BY <1>1, NextIs
<1>3. /\ runs \in [Ids -> Nat] /\ spent \in [Transports -> SUBSET Events]
      /\ batch \in [Transports -> Seq(ToParent)]
      /\ current \in [Transports -> Reports \cup {None}]
  BY DEF MailInv, MailTypeOK, CallersOK, LoopsOK
<1> HIDE DEF h
<1>4. /\ runs' \in [Ids -> Nat] /\ \A id \in Ids : runs'[id] >= runs[id]
      /\ \A id \in Ids : id # h => runs'[id] = runs[id]
      /\ runs'[h] > 0
  BY <1>1, <1>3, KindsDiffer
<1>5. /\ spent' \in [Transports -> SUBSET Events] /\ batch' \in [Transports -> Seq(ToParent)]
      /\ current' \in [Transports -> Reports \cup {None}]
  BY <1>1, <1>2, <1>3
<1>6. /\ table' \in Seq(Ids) /\ status' \in [Ids -> Status]
      /\ Rows' = Rows \ spent[t]
      /\ \A id \in Ids : status'[id] = "none" <=> id \notin Rows'
      /\ \A id \in Ids : status'[id] = IF id \in spent[t] THEN "none" ELSE status[id]
  BY <1>1, DeletedIs DEF MailInv, MailTypeOK
<1>7. spent[t] \subseteq Events
  BY <1>3
<1>8. TableOK'
  BY <1>1, <1>6 DEF MailInv, MailTypeOK, TableOK
<1>9. CallersOK' /\ LoopsOK'
  BY <1>1, <1>4, <1>5 DEF MailInv, MailTypeOK, CallersOK, LoopsOK
<1>10. OnceOK'
  <2>1. \A id \in Requests : status'[id] = "pending" => status[id] = "pending"
    BY <1>6, KindsDiffer
  <2>2. \A id \in Requests : runs'[id] = runs[id]
    BY <1>1, <1>4, KindsDiffer
  <2> QED BY <1>1, <2>1, <2>2, OnceKept
<1>11. CalledOK'
  <2>1. \A u \in Transports : current'[u] = current[u] \/ runs'[current'[u]] > 0
    BY <1>1, <1>3, <1>4
  <2> QED BY <1>1, <1>4, <1>6, <2>1, CalledKept
<1>12. GoneOK'
  BY <1>1, <1>6, GoneKept
<1>13. AwaitedOK'
  BY <1>1, <1>6, AwaitedKept
<1>14. Opened' = Opened /\ Open' = Open /\ Open \subseteq Transports
  BY <1>1 DEF Opened, Open
<1>15. \A u \in Open : \A id \in Events : id \in Claimed(u) /\ status'[id] = "working" => id \in Claimed(u)'
  <2>1. ASSUME NEW id \in Events, id \in Claimed(t), status'[id] = "working" PROVE id \in Claimed(t)'
    <3>1. id \notin spent[t]
      BY <1>6, <2>1, KindsDiffer
    <3>2. id # h
      BY <1>1, KindsDiffer
    <3>3. id \in Range(Tail(batch[t]))
      BY <1>2, <2>1, <3>1, <3>2 DEF Claimed
    <3> QED BY <1>1, <1>2, <1>3, <3>3 DEF Claimed
  <2>2. ASSUME NEW u \in Open, u # t PROVE Claimed(u)' = Claimed(u)
    BY <1>1, <1>3, <1>14, <2>2 DEF Claimed
  <2> QED BY <2>1, <2>2
<1>16. ClaimsOK'
  <2>1. \A id \in Events : status'[id] = "working" => status[id] = "working"
    BY <1>6, KindsDiffer
  <2> QED BY <1>1, <1>14, <1>15, <2>1, ClaimsKept
<1>17. BacklogOK'
  <2>1. \A id \in Events : status'[id] \in {"pending", "working"} => status'[id] = status[id]
    BY <1>6, KindsDiffer
  <2> QED BY <1>1, <1>8, <1>14, <2>1, BacklogKept
<1> QED BY <1>8, <1>9, <1>10, <1>11, <1>12, <1>13, <1>16, <1>17 DEF MailInv, MailTypeOK

LEMMA FinishReportOK ==
  ASSUME MailInv, NEW t \in Transports, FinishReport(t)
  PROVE  MailInv'
<1> DEFINE r == current[t]
<1>1. PICK s \in {"done", "failed"} : status' = Mark({r}, s)
  BY DEF FinishReport
<1>2. /\ r # None /\ current' = [current EXCEPT ![t] = None]
      /\ UNCHANGED <<table, used, faults, waiting, answer, runs, link, polling, batch, spent, active>>
  BY DEF FinishReport, callerVars, childVars
<1>3. current \in [Transports -> Reports \cup {None}]
  BY DEF MailInv, MailTypeOK, LoopsOK
<1>4. r \in Reports /\ runs[r] > 0
  BY <1>2, <1>3 DEF MailInv, CalledOK
<1> HIDE DEF r
<1>5. /\ table' \in Seq(Ids) /\ status' \in [Ids -> Status]
      /\ Rows' = Rows
      /\ \A id \in Ids : status'[id] = "none" <=> id \notin Rows'
      /\ \A id \in Ids : status'[id] = IF id \in {r} \cap Rows THEN s ELSE status[id]
  <2>1. s \in Status \ {"none"}
    BY DEF Status
  <2> QED BY <1>1, <1>2, <2>1, MarkedIs DEF MailInv, MailTypeOK
<1>6. TableOK'
  BY <1>2, <1>5 DEF MailInv, MailTypeOK, TableOK
<1>7. CallersOK'
  BY <1>2 DEF MailInv, MailTypeOK, CallersOK
<1>8. LoopsOK'
  <2>1. current' \in [Transports -> Reports \cup {None}]
    BY <1>2, <1>3
  <2> QED BY <1>2, <2>1 DEF MailInv, MailTypeOK, LoopsOK
<1>9. OnceOK'
  <2>1. \A id \in Requests : status'[id] = "pending" => status[id] = "pending"
    BY <1>5, KindsDiffer
  <2> QED BY <1>2, <2>1, OnceKept
<1>10. CalledOK'
  <2>1. \A u \in Transports : current'[u] = current[u] \/ current'[u] = None
    BY <1>2, <1>3
  <2>2. \A id \in Ids : status'[id] = status[id] \/ runs'[id] > 0
    BY <1>2, <1>4, <1>5
  <2> QED BY <1>2, <2>1, <2>2, CalledKept DEF MailInv, MailTypeOK, CallersOK
<1>11. GoneOK'
  BY <1>2, <1>5, GoneKept
<1>12. AwaitedOK'
  BY <1>2, <1>5, AwaitedKept
<1>13. \A id \in Events : status'[id] = status[id]
  BY <1>4, <1>5, KindsDiffer
<1>14. Opened' = Opened /\ ClaimsOK'
  BY <1>2, <1>13, LinkKept
<1>15. BacklogOK'
  BY <1>2, <1>6, <1>13, <1>14, BacklogKept
<1> QED BY <1>6, <1>7, <1>8, <1>9, <1>10, <1>11, <1>12, <1>14, <1>15 DEF MailInv, MailTypeOK

LEMMA EndBatchOK ==
  ASSUME MailInv, NEW t \in Transports, EndBatch(t)
  PROVE  MailInv'
<1>1. /\ batch[t] = <<>>
      /\ Delete(spent[t])
      /\ spent' = [spent EXCEPT ![t] = {}]
      /\ polling' = [polling EXCEPT ![t] = FALSE]
      /\ UNCHANGED <<used, faults, waiting, answer, runs, link, batch, current, active>>
  BY DEF EndBatch, callerVars, childVars
<1>2. spent \in [Transports -> SUBSET Events] /\ polling \in [Transports -> BOOLEAN]
  BY DEF MailInv, MailTypeOK, LoopsOK
<1>3. /\ table' \in Seq(Ids) /\ status' \in [Ids -> Status]
      /\ Rows' = Rows \ spent[t]
      /\ \A id \in Ids : status'[id] = "none" <=> id \notin Rows'
      /\ \A id \in Ids : status'[id] = IF id \in spent[t] THEN "none" ELSE status[id]
  BY <1>1, DeletedIs DEF MailInv, MailTypeOK
<1>4. spent' \in [Transports -> SUBSET Events] /\ polling' \in [Transports -> BOOLEAN]
  BY <1>1, <1>2
<1>5. TableOK'
  BY <1>1, <1>3 DEF MailInv, MailTypeOK, TableOK
<1>6. CallersOK' /\ LoopsOK'
  BY <1>1, <1>4 DEF MailInv, MailTypeOK, CallersOK, LoopsOK
<1>7. OnceOK'
  <2>1. \A id \in Requests : status'[id] = "pending" => status[id] = "pending"
    BY <1>3, KindsDiffer
  <2> QED BY <1>1, <2>1, OnceKept
<1>8. CalledOK'
  BY <1>1, <1>3, CalledKept DEF MailInv, MailTypeOK, CallersOK
<1>9. GoneOK'
  BY <1>1, <1>3, GoneKept
<1>10. AwaitedOK'
  BY <1>1, <1>3, AwaitedKept
<1>11. Opened' = Opened /\ Open' = Open /\ Open \subseteq Transports
  BY <1>1 DEF Opened, Open
<1>12. \A u \in Open : \A id \in Events : id \in Claimed(u) /\ status'[id] = "working" => id \in Claimed(u)'
  <2>1. ASSUME NEW id \in Events, status'[id] = "working" PROVE id \notin Claimed(t)
    <3>1. id \notin spent[t]
      BY <1>3, <2>1, KindsDiffer
    <3>2. Range(batch[t]) = {}
      BY <1>1 DEF Range
    <3> QED BY <3>1, <3>2 DEF Claimed
  <2>2. ASSUME NEW u \in Open, u # t PROVE Claimed(u)' = Claimed(u)
    BY <1>1, <1>2, <1>11, <2>2 DEF Claimed
  <2> QED BY <2>1, <2>2
<1>13. ClaimsOK'
  <2>1. \A id \in Events : status'[id] = "working" => status[id] = "working"
    BY <1>3, KindsDiffer
  <2> QED BY <1>1, <1>11, <1>12, <2>1, ClaimsKept
<1>14. BacklogOK'
  <2>1. \A id \in Events : status'[id] \in {"pending", "working"} => status'[id] = status[id]
    BY <1>3, KindsDiffer
  <2> QED BY <1>1, <1>5, <1>11, <2>1, BacklogKept
<1> QED BY <1>5, <1>6, <1>7, <1>8, <1>9, <1>10, <1>13, <1>14 DEF MailInv, MailTypeOK

LEMMA WriteFailsOK ==
  ASSUME MailInv, NEW t \in Transports, WriteFails(t)
  PROVE  MailInv'
<1>1. /\ polling' = [polling EXCEPT ![t] = FALSE]
      /\ batch' = [batch EXCEPT ![t] = <<>>]
      /\ current' = [current EXCEPT ![t] = None]
      /\ spent' = [spent EXCEPT ![t] = {}]
      /\ faults' = TRUE
      /\ UNCHANGED <<table, status, used, waiting, answer, runs, link, active>>
  BY DEF WriteFails, callerVars, childVars
<1>2. TableOK' /\ Rows' = Rows
  BY <1>1 DEF MailInv, MailTypeOK, TableOK, Rows
<1>3. CallersOK'
  BY <1>1 DEF MailInv, MailTypeOK, CallersOK
<1>4. LoopsOK'
  <2>1. /\ polling \in [Transports -> BOOLEAN] /\ batch \in [Transports -> Seq(ToParent)]
        /\ current \in [Transports -> Reports \cup {None}]
        /\ spent \in [Transports -> SUBSET Events]
    BY DEF MailInv, MailTypeOK, LoopsOK
  <2>2. polling' \in [Transports -> BOOLEAN] /\ spent' \in [Transports -> SUBSET Events]
    BY <1>1, <2>1
  <2>3. batch' \in [Transports -> Seq(ToParent)]
    BY <1>1, <2>1
  <2>4. current' \in [Transports -> Reports \cup {None}]
    BY <1>1, <2>1
  <2> QED BY <1>1, <2>2, <2>3, <2>4 DEF MailInv, MailTypeOK, LoopsOK
<1>5. OnceOK'
  BY <1>1, OnceKept
<1>6. CalledOK'
  <2>1. \A u \in Transports : current'[u] = current[u] \/ current'[u] = None
    BY <1>1 DEF MailInv, MailTypeOK, LoopsOK
  <2> QED BY <1>1, <2>1, CalledKept DEF MailInv, MailTypeOK, CallersOK
<1>7. GoneOK'
  BY <1>1, <1>2, GoneKept
<1>8. AwaitedOK'
  BY <1>1, <1>2, AwaitedKept
<1>9. Opened' = Opened /\ Open' = Open
  BY <1>1 DEF Opened, Open
<1>10. ClaimsOK'
  BY <1>1, <1>9 DEF MailInv, ClaimsOK
<1>11. BacklogOK'
  BY <1>1 DEF BacklogOK
<1> QED BY <1>2, <1>3, <1>4, <1>5, <1>6, <1>7, <1>8, <1>10, <1>11 DEF MailInv, MailTypeOK
-----------------------------------------------------------------------------
(* A child.                                                                  *)

(* Nothing of what the invariant speaks of changes.                          *)
LEMMA NothingOK ==
  ASSUME MailInv,
         UNCHANGED <<table, status, used, faults, waiting, answer, runs, link, polling, batch,
                     current, spent, active>>
  PROVE  MailInv'
<1>1. TableOK' /\ Rows' = Rows /\ CallersOK' /\ LoopsOK'
  BY DEF MailInv, MailTypeOK, TableOK, CallersOK, LoopsOK, Rows
<1>2. OnceOK' /\ CalledOK' /\ GoneOK'
  BY <1>1 DEF MailInv, OnceOK, CalledOK, GoneOK
<1>3. AwaitedOK'
  BY <1>1 DEF MailInv, AwaitedOK, Died
<1>4. Opened' = Opened /\ ClaimsOK'
  BY LinkKept
<1>5. BacklogOK'
  BY <1>1, <1>4, BacklogKept
<1> QED BY <1>1, <1>2, <1>3, <1>4, <1>5 DEF MailInv, MailTypeOK

(* What a child takes is one request, on the table and not taken before.     *)
LEMMA TakeIs ==
  ASSUME MailInv, NEW c \in Children, Take(c)
  PROVE  \E h \in Requests :
           /\ h \in Rows /\ status[h] = "pending"
           /\ status' \in [Ids -> Status]
           /\ \A id \in Ids : status'[id] = IF id = h THEN "working" ELSE status[id]
           /\ runs' = [runs EXCEPT ![h] = @ + 1]
           /\ active' = [active EXCEPT ![c] = @ \cup {h}]
           /\ TableOK' /\ Rows' = Rows
           /\ UNCHANGED <<used, faults, waiting, answer, link, polling, batch, current, spent>>
<1> DEFINE ids == {id \in Requests : Of[id] = c}
           next == Oldest(ids, 1)
           h == Head(next)
<1>1. /\ next # <<>>
      /\ status' = Mark(Range(next), "working")
      /\ active' = [active EXCEPT ![c] = @ \cup {h}]
      /\ runs' = [runs EXCEPT ![h] = @ + 1]
      /\ UNCHANGED <<table, used, faults, waiting, answer, link, polling, batch, current, spent>>
  BY DEF Take, callerVars, parentVars
<1>2. /\ next \in Seq(ids) /\ Len(next) <= 1
      /\ \A id \in Range(next) : id \in ids /\ id \in Rows /\ status[id] = "pending"
  <2>1. ids \in SUBSET Ids /\ 1 \in Nat
    BY KindsDiffer
  <2> HIDE DEF ids
  <2> QED BY <2>1, OldestIs DEF MailInv, MailTypeOK
<1> HIDE DEF next
<1>3. Range(next) = {h}
  <2> HIDE DEF ids
  <2>1. Len(next) \in Nat /\ Len(next) # 0 /\ h = next[1] /\ DOMAIN next = 1..Len(next)
    BY <1>1, <1>2
  <2>2. Len(next) = 1
    BY <1>2, <2>1
  <2> QED BY <2>1, <2>2 DEF Range
<1>4. h \in Requests /\ h \in Rows /\ status[h] = "pending"
  BY <1>2, <1>3
<1> HIDE DEF h
<1>5. /\ table' \in Seq(Ids) /\ status' \in [Ids -> Status]
      /\ Rows' = Rows
      /\ \A id \in Ids : status'[id] = "none" <=> id \notin Rows'
      /\ \A id \in Ids : status'[id] = IF id \in {h} \cap Rows THEN "working" ELSE status[id]
  <2>1. "working" \in Status \ {"none"}
    BY DEF Status
  <2> QED BY <1>1, <1>3, <2>1, MarkedIs DEF MailInv, MailTypeOK
<1>6. TableOK'
  BY <1>1, <1>5 DEF MailInv, MailTypeOK, TableOK
<1> QED BY <1>1, <1>4, <1>5, <1>6

LEMMA TakeOK ==
  ASSUME MailInv, NEW c \in Children, Take(c)
  PROVE  MailInv'
<1>1. PICK h \in Requests :
           /\ h \in Rows /\ status[h] = "pending"
           /\ status' \in [Ids -> Status]
           /\ \A id \in Ids : status'[id] = IF id = h THEN "working" ELSE status[id]
           /\ runs' = [runs EXCEPT ![h] = @ + 1]
           /\ active' = [active EXCEPT ![c] = @ \cup {h}]
           /\ TableOK' /\ Rows' = Rows
           /\ UNCHANGED <<used, faults, waiting, answer, link, polling, batch, current, spent>>
  BY TakeIs
<1>2. h \in Ids /\ h \notin Events /\ h \in used /\ runs[h] = 0
  BY <1>1, KindsDiffer DEF MailInv, MailTypeOK, TableOK, OnceOK
<1>3. runs \in [Ids -> Nat] /\ active \in [Children -> SUBSET Requests]
  BY DEF MailInv, MailTypeOK, CallersOK, LoopsOK
<1>4. /\ runs' \in [Ids -> Nat] /\ \A id \in Ids : runs'[id] >= runs[id]
      /\ \A id \in Ids : id # h => runs'[id] = runs[id]
      /\ runs'[h] = 1
  BY <1>1, <1>2, <1>3
<1>5. active' \in [Children -> SUBSET Requests]
  BY <1>1, <1>3
<1>6. CallersOK' /\ LoopsOK'
  BY <1>1, <1>4, <1>5 DEF MailInv, MailTypeOK, CallersOK, LoopsOK
<1>7. OnceOK'
  <2>1. ASSUME NEW id \in Requests, id # h
        PROVE  runs'[id] <= 1 /\ (status'[id] = "pending" \/ id \notin used' => runs'[id] = 0)
    BY <1>1, <1>4, <2>1, KindsDiffer DEF MailInv, OnceOK
  <2>2. runs'[h] <= 1 /\ (status'[h] = "pending" \/ h \notin used' => runs'[h] = 0)
    BY <1>1, <1>2, <1>4
  <2> QED BY <2>1, <2>2 DEF OnceOK
<1>8. CalledOK'
  <2>1. \A d \in Children : \A id \in active'[d] : id \in active[d] \/ runs'[id] > 0
    BY <1>1, <1>3, <1>4
  <2>2. \A id \in Ids : status'[id] \in {"done", "failed"} => status'[id] = status[id]
    BY <1>1
  <2> QED BY <1>1, <1>4, <2>1, <2>2, CalledKept
<1>9. GoneOK'
  BY <1>1, GoneKept
<1>10. AwaitedOK'
  BY <1>1, AwaitedKept
<1>11. \A id \in Events : status'[id] = status[id]
  BY <1>1, <1>2, KindsDiffer
<1>12. Opened' = Opened /\ ClaimsOK'
  BY <1>1, <1>11, LinkKept
<1>13. BacklogOK'
  BY <1>1, <1>11, <1>12, BacklogKept
<1> QED BY <1>1, <1>6, <1>7, <1>8, <1>9, <1>10, <1>12, <1>13 DEF MailInv, MailTypeOK

LEMMA AnswerOK ==
  ASSUME MailInv, NEW c \in Children, NEW id \in Ids, Answer(c, id)
  PROVE  MailInv'
<1>1. /\ id \in active[c]
      /\ active' = [active EXCEPT ![c] = @ \ {id}]
      /\ UNCHANGED <<table, used, waiting, answer, runs, link, polling, batch, current, spent>>
  BY DEF Answer, callerVars, parentVars
<1>2. active \in [Children -> SUBSET Requests]
  BY DEF MailInv, MailTypeOK, LoopsOK
<1>3. id \in Requests /\ id \notin Events /\ runs[id] > 0
  BY <1>1, <1>2, KindsDiffer DEF MailInv, CalledOK
<1>4. /\ active' \in [Children -> SUBSET Requests]
      /\ \A d \in Children : \A e \in active'[d] : e \in active[d]
  BY <1>1, <1>2
<1>5. /\ TableOK' /\ Rows' = Rows /\ faults' \in BOOLEAN /\ (faults => faults')
      /\ \A e \in Ids : status'[e] = status[e] \/ (e = id /\ status'[e] \in {"done", "failed"})
  <2>1. CASE /\ \E s \in {"done", "failed"} : status' = Mark({id}, s)
             /\ UNCHANGED faults
    <3>1. PICK s \in {"done", "failed"} : status' = Mark({id}, s)
      BY <2>1
    <3>2. /\ table' \in Seq(Ids) /\ status' \in [Ids -> Status]
          /\ Rows' = Rows
          /\ \A e \in Ids : status'[e] = "none" <=> e \notin Rows'
          /\ \A e \in Ids : status'[e] = IF e \in {id} \cap Rows THEN s ELSE status[e]
      <4>1. s \in Status \ {"none"}
        BY DEF Status
      <4> QED BY <1>1, <3>1, <4>1, MarkedIs DEF MailInv, MailTypeOK
    <3>3. TableOK'
      BY <1>1, <3>2 DEF MailInv, MailTypeOK, TableOK
    <3>4. faults' \in BOOLEAN /\ faults' = faults
      BY <2>1 DEF MailInv, MailTypeOK, CallersOK
    <3> QED BY <3>2, <3>3, <3>4
  <2>2. CASE WritesFail /\ faults' = TRUE /\ UNCHANGED status
    BY <1>1, <2>2 DEF MailInv, MailTypeOK, TableOK, Rows
  <2> QED BY <2>1, <2>2 DEF Answer
<1>6. CallersOK' /\ LoopsOK'
  BY <1>1, <1>4, <1>5 DEF MailInv, MailTypeOK, CallersOK, LoopsOK
<1>7. OnceOK'
  <2>1. \A e \in Requests : status'[e] = "pending" => status[e] = "pending"
    BY <1>5, KindsDiffer
  <2> QED BY <1>1, <2>1, OnceKept
<1>8. CalledOK'
  BY <1>1, <1>3, <1>4, <1>5, CalledKept DEF MailInv, MailTypeOK, CallersOK
<1>9. GoneOK'
  BY <1>1, <1>5, GoneKept
<1>10. AwaitedOK'
  BY <1>1, <1>5, AwaitedKept
<1>11. \A e \in Events : status'[e] = status[e]
  BY <1>3, <1>5, KindsDiffer
<1>12. Opened' = Opened /\ ClaimsOK'
  BY <1>1, <1>5, <1>11, LinkKept
<1>13. BacklogOK'
  BY <1>1, <1>5, <1>11, <1>12, BacklogKept
<1> QED BY <1>5, <1>6, <1>7, <1>8, <1>9, <1>10, <1>12, <1>13 DEF MailInv, MailTypeOK

LEMMA AttachOK ==
  ASSUME MailInv, NEW c \in Children, Attach(c)
  PROVE  MailInv'
  BY NothingOK DEF Attach, tableVars, callerVars, parentVars

LEMMA ChildExitOK ==
  ASSUME MailInv, NEW c \in Children, ChildExit(c)
  PROVE  MailInv'
<1>1. /\ waiting' = waiting \ ReportsOf(c)
      /\ active' = [active EXCEPT ![c] = {}]
      /\ UNCHANGED <<table, status, used, faults, answer, runs, link, polling, batch, current, spent>>
  BY DEF ChildExit, tableVars, parentVars
<1>2. TableOK' /\ Rows' = Rows
  BY <1>1 DEF MailInv, MailTypeOK, TableOK, Rows
<1>3. /\ active' \in [Children -> SUBSET Requests]
      /\ \A d \in Children : \A id \in active'[d] : id \in active[d]
  BY <1>1 DEF MailInv, MailTypeOK, LoopsOK
<1>4. CallersOK' /\ LoopsOK'
  BY <1>1, <1>3 DEF MailInv, MailTypeOK, CallersOK, LoopsOK
<1>5. OnceOK'
  BY <1>1, OnceKept
<1>6. CalledOK'
  BY <1>1, <1>3, CalledKept DEF MailInv, MailTypeOK, CallersOK
<1>7. GoneOK'
  BY <1>1, <1>2, GoneKept
<1>8. AwaitedOK'
  <2>1. \A id \in Requests : id \in waiting => id \in waiting'
    BY <1>1, KindsDiffer DEF ReportsOf
  <2> QED BY <1>1, <1>2, <2>1, AwaitedKept
<1>9. Opened' = Opened /\ ClaimsOK'
  BY <1>1, LinkKept
<1>10. BacklogOK'
  BY <1>1, <1>2, <1>9, BacklogKept
<1> QED BY <1>2, <1>4, <1>5, <1>6, <1>7, <1>8, <1>9, <1>10 DEF MailInv, MailTypeOK

-----------------------------------------------------------------------------
LEMMA MailInitOK == Init => MailInv
<1> SUFFICES ASSUME Init PROVE MailInv
  OBVIOUS
<1>1. Rows = {}
  BY DEF Init, Rows, Range
<1>2. TableOK
  BY <1>1 DEF Init, TableOK, Status
<1>3. CallersOK
  BY DEF Init, CallersOK, Answers
<1>4. LoopsOK
  <2>1. batch \in [Transports -> Seq(ToParent)]
    BY DEF Init
  <2>2. /\ link \in [Transports -> {"unused", "open", "closed", "dead"}]
        /\ polling \in [Transports -> BOOLEAN]
        /\ current \in [Transports -> Reports \cup {None}]
        /\ spent \in [Transports -> SUBSET Events]
        /\ active \in [Children -> SUBSET Requests]
    BY DEF Init
  <2> QED BY <2>1, <2>2 DEF LoopsOK
<1>5. OnceOK /\ CalledOK /\ GoneOK
  BY KindsDiffer DEF Init, OnceOK, CalledOK, GoneOK
<1>6. AwaitedOK
  BY <1>1 DEF AwaitedOK
<1>7. Opened = {} /\ Open = {}
  BY DEF Init, Opened, Open
<1>8. \A id \in Ids : status[id] = "none"
  BY DEF Init
<1>9. ClaimsOK
  BY <1>7, <1>8, KindsDiffer, FS_EmptySet DEF ClaimsOK
<1>10. BacklogOK
  <2> SUFFICES ASSUME NEW c \in Children
               PROVE  /\ Cardinality(Work(c)) <= MaxClaim
                      /\ Cardinality(Pend(c) \cup Work(c)) <= MaxEvents + MaxClaim
                      /\ Cardinality(Pend(c)) <= MaxEvents
    BY DEF BacklogOK
  <2>1. Pend(c) = {} /\ Work(c) = {} /\ Pend(c) \cup Work(c) = {}
    BY <1>8, KindsDiffer DEF Pend, Work
  <2>2. Cardinality({}) = 0 /\ MaxClaim \in Nat /\ MaxEvents \in Nat
    BY FS_EmptySet, MailboxAssumption
  <2> QED BY <2>1, <2>2
<1> QED BY <1>2, <1>3, <1>4, <1>5, <1>6, <1>9, <1>10 DEF MailInv, MailTypeOK

LEMMA MailNextOK == MailInv /\ [Next]_vars => MailInv'
<1> SUFFICES ASSUME MailInv, [Next]_vars PROVE MailInv'
  OBVIOUS
<1>1. ASSUME NEW t \in Transports, OpenTransport(t) \/ CloseTransport(t) \/ Poll(t) PROVE MailInv'
  BY <1>1, OpenTransportOK, CloseTransportOK, PollOK
<1>2. ASSUME NEW t \in Transports, Loop(t) PROVE MailInv'
  BY <1>2, HandleEventOK, BeginReportOK, FinishReportOK, EndBatchOK, WriteFailsOK DEF Loop
<1>3. ASSUME NEW id \in Ids, Request(id) \/ Report(id) \/ SendEvent(id) \/ Wait(id) PROVE MailInv'
  BY <1>3, RequestOK, ReportOK, SendEventOK, WaitOK
<1>4. ASSUME NEW c \in Children, Attach(c) \/ Take(c) \/ Detach(c) \/ ChildExit(c) PROVE MailInv'
  BY <1>4, AttachOK, TakeOK, DetachOK, ChildExitOK
<1>5. ASSUME NEW c \in Children, NEW id \in Ids, Answer(c, id) PROVE MailInv'
  BY <1>5, AnswerOK
<1>6. CASE UNCHANGED vars
  BY <1>6, NothingOK DEF vars, tableVars, callerVars, parentVars, childVars
<1> QED BY <1>1, <1>2, <1>3, <1>4, <1>5, <1>6, ParentCrashOK DEF Next

(* The table, the parent's loops, the callers and the children keep MailInv  *)
(* for any number of children, transports and commands.                      *)
THEOREM MailboxInvariant == Spec => []MailInv
<1>1. Init => MailInv
  BY MailInitOK
<1>2. MailInv /\ [Next]_vars => MailInv'
  BY MailNextOK
<1> QED BY <1>1, <1>2, PTL DEF Spec

(* A child never executes a request twice: what can still be claimed has not *)
(* been run, and a claim is never taken back (claimCommand).                 *)
THEOREM RequestRunsOnceHolds == Spec => []RequestRunsOnce
<1>1. MailInv => RequestRunsOnce
  BY DEF MailInv, OnceOK, RequestRunsOnce
<1> QED BY <1>1, MailboxInvariant, PTL

(* A caller told of a result had its command handled, and the row of an      *)
(* answered command is gone for good (finishCommand, drop).                  *)
THEOREM AnswerIsRealHolds == Spec => []AnswerIsReal
<1>1. MailInv => AnswerIsReal
  BY DEF MailInv, CalledOK, GoneOK, AnswerIsReal
<1> QED BY <1>1, MailboxInvariant, PTL

(* The pending events of a child stay within the backlog, and within one     *)
(* batch more after a takeover (trimEventBacklog, takeParentCommands).       *)
THEOREM BacklogIsBoundedHolds == Spec => []BacklogIsBounded
<1>1. ASSUME MailInv, NEW c \in Children, ~faults
      PROVE  Cardinality({id \in Events : Of[id] = c /\ status[id] = "pending"})
               <= MaxEvents + (IF TakenOver THEN MaxClaim ELSE 0)
  <2>1. IsFiniteSet(Pend(c)) /\ IsFiniteSet(Pend(c) \cup Work(c))
    BY <1>1, EventsFinite DEF MailInv, MailTypeOK
  <2>2. Cardinality(Pend(c)) <= Cardinality(Pend(c) \cup Work(c))
    BY <2>1, FS_Subset
  <2>3. Cardinality(Pend(c)) \in Nat /\ Cardinality(Pend(c) \cup Work(c)) \in Nat
    BY <2>1, FS_CardinalityType
  <2>4. /\ Cardinality(Pend(c) \cup Work(c)) <= MaxEvents + MaxClaim
        /\ ~TakenOver => Cardinality(Pend(c)) <= MaxEvents
    BY <1>1 DEF MailInv, BacklogOK
  <2>5. MaxClaim \in Nat /\ MaxEvents \in Nat
    BY MailboxAssumption
  <2>6. Cardinality(Pend(c)) <= MaxEvents + (IF TakenOver THEN MaxClaim ELSE 0)
    BY <2>2, <2>3, <2>4, <2>5
  <2> QED BY <2>6 DEF Pend
<1>2. MailInv => BacklogIsBounded
  BY <1>1 DEF BacklogIsBounded
<1> QED BY <1>2, MailboxInvariant, PTL

(* Only Take starts a request, and what it takes is on the table.            *)
LEMMA OnlyTakeRuns ==
  ASSUME MailInv, [Next]_vars, NEW id \in Requests, runs'[id] > runs[id]
  PROVE  id \in Rows
<1>1. runs \in [Ids -> Nat] /\ id \in Ids /\ id \notin Events /\ id \notin Reports
  BY KindsDiffer DEF MailInv, MailTypeOK, CallersOK
<1>2. runs' # runs
  BY <1>1
<1>3. ASSUME NEW t \in Transports, HandleEvent(t) PROVE FALSE
  BY <1>1, <1>3 DEF HandleEvent
<1>4. ASSUME NEW t \in Transports, BeginReport(t) PROVE FALSE
  BY <1>1, <1>4 DEF BeginReport
<1>5. ASSUME NEW c \in Children, Take(c) PROVE id \in Rows
  <2>1. PICK h \in Requests : h \in Rows /\ runs' = [runs EXCEPT ![h] = @ + 1]
    BY <1>5, TakeIs
  <2> QED BY <1>1, <2>1
<1>6. ASSUME NEW t \in Transports, OpenTransport(t) \/ CloseTransport(t) \/ Poll(t) PROVE FALSE
  BY <1>2, <1>6 DEF OpenTransport, CloseTransport, Poll
<1>7. ASSUME NEW t \in Transports, FinishReport(t) \/ EndBatch(t) \/ WriteFails(t) PROVE FALSE
  BY <1>2, <1>7 DEF FinishReport, EndBatch, WriteFails
<1>8. ASSUME NEW e \in Ids, Request(e) \/ Report(e) \/ SendEvent(e) \/ Wait(e) PROVE FALSE
  BY <1>2, <1>8 DEF Request, Report, SendEvent, Wait, ReadAnswer, Expire, Cancel, ReadFails, Settle
<1>9. ASSUME NEW c \in Children, Attach(c) \/ Detach(c) \/ ChildExit(c) PROVE FALSE
  BY <1>2, <1>9 DEF Attach, Detach, ChildExit
<1>10. ASSUME NEW c \in Children, NEW e \in Ids, Answer(c, e) PROVE FALSE
  BY <1>2, <1>10 DEF Answer
<1>11. ASSUME ParentCrash PROVE FALSE
  BY <1>2, <1>11 DEF ParentCrash
<1>12. ASSUME UNCHANGED vars PROVE FALSE
  BY <1>2, <1>12 DEF vars
<1> QED BY <1>3, <1>4, <1>5, <1>6, <1>7, <1>8, <1>9, <1>10, <1>11, <1>12 DEF Next, Loop

(* As long as no write has failed, a child starts only what somebody waits   *)
(* for, unless that caller died or could not read the table: whoever gives   *)
(* up takes its row along (waitForCommand, close).                           *)
THEOREM NoUnattendedRequestHolds == Spec => NoUnattendedRequest
<1>1. ASSUME MailInv, [Next]_vars
      PROVE  [\A id \in Requests : runs'[id] > runs[id] =>
                \/ id \in waiting \/ faults
                \/ answer[id] = "unreadable"
                \/ \E t \in Transports : link[t] = "dead"]_vars
  BY <1>1, OnlyTakeRuns DEF MailInv, AwaitedOK, Died
<1> QED BY <1>1, MailboxInvariant, PTL DEF Spec, NoUnattendedRequest
=============================================================================
