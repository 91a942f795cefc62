---------------------------- MODULE ServicesProofs -----------------------------
(* What a session owns: that one flush at most wakes the parent and the last *)
(* one does, that no resource outlives its scope, that a call of the Python    *)
(* kernel ends once the kernel has, and that the flags of a compaction are     *)
(* given back; for any channels, events, cells, kernels and attempts.          *)
EXTENDS BackgroundDelivery, Lifecycle, EvalKernel, Compaction, SelectionProofs,
        SequenceTheorems, TLAPS

--------------------------------------------------------------------------------
(* The delivery of what the background has to say (BackgroundDelivery).       *)
CoordTypeOK ==
  /\ order \in Seq(Channels) /\ todo \in Seq(Channels)
  /\ IsInjective(order) /\ IsInjective(todo)
  /\ sends \in Seq(BOOLEAN)
  /\ idle \in BOOLEAN /\ cut \in BOOLEAN

(* Whoever was allowed to wake an idle parent had nobody after it; as long   *)
(* as nobody was, somebody is still to come.                                 *)
WakeOK ==
  idle =>
    /\ \A i \in Wakes : i = Len(sends) /\ \A j \in 1..Len(todo) : ~StillPending(todo[j])
    /\ sends # <<>> /\ ~cut /\ Wakes = {} => \E j \in 1..Len(todo) : StillPending(todo[j])

CoordInv == CoordTypeOK /\ WakeOK

--------------------------------------------------------------------------------
(* A choice among the registered channels keeps each once, in their order.   *)
LEMMA ChosenOK ==
  ASSUME CoordTypeOK, NEW S
  PROVE  /\ Selected(order, S) \in Seq(Channels) /\ IsInjective(Selected(order, S))
         /\ Range(Selected(order, S)) = Registered \cap S
<1>1. order \in Seq(Channels) /\ IsInjective(order)
  BY DEF CoordTypeOK
<1> QED BY <1>1, SelectedRange, SelectedInjective DEF Registered

(* Before the first registration.                                            *)
LEMMA CoordInitOK == Init => CoordInv
<1> SUFFICES ASSUME Init PROVE CoordInv
  OBVIOUS
<1>1. order = <<>> /\ todo = <<>> /\ sends = <<>> /\ idle = FALSE /\ cut = FALSE
  BY DEF Init
<1>2. order \in Seq(Channels) /\ todo \in Seq(Channels) /\ sends \in Seq(BOOLEAN)
  BY <1>1
<1>3. IsInjective(order) /\ IsInjective(todo)
  BY <1>1 DEF IsInjective
<1> QED BY <1>1, <1>2, <1>3 DEF CoordInv, CoordTypeOK, WakeOK

(* Outside a batch the batch before is not touched.                          *)
LEMMA QuietOK ==
  ASSUME CoordInv, ~InBatch, UNCHANGED <<todo, idle, sends, cut>>,
         order' \in Seq(Channels), IsInjective(order')
  PROVE  CoordInv'
<1>1. CoordTypeOK'
  BY DEF CoordInv, CoordTypeOK
<1>2. 1..Len(todo) = {}
  BY DEF InBatch
<1>3. WakeOK'
  BY <1>2 DEF CoordInv, WakeOK, Wakes
<1> QED BY <1>1, <1>3 DEF CoordInv

(* A channel registers at the end, once.                                     *)
LEMMA RegisterKeepsBatch ==
  ASSUME CoordInv, NEW c \in Channels, Register(c)
  PROVE  CoordInv'
<1>1. order \in Seq(Channels) /\ IsInjective(order) /\ c \notin Range(order)
  BY DEF CoordInv, CoordTypeOK, Register, Registered
<1>2. order' = Append(order, c) /\ ~InBatch /\ UNCHANGED <<todo, idle, sends, cut>>
  BY DEF Register
<1>3. /\ order' \in Seq(Channels) /\ DOMAIN order' = 1..(Len(order) + 1)
      /\ order'[Len(order) + 1] = c
      /\ \A i \in 1..Len(order) : order'[i] = order[i] /\ order[i] # c
      /\ DOMAIN order = 1..Len(order) /\ Len(order) \in Nat
  BY <1>1, <1>2 DEF Range
<1>4. \A i \in 1..(Len(order) + 1) : i \in 1..Len(order) \/ i = Len(order) + 1
  BY <1>3
<1>5. IsInjective(order')
  BY <1>1, <1>3, <1>4 DEF IsInjective
<1> QED BY <1>2, <1>3, <1>5, QuietOK

(* A request outside a batch.                                                *)
LEMMA RequestKeepsBatch ==
  ASSUME CoordInv, NEW c \in Channels, Request(c)
  PROVE  CoordInv'
<1>1. order' \in Seq(Channels) /\ IsInjective(order')
  BY DEF CoordInv, CoordTypeOK, Request
<1> QED BY <1>1, QuietOK DEF Request

(* A channel leaves outside a batch.                                         *)
LEMMA DisposeKeepsBatch ==
  ASSUME CoordInv, NEW c \in Channels, Dispose(c)
  PROVE  CoordInv'
<1>1. order' \in Seq(Channels) /\ IsInjective(order')
  BY ChosenOK DEF CoordInv, Dispose, Without
<1> QED BY <1>1, QuietOK DEF Dispose

(* A new batch has sent nothing.                                             *)
LEMMA RunBatchOK ==
  ASSUME CoordInv, RunBatch
  PROVE  CoordInv'
<1>1. /\ order' = order /\ todo' = Selected(order, pending) /\ sends' = <<>>
      /\ idle' \in BOOLEAN /\ cut' = FALSE
  BY DEF RunBatch, Batch
<1>2. todo' \in Seq(Channels) /\ IsInjective(todo') /\ sends' \in Seq(BOOLEAN)
  BY <1>1, ChosenOK DEF CoordInv
<1>3. CoordTypeOK'
  BY <1>1, <1>2 DEF CoordInv, CoordTypeOK
<1>4. WakeOK'
  BY <1>1 DEF WakeOK, Wakes
<1> QED BY <1>3, <1>4 DEF CoordInv

(* The rest of a batch.                                                      *)
LEMMA RestOfBatch ==
  ASSUME CoordTypeOK, InBatch, todo' = Tail(todo)
  PROVE  /\ todo' \in Seq(Channels) /\ IsInjective(todo')
         /\ Len(todo) \in Nat /\ 1 \in 1..Len(todo) /\ Head(todo) = todo[1]
         /\ Len(todo') = Len(todo) - 1
         /\ \A j \in 1..Len(todo') : /\ j + 1 \in 2..Len(todo) /\ todo'[j] = todo[j + 1]
                                    /\ todo[j + 1] # todo[1]
                                    /\ todo[j + 1] \in Range(todo)
         /\ \A j \in 2..Len(todo) : j - 1 \in 1..Len(todo') /\ todo'[j - 1] = todo[j]
<1>1. todo \in Seq(Channels) /\ todo # <<>> /\ IsInjective(todo)
  BY DEF CoordTypeOK, InBatch
<1>2. /\ Len(todo) \in Nat /\ 1 \in 1..Len(todo) /\ Head(todo) = todo[1]
      /\ todo' \in Seq(Channels) /\ Len(todo') = Len(todo) - 1
      /\ \A j \in 1..Len(todo') : todo'[j] = todo[j + 1]
      /\ DOMAIN todo = 1..Len(todo) /\ DOMAIN todo' = 1..Len(todo')
  BY <1>1, HeadTailProperties
<1>3. \A j \in 1..Len(todo') : j + 1 \in 2..Len(todo) /\ j + 1 \in DOMAIN todo
  BY <1>2
<1>4. \A j \in 1..Len(todo') : todo[j + 1] # todo[1] /\ todo[j + 1] \in Range(todo)
  BY <1>1, <1>2, <1>3 DEF IsInjective, Range
<1>5. IsInjective(todo')
  <2>1. ASSUME NEW i \in 1..Len(todo'), NEW j \in 1..Len(todo'), todo'[i] = todo'[j]
        PROVE  i = j
    <3>1. i + 1 = j + 1
      BY <1>1, <1>2, <1>3, <2>1 DEF IsInjective
    <3> QED BY <1>2, <3>1
  <2> QED BY <1>2, <2>1 DEF IsInjective
<1>6. \A j \in 2..Len(todo) : j - 1 \in 1..Len(todo') /\ todo'[j - 1] = todo[j]
  BY <1>2
<1> QED BY <1>2, <1>3, <1>4, <1>5, <1>6

(* A channel that is skipped was not the one to come.                        *)
LEMMA SkipOK ==
  ASSUME CoordInv, Skip
  PROVE  CoordInv'
<1>1. /\ todo' = Tail(todo) /\ ~StillPending(Head(todo)) /\ InBatch
      /\ UNCHANGED <<order, disposed, pending, idle, sends, cut>>
  BY DEF Skip
<1>2. CoordTypeOK'
  BY <1>1, RestOfBatch DEF CoordInv, CoordTypeOK
<1>3. \A j \in 1..Len(todo') : j + 1 \in 1..Len(todo) /\ todo'[j] = todo[j + 1]
  BY <1>1, RestOfBatch DEF CoordInv
<1>4. ASSUME NEW j \in 1..Len(todo), StillPending(todo[j])
      PROVE  \E i \in 1..Len(todo') : StillPending(todo'[i])
  <2>1. j # 1
    BY <1>1, <1>4, RestOfBatch DEF CoordInv
  <2>2. j \in 2..Len(todo)
    BY <2>1
  <2>3. j - 1 \in 1..Len(todo') /\ todo'[j - 1] = todo[j]
    BY <1>1, <2>2, RestOfBatch DEF CoordInv
  <2> QED BY <1>4, <2>3
<1>6. WakeOK'
  <2> SUFFICES ASSUME idle PROVE WakeOK'
    BY <1>1 DEF WakeOK
  <2>1. ASSUME NEW i \in Wakes'
        PROVE  i = Len(sends') /\ \A j \in 1..Len(todo') : ~StillPending(todo'[j])
    <3>1. i \in Wakes
      BY <1>1 DEF Wakes
    <3>2. i = Len(sends) /\ \A j \in 1..Len(todo) : ~StillPending(todo[j])
      BY <3>1 DEF CoordInv, WakeOK
    <3> QED BY <1>1, <1>3, <3>2
  <2>2. ASSUME sends' # <<>>, ~cut', Wakes' = {}
        PROVE  \E j \in 1..Len(todo') : StillPending(todo'[j])
    <3>1. Wakes = {} /\ sends # <<>> /\ ~cut
      BY <1>1, <2>2 DEF Wakes
    <3>2. PICK j \in 1..Len(todo) : StillPending(todo[j])
      BY <3>1 DEF CoordInv, WakeOK
    <3> QED BY <1>4, <3>2
  <2>3. \A j \in 1..Len(todo') : StillPending(todo'[j]) <=> StillPending(todo[j])'
    BY <1>1 DEF StillPending, Registered
  <2> QED BY <2>1, <2>2, <2>3 DEF WakeOK
<1> QED BY <1>2, <1>6 DEF CoordInv

(* A flush changes nothing for those that come after it, unless the host     *)
(* disposed of some of them meanwhile.                                       *)
LEMMA FlushSpares ==
  ASSUME CoordInv, FlushHead
  PROVE  /\ \A j \in 2..Len(todo) : todo[j] \in Range(order') /\ todo[j] \in pending'
                                    => StillPending(todo[j])
         /\ ~cut' => ~cut /\ \A j \in 2..Len(todo) : StillPending(todo[j])
                                    => todo[j] \in Range(order') /\ todo[j] \in pending'
         /\ order' \in Seq(Channels) /\ IsInjective(order') /\ cut' \in BOOLEAN
<1> DEFINE c == Head(todo)
<1>1. PICK threw \in BOOLEAN, gone \in SUBSET Registered, more \in SUBSET Registered :
             /\ more \cap (gone \cup (Range(todo) \ {c})) = {}
             /\ Without(gone)
             /\ pending' = ((IF threw THEN pending ELSE pending \ {c}) \cup more) \ gone
             /\ cut' = (cut \/ threw \/ gone # {})
  BY DEF FlushHead
<1>2. InBatch /\ todo' = Tail(todo) /\ CoordTypeOK
  BY DEF FlushHead, CoordInv
<1>3. ASSUME NEW j \in 2..Len(todo)
      PROVE  todo[j] # c /\ todo[j] \notin more
  <2>1. j - 1 \in 1..Len(todo') /\ todo'[j - 1] = todo[j] /\ (j - 1) + 1 = j
    BY <1>2, RestOfBatch
  <2>2. todo[j] # todo[1] /\ todo[j] \in Range(todo) /\ c = todo[1]
    BY <1>2, <2>1, RestOfBatch
  <2> QED BY <1>1, <2>2
<1>4. order' \in Seq(Channels) /\ IsInjective(order') /\ Range(order') = Registered \ gone
  <2>1. order' = Selected(order, Registered \ gone)
    BY <1>1 DEF Without
  <2>2. Registered \cap (Registered \ gone) = Registered \ gone
    OBVIOUS
  <2> QED BY <1>2, <2>1, <2>2, ChosenOK
<1>5. ASSUME NEW j \in 2..Len(todo), todo[j] \in Range(order'), todo[j] \in pending'
      PROVE  StillPending(todo[j])
  BY <1>1, <1>3, <1>4, <1>5 DEF StillPending
<1>6. ASSUME ~cut', NEW j \in 2..Len(todo), StillPending(todo[j])
      PROVE  todo[j] \in Range(order') /\ todo[j] \in pending'
  BY <1>1, <1>3, <1>4, <1>6 DEF StillPending
<1>8. ~cut' => ~cut
  BY <1>1
<1>9. cut' \in BOOLEAN
  BY <1>1, <1>2 DEF CoordTypeOK
<1> QED BY <1>4, <1>5, <1>6, <1>8, <1>9

(* A flush wakes the parent if nobody comes after it, and somebody does      *)
(* if it does not.                                                           *)
LEMMA FlushHeadOK ==
  ASSUME CoordInv, FlushHead
  PROVE  CoordInv'
<1> DEFINE L == Len(sends)
<1>1. /\ InBatch /\ todo' = Tail(todo) /\ idle' = idle /\ StillPending(Head(todo))
      /\ sends' = Append(sends, ~idle \/ IsLast)
  BY DEF FlushHead
<1>2. CoordTypeOK /\ sends \in Seq(BOOLEAN)
  BY DEF CoordInv, CoordTypeOK
<1>3. /\ sends' \in Seq(BOOLEAN) /\ Len(sends') = L + 1 /\ sends'[L + 1] = (~idle \/ IsLast)
      /\ \A i \in 1..L : sends'[i] = sends[i]
      /\ L \in Nat
  BY <1>1, <1>2
<1>4. CoordTypeOK'
  BY <1>1, <1>2, <1>3, FlushSpares, RestOfBatch DEF CoordTypeOK
<1>5. /\ \A j \in 1..Len(todo') : j + 1 \in 2..Len(todo) /\ todo'[j] = todo[j + 1]
      /\ \A j \in 2..Len(todo) : j - 1 \in 1..Len(todo') /\ todo'[j - 1] = todo[j]
      /\ 1 \in 1..Len(todo) /\ Head(todo) = todo[1]
  BY <1>1, <1>2, RestOfBatch
<1>6. WakeOK'
  <2> SUFFICES ASSUME idle PROVE WakeOK'
    BY <1>1 DEF WakeOK
  <2>1. Wakes = {}
    BY <1>1, <1>5 DEF CoordInv, WakeOK
  <2>2. \A i \in 1..(L + 1) : i \in 1..L \/ i = L + 1
    BY <1>3
  <2>3. \A i \in 1..L : ~sends[i]
    BY <2>1 DEF Wakes
  <2>4. Wakes' = IF IsLast THEN {L + 1} ELSE {}
    <3>1. \A i \in 1..L : ~sends'[i]
      BY <1>3, <2>3
    <3>2. sends'[L + 1] <=> IsLast
      BY <1>3
    <3>3. L + 1 \in 1..Len(sends')
      BY <1>3
    <3> QED BY <1>3, <2>2, <3>1, <3>2, <3>3 DEF Wakes
  <2>5. ASSUME IsLast, NEW j \in 1..Len(todo')
        PROVE  ~(todo'[j] \in Range(order') /\ todo'[j] \in pending')
    BY <1>5, <2>5, FlushSpares DEF IsLast
  <2>6. ASSUME ~IsLast, ~cut'
        PROVE  \E j \in 1..Len(todo') : todo'[j] \in Range(order') /\ todo'[j] \in pending'
    BY <1>5, <2>6, FlushSpares DEF IsLast
  <2> QED BY <1>1, <1>3, <2>4, <2>5, <2>6 DEF WakeOK, StillPending, Registered
<1> QED BY <1>4, <1>6 DEF CoordInv

(* Who woke the parent and who is still to come, in every behaviour of the   *)
(* coordinator.                                                              *)
THEOREM CoordinatorInvariant == Spec => []CoordInv
<1>1. CoordInv /\ [Next]_vars => CoordInv'
  <2> SUFFICES ASSUME CoordInv, [Next]_vars PROVE CoordInv'
    OBVIOUS
  <2>1. CASE Next
    BY <2>1, RegisterKeepsBatch, RequestKeepsBatch, DisposeKeepsBatch, RunBatchOK, SkipOK,
       FlushHeadOK DEF Next
  <2>2. CASE UNCHANGED vars
    <3>1. order' = order /\ todo' = todo /\ sends' = sends /\ idle' = idle /\ cut' = cut
          /\ pending' = pending
      BY <2>2 DEF vars
    <3> QED BY <3>1 DEF CoordInv, CoordTypeOK, WakeOK, Wakes, StillPending, Registered
  <2> QED BY <2>1, <2>2
<1> QED BY CoordInitOK, <1>1, PTL DEF Spec

(* A batch wakes an idle parent at most once, with its last message.         *)
THEOREM OneWakeHolds == Spec => []OneWakeAtTheEnd
<1>1. CoordInv => OneWakeAtTheEnd
  BY DEF CoordInv, WakeOK, OneWakeAtTheEnd
<1> QED BY <1>1, CoordinatorInvariant, PTL

(* A batch that sent something to an idle parent wakes it, unless a flush    *)
(* failed or disposed of a channel.                                          *)
THEOREM NobodyUnheardHolds == Spec => []NobodyUnheard
<1>1. CoordInv => NobodyUnheard
  <2> SUFFICES ASSUME CoordInv, ~InBatch, idle, sends # <<>>, ~cut PROVE Wakes # {}
    BY DEF NobodyUnheard
  <2>1. 1..Len(todo) = {}
    BY DEF InBatch
  <2> QED BY <2>1 DEF CoordInv, WakeOK
<1> QED BY <1>1, CoordinatorInvariant, PTL

--------------------------------------------------------------------------------
(* The scope of an extension (Lifecycle).                                     *)
TransitionKinds       == {"start", "shutdown"}
Transitions == [kind : TransitionKinds, begun : BOOLEAN]

LifecycleTypeOK ==
  /\ events \in 0..MaxEvents /\ scopes \in 0..MaxEvents
  /\ queue \in Seq(Transitions)
  /\ active \in 0..scopes /\ closing \in 0..scopes
  /\ step \in Nat
  /\ entries \in [Scopes -> Seq(Nat)]
  /\ held \subseteq [scope : Scopes, resource : Nat]

(* The scope that answers for what is held: the one on its way out, or else  *)
(* the active one.                                                           *)
Owner == IF closing # 0 THEN closing ELSE active

HasBegun == queue # <<>> /\ Head(queue).begun

(* Only the first transition has begun, and each scope is the work of an     *)
(* event of its own.                                                         *)
QueueOK ==
  /\ \A i \in 2..Len(queue) : ~queue[i].begun
  /\ scopes + Len(queue) <= events + (IF HasBegun THEN 1 ELSE 0)
  /\ closing # 0 => queue # <<>> /\ active = 0
  /\ failed <=> HasBegun /\ closing # 0
  /\ HasBegun => Head(queue).kind = "start" /\ Owner # 0

(* What is held belongs to the owner, which has a cleanup registered for it. *)
HeldOK ==
  \A h \in held :
    /\ h.scope = Owner
    /\ \E i \in 1..Len(entries[h.scope]) : entries[h.scope][i] = h.resource

LifecycleInv == LifecycleTypeOK /\ QueueOK /\ HeldOK

--------------------------------------------------------------------------------
(* The scope of the owner is one of those the events allow.                  *)
LEMMA OwnerIsScope ==
  ASSUME LifecycleTypeOK
  PROVE  Owner \in 0..MaxEvents
  BY LifecycleAssumption DEF LifecycleTypeOK, Owner

(* What the removal of the first transition leaves.                          *)
LEMMA DequeuedOK ==
  ASSUME LifecycleTypeOK, QueueOK, queue # <<>>, Dequeue
  PROVE  /\ queue' \in Seq(Transitions)
         /\ Len(queue') = Len(queue) - 1
         /\ ~HasBegun'
         /\ \A i \in 1..Len(queue') : ~queue'[i].begun
<1> USE DEF LifecycleTypeOK, Dequeue
<1>1. /\ Len(queue) \in Nat /\ Len(queue) # 0
      /\ queue' \in Seq(Transitions)
      /\ Len(queue') = Len(queue) - 1
      /\ \A i \in 1..Len(queue') : queue'[i] = queue[i + 1]
  BY HeadTailProperties, LenProperties, EmptySeq, SeqEqual
<1>2. \A i \in 1..Len(queue') : ~queue'[i].begun
  BY <1>1 DEF QueueOK
<1>3. ~HasBegun'
  <2> SUFFICES ASSUME queue' # <<>> PROVE ~Head(queue').begun
    BY DEF HasBegun
  <2>1. Len(queue') # 0 /\ Len(queue') \in Nat
    BY <1>1, EmptySeq, SeqEqual, LenProperties
  <2>2. Head(queue') = queue'[1]
    BY <1>1, <2>1
  <2>3. ~queue'[1].begun
    <3>1. 1 \in 1..Len(queue')
      BY <2>1
    <3> QED BY <1>2, <3>1, Zenon
  <2> QED BY <2>2, <2>3
<1> QED BY <1>1, <1>2, <1>3

LEMMA LifecycleInitOK == LifecycleInit => LifecycleInv
<1> SUFFICES ASSUME LifecycleInit PROVE LifecycleInv
  OBVIOUS
<1> USE LifecycleAssumption, EmptySeq DEF LifecycleInit
<1>1. LifecycleTypeOK
  BY DEF LifecycleTypeOK, Scopes
<1>2. QueueOK
  BY DEF QueueOK, HasBegun, Owner
<1>3. HeldOK
  BY DEF HeldOK
<1> QED BY <1>1, <1>2, <1>3 DEF LifecycleInv

--------------------------------------------------------------------------------
LEMMA EventOK ==
  ASSUME LifecycleInv, NEW kind \in TransitionKinds, SessionEvent(kind)
  PROVE  LifecycleInv'
<1> DEFINE new == [kind |-> kind, begun |-> FALSE]
<1> USE LifecycleAssumption DEF LifecycleInv, SessionEvent
<1>1. /\ queue' \in Seq(Transitions) /\ Len(queue') = Len(queue) + 1
      /\ \A i \in 1..Len(queue) : queue'[i] = queue[i]
      /\ queue'[Len(queue) + 1] = new
      /\ Len(queue) \in Nat
  <2>1. new \in Transitions
    BY DEF Transitions
  <2> QED BY <2>1, AppendProperties, LenProperties DEF LifecycleTypeOK
<1>2. LifecycleTypeOK'
  BY <1>1 DEF LifecycleTypeOK
<1>3. HasBegun' = HasBegun /\ (HasBegun => Head(queue') = Head(queue)) /\ queue' # <<>>
  <2>1. CASE queue = <<>>
    BY <1>1, <2>1, EmptySeq, AppendProperties DEF HasBegun, LifecycleTypeOK
  <2>2. CASE queue # <<>>
    <3>1. Len(queue) # 0
      BY <2>2, EmptySeq, SeqEqual DEF LifecycleTypeOK
    <3>2. Head(queue') = queue'[1] /\ Head(queue) = queue[1]
      BY <1>1, <3>1
    <3>3. queue' # <<>>
      BY <1>1, EmptySeq
    <3> QED BY <1>1, <2>2, <3>1, <3>2, <3>3 DEF HasBegun
  <2> QED BY <2>1, <2>2
<1>4. QueueOK'
  <2>1. \A i \in 2..Len(queue') : ~queue'[i].begun
    BY <1>1 DEF QueueOK
  <2>2. scopes' + Len(queue') <= events' + (IF HasBegun' THEN 1 ELSE 0)
    BY <1>1, <1>3 DEF QueueOK, LifecycleTypeOK
  <2> QED BY <1>3, <2>1, <2>2 DEF QueueOK, Owner
<1>5. HeldOK'
  BY DEF HeldOK, Owner
<1> QED BY <1>2, <1>4, <1>5

(* A scope that is given up keeps what it holds.                             *)
LEMMA ShutdownOK ==
  ASSUME LifecycleInv, Shutdown
  PROVE  LifecycleInv'
<1> USE LifecycleAssumption DEF LifecycleInv, Shutdown
<1>0. queue # <<>> /\ closing = 0 /\ Head(queue).kind = "shutdown" /\ ~HasBegun
  BY DEF Turn, QueueOK
<1>1. CASE active = 0 /\ Dequeue /\ UNCHANGED <<active, closing, failures, signalled>>
  <2>1. LifecycleTypeOK'
    BY <1>0, <1>1, DequeuedOK DEF LifecycleTypeOK
  <2>2. QueueOK'
    <3>1. scopes' + Len(queue') <= events' + 0
      BY <1>0, <1>1, DequeuedOK, LenProperties DEF QueueOK, LifecycleTypeOK
    <3> QED BY <1>0, <1>1, <3>1, DequeuedOK DEF QueueOK, Owner
  <2>3. HeldOK'
    BY <1>1 DEF HeldOK, Owner
  <2> QED BY <2>1, <2>2, <2>3
<1>2. CASE active # 0 /\ Closes(active) /\ UNCHANGED queue
  <2> USE <1>2 DEF Closes
  <2>1. LifecycleTypeOK'
    BY DEF LifecycleTypeOK
  <2>2. QueueOK'
    BY <1>0 DEF QueueOK, Owner, HasBegun
  <2>3. HeldOK'
    BY <1>0 DEF HeldOK, Owner
  <2> QED BY <2>1, <2>2, <2>3
<1> QED BY <1>1, <1>2

LEMMA StartOK ==
  ASSUME LifecycleInv, Start
  PROVE  LifecycleInv'
<1> USE LifecycleAssumption DEF LifecycleInv, Start
<1>0. queue # <<>> /\ closing = 0 /\ Head(queue).kind = "start" /\ ~HasBegun /\ ~failed
  BY DEF Turn, QueueOK, HasBegun
<1>1. CASE active # 0 /\ Closes(active) /\ UNCHANGED <<queue, scopes, step, failed>>
  <2> USE <1>1 DEF Closes
  <2>1. LifecycleTypeOK'
    BY DEF LifecycleTypeOK
  <2>2. QueueOK'
    BY <1>0 DEF QueueOK, Owner, HasBegun
  <2>3. HeldOK'
    BY <1>0 DEF HeldOK, Owner
  <2> QED BY <2>1, <2>2, <2>3
<1>2. CASE /\ active = 0
           /\ scopes' = scopes + 1 /\ active' = scopes + 1
           /\ queue' = [queue EXCEPT ![1].begun = TRUE]
           /\ step' = 0 /\ failed' = FALSE
           /\ UNCHANGED <<closing, failures, signalled>>
  <2>1. /\ Len(queue) \in Nat /\ Len(queue) # 0 /\ Head(queue) = queue[1]
        /\ queue[1] \in Transitions
    BY <1>0, EmptySeq, SeqEqual, LenProperties, ElementOfSeq DEF LifecycleTypeOK
  <2>2. queue' = [queue EXCEPT ![1] = [queue[1] EXCEPT !.begun = TRUE]]
    BY <1>2
  <2>3. /\ queue' \in Seq(Transitions) /\ Len(queue') = Len(queue)
        /\ \A i \in 2..Len(queue) : queue'[i] = queue[i]
        /\ queue'[1] = [queue[1] EXCEPT !.begun = TRUE]
    <3>1. [queue[1] EXCEPT !.begun = TRUE] \in Transitions
      BY <2>1 DEF Transitions
    <3>2. 1 \in 1..Len(queue) /\ queue \in Seq(Transitions)
      BY <2>1 DEF LifecycleTypeOK
    <3>3. /\ queue' \in Seq(Transitions) /\ Len(queue') = Len(queue)
          /\ \A j \in 1..Len(queue) :
                queue'[j] = IF j = 1 THEN [queue[1] EXCEPT !.begun = TRUE] ELSE queue[j]
      BY <2>2, <3>1, <3>2, ExceptSeq
    <3>4. \A i \in 2..Len(queue) : i \in 1..Len(queue) /\ i # 1
      BY <2>1
    <3>5. 1 \in 1..Len(queue)
      BY <2>1
    <3>6. \A i \in 2..Len(queue) : queue'[i] = queue[i]
      BY <3>3, <3>4, Zenon
    <3>7. queue'[1] = [queue[1] EXCEPT !.begun = TRUE]
      BY <3>3, <3>5, Zenon
    <3> QED BY <3>3, <3>6, <3>7, Zenon
  <2>4. queue' # <<>> /\ Head(queue') = queue'[1]
    BY <2>1, <2>3, EmptySeq
  <2>5. HasBegun' /\ Head(queue').kind = "start"
    BY <1>0, <2>1, <2>3, <2>4 DEF HasBegun, Transitions
  <2>6. scopes + Len(queue) <= events
    BY <1>0 DEF QueueOK, LifecycleTypeOK
  <2>7. LifecycleTypeOK'
    BY <1>0, <1>2, <2>1, <2>3, <2>6 DEF LifecycleTypeOK
  <2>8. QueueOK'
    <3>1. \A i \in 2..Len(queue') : ~queue'[i].begun
      BY <2>1, <2>3 DEF QueueOK
    <3>2. scopes' + Len(queue') <= events' + 1
      BY <1>2, <2>1, <2>3, <2>6 DEF LifecycleTypeOK
    <3>3. Owner' # 0 /\ closing' = 0
      BY <1>0, <1>2 DEF Owner, LifecycleTypeOK
    <3> QED BY <1>2, <2>5, <3>1, <3>2, <3>3 DEF QueueOK
  <2>9. HeldOK'
    <3>1. held = {}
      BY <1>0, <1>2 DEF HeldOK, Owner, LifecycleTypeOK, Scopes
    <3> QED BY <3>1 DEF HeldOK
  <2> QED BY <2>7, <2>8, <2>9
<1> QED BY <1>1, <1>2

LEMMA AcquireOK ==
  ASSUME LifecycleInv, Acquire
  PROVE  LifecycleInv'
<1> USE LifecycleAssumption DEF LifecycleInv, Acquire
<1> DEFINE h0 == [scope |-> active, resource |-> step + 1]
<1>0. closing = 0 /\ active \in Scopes /\ Owner = active
  BY DEF Turn, QueueOK, Owner, HasBegun, LifecycleTypeOK, Scopes
<1>1. /\ entries[active] \in Seq(Nat) /\ step + 1 \in Nat
      /\ entries' = [entries EXCEPT ![active] = Append(entries[active], step + 1)]
  BY <1>0 DEF LifecycleTypeOK
<1>2. /\ Append(entries[active], step + 1) \in Seq(Nat)
      /\ Len(entries'[active]) = Len(entries[active]) + 1
      /\ Len(entries[active]) \in Nat
      /\ \A i \in 1..Len(entries[active]) : entries'[active][i] = entries[active][i]
      /\ entries'[active][Len(entries[active]) + 1] = step + 1
  BY <1>0, <1>1, AppendProperties, LenProperties DEF LifecycleTypeOK
<1>3. LifecycleTypeOK'
  BY <1>0, <1>1, <1>2 DEF LifecycleTypeOK
<1>4. QueueOK'
  BY DEF QueueOK, Owner, HasBegun
<1>5. HeldOK'
  <2> SUFFICES ASSUME NEW h \in held'
               PROVE  /\ h.scope = Owner'
                      /\ \E i \in 1..Len(entries'[h.scope]) : entries'[h.scope][i] = h.resource
    BY DEF HeldOK
  <2>1. Owner' = active
    BY <1>0 DEF Owner
  <2>2. CASE h \in held
    <3>1. PICK i \in 1..Len(entries[active]) : entries[active][i] = h.resource
      BY <1>0, <2>2 DEF HeldOK
    <3>2. h.scope = active /\ active \in Scopes
      BY <1>0, <2>2 DEF HeldOK
    <3>3. i \in 1..Len(entries'[active]) /\ entries'[active][i] = h.resource
      BY <1>2, <3>1
    <3> QED BY <2>1, <3>2, <3>3
  <2>3. CASE h = h0
    BY <1>2, <2>1, <2>3
  <2> QED BY <2>2, <2>3
<1> QED BY <1>3, <1>4, <1>5

LEMMA ThrowsOK ==
  ASSUME LifecycleInv, StartThrows
  PROVE  LifecycleInv'
<1> USE LifecycleAssumption DEF LifecycleInv, StartThrows, Closes
<1>0. closing = 0 /\ HasBegun /\ active # 0
  BY DEF Turn, QueueOK, Owner, HasBegun
<1>1. LifecycleTypeOK'
  BY DEF LifecycleTypeOK
<1>2. QueueOK'
  BY <1>0 DEF QueueOK, Owner, HasBegun
<1>3. HeldOK'
  BY <1>0 DEF HeldOK, Owner
<1> QED BY <1>1, <1>2, <1>3

LEMMA StartedOK ==
  ASSUME LifecycleInv, Started
  PROVE  LifecycleInv'
<1> USE LifecycleAssumption DEF LifecycleInv, Started
<1>0. queue # <<>> /\ closing = 0 /\ HasBegun /\ ~failed /\ Dequeue
  BY DEF Turn, HasBegun
<1>1. LifecycleTypeOK'
  BY <1>0, DequeuedOK DEF LifecycleTypeOK
<1>2. QueueOK'
  <2>1. scopes' + Len(queue') <= events' + 0
    BY <1>0, DequeuedOK, LenProperties DEF QueueOK, LifecycleTypeOK
  <2>2. \A i \in 2..Len(queue') : ~queue'[i].begun
    BY <1>0, DequeuedOK
  <2> QED BY <1>0, <2>1, <2>2, DequeuedOK DEF QueueOK, Owner
<1>3. HeldOK'
  BY DEF HeldOK, Owner
<1> QED BY <1>1, <1>2, <1>3

(* A release drops the youngest cleanup and what it stood for.               *)
LEMMA ReleaseOK ==
  ASSUME LifecycleInv, NEW ok \in BOOLEAN, Release(ok)
  PROVE  LifecycleInv'
<1> USE LifecycleAssumption DEF LifecycleInv, Release
<1> DEFINE n == Len(entries[closing])
<1>0. closing \in Scopes /\ entries[closing] \in Seq(Nat) /\ Owner = closing
  BY DEF LifecycleTypeOK, Scopes, Owner
<1>1. n \in Nat /\ n # 0
  BY <1>0, EmptySeq, SeqEqual, LenProperties
<1>2. /\ SubSeq(entries[closing], 1, n - 1) \in Seq(Nat)
      /\ entries'[closing] = SubSeq(entries[closing], 1, n - 1)
      /\ Len(entries'[closing]) = n - 1
      /\ \A i \in 1..(n - 1) : entries'[closing][i] = entries[closing][i]
  <2>1. /\ SubSeq(entries[closing], 1, n - 1) \in Seq(Nat)
        /\ Len(SubSeq(entries[closing], 1, n - 1)) = n - 1
        /\ \A i \in 1..(n - 1) : SubSeq(entries[closing], 1, n - 1)[i] = entries[closing][i]
    BY <1>0, <1>1, SubSeqProperties
  <2>2. entries'[closing] = SubSeq(entries[closing], 1, n - 1)
    BY <1>0 DEF LifecycleTypeOK
  <2> QED BY <2>1, <2>2
<1>3. LifecycleTypeOK'
  BY <1>0, <1>2 DEF LifecycleTypeOK
<1>4. QueueOK'
  BY DEF QueueOK, Owner, HasBegun
<1>5. HeldOK'
  <2> SUFFICES ASSUME NEW h \in held'
               PROVE  /\ h.scope = Owner'
                      /\ \E i \in 1..Len(entries'[h.scope]) : entries'[h.scope][i] = h.resource
    BY DEF HeldOK
  <2>1. h \in held /\ h.scope = closing /\ Owner' = closing
    BY <1>0 DEF HeldOK, Owner
  <2>2. PICK i \in 1..n : entries[closing][i] = h.resource
    BY <2>1 DEF HeldOK
  <2>3. i # n
    BY <2>1, <2>2 DEF LifecycleTypeOK
  <2>4. i \in 1..(n - 1)
    BY <1>1, <2>3
  <2> QED BY <1>2, <2>1, <2>2, <2>4
<1> QED BY <1>3, <1>4, <1>5

(* When the last cleanup has run, nothing is held.                           *)
LEMMA CleanedOK ==
  ASSUME LifecycleInv, Cleaned
  PROVE  LifecycleInv'
<1> USE LifecycleAssumption DEF LifecycleInv, Cleaned
<1>0. queue # <<>> /\ active = 0 /\ Owner = closing
  BY DEF QueueOK, Owner
<1>1. held = {}
  BY <1>0, EmptySeq DEF HeldOK, Leftover
<1>2. CASE UNCHANGED queue /\ Head(queue).kind = "start" /\ ~Head(queue).begun
  <2>1. LifecycleTypeOK'
    BY <1>2 DEF LifecycleTypeOK
  <2>2. QueueOK'
    BY <1>0, <1>2 DEF QueueOK, Owner, HasBegun
  <2> QED BY <1>1, <2>1, <2>2 DEF HeldOK
<1>3. CASE Dequeue
  <2>1. LifecycleTypeOK'
    BY <1>0, <1>3, DequeuedOK DEF LifecycleTypeOK
  <2>2. QueueOK'
    <3>1. scopes' + Len(queue') <= events' + 0
      BY <1>0, <1>3, DequeuedOK, LenProperties DEF QueueOK, LifecycleTypeOK
    <3>2. \A i \in 2..Len(queue') : ~queue'[i].begun
      BY <1>0, <1>3, DequeuedOK
    <3> QED BY <1>0, <1>3, <3>1, <3>2, DequeuedOK DEF QueueOK, Owner
  <2> QED BY <1>1, <2>1, <2>2 DEF HeldOK
<1> QED BY <1>2, <1>3

LEMMA LifecycleStepOK == LifecycleInv /\ [LifecycleNext]_lifecycleVars => LifecycleInv'
<1> SUFFICES ASSUME LifecycleInv, [LifecycleNext]_lifecycleVars PROVE LifecycleInv'
  OBVIOUS
<1>1. CASE UNCHANGED lifecycleVars
  BY <1>1 DEF lifecycleVars, LifecycleInv, LifecycleTypeOK, QueueOK, HeldOK, Owner, HasBegun
<1>2. ASSUME NEW kind \in TransitionKinds, SessionEvent(kind) PROVE LifecycleInv'
  BY <1>2, EventOK
<1>3. CASE \E ok \in BOOLEAN : Release(ok)
  BY <1>3, ReleaseOK
<1>4. CASE Shutdown \/ Start \/ Acquire \/ StartThrows \/ Started \/ Cleaned
  BY <1>4, ShutdownOK, StartOK, AcquireOK, ThrowsOK, StartedOK, CleanedOK
<1> QED BY <1>1, <1>2, <1>3, <1>4 DEF LifecycleNext, TransitionKinds

LEMMA InvImpliesHeld == LifecycleInv => HeldByTheActive
  BY DEF LifecycleInv, QueueOK, HeldOK, Owner, HeldByTheActive

(* Whatever starts, shuts down or fails: what is held belongs to one scope,  *)
(* and to the active one whenever no transition runs.                        *)
THEOREM HeldStaysWithTheActive == LifecycleSpec => []HeldByTheActive
<1>1. LifecycleInit => LifecycleInv
  BY LifecycleInitOK
<1>2. LifecycleInv /\ [LifecycleNext]_lifecycleVars => LifecycleInv'
  BY LifecycleStepOK
<1> QED BY <1>1, <1>2, InvImpliesHeld, PTL DEF LifecycleSpec

--------------------------------------------------------------------------------
(* The Python kernel and its calls (EvalKernel).                              *)
Facts     == {"none", "started", "ended"}
Process   == [life : {"unborn", "booting", "idle", "busy", "gone"}, ready : BOOLEAN,
              doomed : BOOLEAN, seen : BOOLEAN, queue : SUBSET Cells, cell : 0..MaxCells]
CallState == [phase : {"none", "starting", "running"}, cell : 0..MaxCells, reset : BOOLEAN,
              restarted : BOOLEAN, note : BOOLEAN, aborted : BOOLEAN, interrupted : BOOLEAN]
Answers   == [kind : {"none", "failed", "returned"}, reset : BOOLEAN, restarted : BOOLEAN,
              warned : BOOLEAN, unsaid : BOOLEAN, doubted : BOOLEAN]

Stores    == [readable : BOOLEAN, generation : 0..MaxKernels, recovery : BOOLEAN]

HostTypeOK ==
  /\ opens \in Nat /\ session \in BOOLEAN /\ reported \in BOOLEAN
  /\ store \in Stores
  /\ last \in 0..MaxKernels /\ slot \in 0..MaxKernels /\ timer \in 0..MaxCells
  /\ call \in CallState /\ shown \in Answers

BranchTypeOK ==
  /\ wire \subseteq [cell : Cells, ok : BOOLEAN]
  /\ facts \in [Cells -> Facts] /\ recent \in 0..MaxKernels
  /\ ran \subseteq Cells /\ doubt \subseteq Cells /\ crossed \subseteq Cells
  /\ holder \in 0..MaxKernels /\ unsaid \in BOOLEAN

EvalTypeOK == HostTypeOK /\ BranchTypeOK /\ kernel \in [Kernels -> Process]

SlotOK ==
  /\ slot # None => /\ session /\ kernel[slot].life # "unborn"
                    /\ ~kernel[slot].doomed /\ ~kernel[slot].seen
  /\ Idle \/ slot # None
  /\ \A k \in Kernels : /\ Alive(k) /\ ~kernel[k].doomed => k = slot
                        /\ kernel[k].life = "unborn" => kernel[k] = Unborn
                        /\ kernel[k].seen => Over(k)
                        /\ kernel[k].life = "busy" <=> kernel[k].cell # None

CellsOK ==
  /\ \A k \in Kernels : /\ kernel[k].cell \notin kernel[k].queue
                        /\ \A j \in Kernels \ {k} : Sent(k) \cap Sent(j) = {}
                        /\ \A m \in wire : m.cell \notin Sent(k)
  /\ \A c \in Cells : facts[c] = "none" =>
       /\ c \notin ran /\ (Running => c # call.cell)
       /\ \A k \in Kernels : c \notin Sent(k)
       /\ \A m \in wire : m.cell # c
  /\ call.phase = "starting" => CellLeft
  /\ Running => call.cell # None

DoubtOK ==
  /\ doubt # {} => ~reported /\ (~store.readable \/ store.recovery)
  /\ ~Idle => call.note = (~store.readable \/ store.recovery)

EvalInv == EvalTypeOK /\ SlotOK /\ CellsOK /\ DoubtOK /\ BlocksUntilEnd /\ UnknownIsTold

LEMMA NewCellIs ==
  ASSUME EvalTypeOK, CellLeft
  PROVE  NewCell \in Cells /\ facts[NewCell] = "none"
<1> DEFINE T == {c \in Cells : facts[c] = "none"}
<1>1. T \in SUBSET Nat /\ T # {}
  BY DEF CellLeft, Cells
<1>2. PICK c \in T : \A m \in T : c <= m
  <2> HIDE DEF T
  <2> QED BY <1>1, LeastOf
<1>3. \A d \in 1..(c - 1) : d \in Cells /\ ~(c <= d)
  BY EvalAssumption DEF Cells
<1>4. facts[c] = "none" /\ \A d \in 1..(c - 1) : facts[d] # "none"
  BY <1>2, <1>3
<1> QED BY <1>4 DEF NewCell

LEMMA FreshIs ==
  ASSUME EvalTypeOK, Spawnable
  PROVE  Fresh \in Kernels /\ kernel[Fresh].life = "unborn"
<1> DEFINE T == {k \in Kernels : kernel[k].life = "unborn"}
<1>1. T \in SUBSET Nat /\ T # {}
  BY DEF Spawnable, Kernels
<1>2. PICK c \in T : \A m \in T : c <= m
  <2> HIDE DEF T
  <2> QED BY <1>1, LeastOf
<1>3. \A d \in 1..(c - 1) : d \in Kernels /\ ~(c <= d)
  BY EvalAssumption DEF Kernels
<1>4. kernel[c].life = "unborn" /\ \A d \in 1..(c - 1) : kernel[d].life # "unborn"
  BY <1>2, <1>3
<1> QED BY <1>4 DEF Fresh

LEMMA EvalInitOK == EvalInit => EvalInv
<1> SUFFICES ASSUME EvalInit PROVE EvalInv
  OBVIOUS
<1> USE EvalAssumption DEF EvalInit, None, Cells, Kernels, Unborn, NoCall, Unanswered
<1>1. EvalTypeOK
  <2>1. HostTypeOK
    <3>1. opens \in Nat /\ session \in BOOLEAN /\ reported \in BOOLEAN
      OBVIOUS
    <3>2. store \in Stores
      BY DEF Stores
    <3>3. last \in 0..MaxKernels /\ slot \in 0..MaxKernels /\ timer \in 0..MaxCells
      OBVIOUS
    <3>4. call \in CallState
      BY DEF CallState
    <3>5. shown \in Answers
      BY DEF Answers
    <3> QED BY <3>1, <3>2, <3>3, <3>4, <3>5 DEF HostTypeOK
  <2>2. BranchTypeOK
    <3>1. facts \in [Cells -> Facts] /\ recent \in 0..MaxKernels
      BY DEF Facts
    <3>2. wire \subseteq [cell : Cells, ok : BOOLEAN] /\ ran \subseteq Cells /\ doubt \subseteq Cells
          /\ crossed \subseteq Cells
      OBVIOUS
    <3>3. holder \in 0..MaxKernels
      OBVIOUS
    <3>4. unsaid \in BOOLEAN
      OBVIOUS
    <3> QED BY <3>1, <3>2, <3>3, <3>4 DEF BranchTypeOK
  <2>3. kernel \in [Kernels -> Process]
    BY DEF Process
  <2> QED BY <2>1, <2>2, <2>3 DEF EvalTypeOK
<1>2. SlotOK
  BY DEF SlotOK, Idle, Running, Alive, Over, Sent
<1>3. CellsOK
  BY DEF CellsOK, Idle, Running, Sent, CellLeft
<1>4. DoubtOK
  BY DEF DoubtOK, Idle
<1>5. BlocksUntilEnd /\ UnknownIsTold
  BY DEF BlocksUntilEnd, UnknownIsTold, Alive, Sent
<1> QED BY <1>1, <1>2, <1>3, <1>4, <1>5 DEF EvalInv

(* What the end fact of a cell leaves on the branch.                         *)
LEMMA EndFactIs ==
  ASSUME EvalTypeOK, NEW c \in Cells, NEW g \in 0..MaxKernels, EndFact(c, g)
  PROVE  /\ facts' \in [Cells -> Facts]
         /\ \A d \in Cells : facts'[d] = "none" => facts[d] = "none"
         /\ recent' \in 0..MaxKernels
         /\ store' \in Stores
         /\ store'.readable = store.readable /\ store'.recovery = store.recovery
<1> USE DEF EvalTypeOK, BranchTypeOK, Facts
<1>1. /\ store' \in Stores
      /\ store'.readable = store.readable /\ store'.recovery = store.recovery
  BY DEF EndFact, Stores, HostTypeOK
<1>2. CASE facts' = [facts EXCEPT ![c] = "ended"] /\ recent' = g
  BY <1>1, <1>2
<1>3. CASE UNCHANGED <<facts, recent>>
  BY <1>1, <1>3
<1> QED BY <1>2, <1>3 DEF EndFact

LEMMA Replies ==
  ASSUME EvalTypeOK, Running, call.cell # None, Reject
  PROVE  /\ call' = NoCall /\ timer' = None /\ reported' = reported
         /\ shown' \in Answers /\ shown'.kind = "failed"
         /\ facts' \in [Cells -> Facts]
         /\ \A c \in Cells : facts'[c] = "none" => facts[c] = "none"
         /\ recent' \in 0..MaxKernels
         /\ store' \in Stores
         /\ store'.readable = store.readable /\ store'.recovery = store.recovery
<1>1. call.cell \in Cells /\ last \in 0..MaxKernels
  BY DEF EvalTypeOK, HostTypeOK, CallState, Cells, None
<1>2. shown' \in Answers /\ shown'.kind = "failed"
  BY DEF EvalTypeOK, HostTypeOK, CallState, Reject, ThrowsUp, Answers, Unanswered
<1>3. EndFact(call.cell, last)
  BY DEF Reject
<1> QED BY <1>1, <1>2, <1>3, EndFactIs DEF Reject, Ended

LEMMA ReturnsIs ==
  ASSUME EvalTypeOK, Running, call.cell # None, DoubtOK, Returns
  PROVE  /\ call' = NoCall /\ timer' = None
         /\ shown' \in Answers /\ UnknownIsTold'
         /\ facts' \in [Cells -> Facts]
         /\ \A c \in Cells : facts'[c] = "none" => facts[c] = "none"
         /\ recent' \in 0..MaxKernels
         /\ store' \in Stores
         /\ store'.readable = store.readable /\ store'.recovery = store.recovery
         /\ reported' \in BOOLEAN /\ unsaid' \in BOOLEAN
         /\ doubt' \subseteq Cells
         /\ doubt' # {} => doubt' = doubt /\ reported' = reported
<1> USE DEF EvalTypeOK, HostTypeOK, BranchTypeOK, Returns, Ended, None
<1>1. call.cell \in Cells /\ last \in 0..MaxKernels /\ EndFact(call.cell, last)
  BY DEF CallState, Cells
<1>2. shown' \in Answers
  BY DEF CallState, Answers
<1>3. reported' \in BOOLEAN /\ unsaid' \in BOOLEAN
  BY DEF CallState
<1>4. UnknownIsTold'
  BY DEF UnknownIsTold, DoubtOK, CallState, Idle, Running
<1> QED BY <1>1, <1>2, <1>3, <1>4, EndFactIs

LEMMA EarlyIs ==
  ASSUME EvalTypeOK, FailsEarly
  PROVE  call' = NoCall /\ timer' = None /\ shown' \in Answers /\ shown'.kind = "failed"
  BY DEF EvalTypeOK, HostTypeOK, FailsEarly, Ended, ThrowsUp, Answers, Unanswered, CallState

(* One kernel changes.                                                       *)
LEMMA OneKernel ==
  ASSUME EvalTypeOK, NEW k \in Kernels, NEW p \in Process, kernel' = [kernel EXCEPT ![k] = p]
  PROVE  /\ kernel' \in [Kernels -> Process]
         /\ kernel'[k] = p
         /\ \A j \in Kernels \ {k} : kernel'[j] = kernel[j]
  BY DEF EvalTypeOK

(* The kernel in the slot is killed.                                         *)
LEMMA DoomedIs ==
  ASSUME EvalTypeOK, NEW k \in Kernels
  PROVE  /\ Doomed(k) \in [Kernels -> Process]
         /\ Doomed(k) = [kernel EXCEPT ![k] = [kernel[k] EXCEPT !.doomed = TRUE]]
         /\ \A j \in Kernels \ {k} : Doomed(k)[j] = kernel[j]
         /\ Doomed(k)[k] = [kernel[k] EXCEPT !.doomed = TRUE]
<1> USE DEF EvalTypeOK
<1>1. k # None
  BY DEF Kernels, None
<1>2. Doomed(k) = [kernel EXCEPT ![k] = [kernel[k] EXCEPT !.doomed = TRUE]]
  BY <1>1 DEF Doomed
<1>3. [kernel[k] EXCEPT !.doomed = TRUE] \in Process
  BY DEF Process
<1> QED BY <1>2, <1>3

LEMMA NoCallTyped == NoCall \in CallState /\ None \in 0..MaxCells /\ None \in 0..MaxKernels
<1> USE EvalAssumption DEF None
<1>1. None \in 0..MaxCells /\ None \in 0..MaxKernels
  OBVIOUS
<1> QED BY <1>1 DEF NoCall, CallState

(* What an action that kills the kernel in the slot does to the others.      *)
LEMMA KilledIs ==
  ASSUME EvalTypeOK, SlotOK, slot # None, kernel' = Doomed(slot)
  PROVE  /\ slot \in Kernels /\ kernel' \in [Kernels -> Process]
         /\ \A j \in Kernels \ {slot} : kernel'[j] = kernel[j]
         /\ kernel'[slot].life = kernel[slot].life /\ kernel'[slot].doomed = TRUE
         /\ kernel'[slot].seen = kernel[slot].seen /\ kernel'[slot].ready = kernel[slot].ready
         /\ kernel'[slot].queue = kernel[slot].queue /\ kernel'[slot].cell = kernel[slot].cell
<1>1. slot \in Kernels
  BY DEF EvalTypeOK, HostTypeOK, Kernels, None
<1>2. /\ kernel' \in [Kernels -> Process]
      /\ \A j \in Kernels \ {slot} : kernel'[j] = kernel[j]
      /\ kernel'[slot] = [kernel[slot] EXCEPT !.doomed = TRUE]
  BY <1>1, DoomedIs
<1> QED BY <1>1, <1>2 DEF EvalTypeOK, Process

(* The slot is given up with its kernel killed and nothing running.          *)
LEMMA GivenUpOK ==
  ASSUME EvalTypeOK, SlotOK, CellsOK, slot # None, kernel' = Doomed(slot), slot' = None,
         call' = NoCall, timer' = None, facts' \in [Cells -> Facts], wire' = wire, ran' = ran,
         \A c \in Cells : facts'[c] = "none" => facts[c] = "none", session' = session
  PROVE  /\ kernel' \in [Kernels -> Process]
         /\ SlotOK' /\ CellsOK' /\ BlocksUntilEnd'
<1>1. /\ slot \in Kernels /\ kernel' \in [Kernels -> Process]
      /\ \A j \in Kernels \ {slot} : kernel'[j] = kernel[j]
      /\ kernel'[slot].life = kernel[slot].life /\ kernel'[slot].doomed = TRUE
      /\ kernel'[slot].seen = kernel[slot].seen /\ kernel'[slot].ready = kernel[slot].ready
      /\ kernel'[slot].queue = kernel[slot].queue /\ kernel'[slot].cell = kernel[slot].cell
  BY KilledIs
<1>2. Idle' /\ ~Running'
  BY DEF Idle, Running, NoCall
<1>3. SlotOK'
  <2>1. ASSUME NEW k \in Kernels
        PROVE  /\ ~(Alive(k) /\ ~kernel[k].doomed)'
               /\ (kernel[k].life = "unborn" => kernel[k] = Unborn)'
               /\ (kernel[k].seen => Over(k))'
               /\ (kernel[k].life = "busy" <=> kernel[k].cell # None)'
    BY <1>1 DEF SlotOK, Alive, Over
  <2> QED BY <1>2, <2>1 DEF SlotOK
<1>4. \A k \in Kernels : Sent(k)' = Sent(k)
  BY <1>1 DEF Sent
<1>5. CellsOK'
  <2>1. ASSUME NEW k \in Kernels
        PROVE  /\ kernel'[k].cell \notin kernel'[k].queue
               /\ \A j \in Kernels \ {k} : Sent(k)' \cap Sent(j)' = {}
               /\ \A m \in wire' : m.cell \notin Sent(k)'
    BY <1>1, <1>4 DEF CellsOK
  <2>2. ASSUME NEW c \in Cells, facts'[c] = "none"
        PROVE  /\ c \notin ran'
               /\ \A k \in Kernels : c \notin Sent(k)'
               /\ \A m \in wire' : m.cell # c
    BY <1>4, <2>2 DEF CellsOK
  <2>3. call'.phase # "starting" /\ ~Running'
    BY <1>2 DEF NoCall
  <2> QED BY <2>1, <2>2, <2>3 DEF CellsOK
<1>6. BlocksUntilEnd'
  BY <1>1 DEF BlocksUntilEnd, SlotOK, Alive
<1> QED BY <1>1, <1>3, <1>5, <1>6

LEMMA ReadyTimeoutOK ==
  ASSUME EvalInv, ReadyTimeout
  PROVE  EvalInv'
<1> USE DEF EvalInv, ReadyTimeout
<1>1. call' = NoCall /\ timer' = None /\ shown' \in Answers /\ shown'.kind = "failed"
  BY EarlyIs
<1>2. slot # None
  BY DEF SlotOK, Idle
<1>3. kernel' \in [Kernels -> Process] /\ SlotOK' /\ CellsOK' /\ BlocksUntilEnd'
  <2>1. facts \in [Cells -> Facts]
    BY DEF EvalTypeOK, BranchTypeOK
  <2> QED BY <1>1, <1>2, <2>1, GivenUpOK
<1>4. HostTypeOK'
  BY <1>1, NoCallTyped DEF EvalTypeOK, HostTypeOK
<1>5. BranchTypeOK'
  BY DEF EvalTypeOK, BranchTypeOK
<1>6. DoubtOK'
  BY <1>1 DEF DoubtOK, Idle, NoCall
<1>7. UnknownIsTold'
  BY <1>1 DEF UnknownIsTold
<1> QED BY <1>3, <1>4, <1>5, <1>6, <1>7 DEF EvalTypeOK

LEMMA EscalateOK ==
  ASSUME EvalInv, Escalate
  PROVE  EvalInv'
<1> USE DEF EvalInv, Escalate
<1>1. Running /\ slot # None /\ call.cell # None
  BY DEF SlotOK, Idle, Running, CellsOK, BlocksUntilEnd
<1>2. /\ call' = NoCall /\ timer' = None /\ reported' = reported
      /\ shown' \in Answers /\ shown'.kind = "failed"
      /\ facts' \in [Cells -> Facts]
      /\ \A c \in Cells : facts'[c] = "none" => facts[c] = "none"
      /\ recent' \in 0..MaxKernels
      /\ store' \in Stores
      /\ store'.readable = store.readable /\ store'.recovery = store.recovery
  BY <1>1, Replies
<1>3. kernel' \in [Kernels -> Process] /\ SlotOK' /\ CellsOK' /\ BlocksUntilEnd'
  BY <1>1, <1>2, GivenUpOK
<1>4. HostTypeOK'
  BY <1>2, NoCallTyped DEF EvalTypeOK, HostTypeOK
<1>5. BranchTypeOK'
  <2>1. unsaid' \in BOOLEAN
    BY DEF Loses, EvalTypeOK, BranchTypeOK
  <2> QED BY <1>2, <2>1 DEF EvalTypeOK, BranchTypeOK
<1>6. DoubtOK'
  BY <1>2 DEF DoubtOK, Idle, NoCall
<1>7. UnknownIsTold'
  BY <1>2 DEF UnknownIsTold
<1> QED BY <1>3, <1>4, <1>5, <1>6, <1>7 DEF EvalTypeOK

(* The call is over, the kernel stays.                                       *)
LEMMA KeptOK ==
  ASSUME EvalTypeOK, SlotOK, CellsOK, kernel' = kernel, slot' = slot, call' = NoCall,
         wire' \subseteq wire, ran' = ran, session' = session,
         \A c \in Cells : facts'[c] = "none" => facts[c] = "none"
  PROVE  SlotOK' /\ CellsOK'
<1>1. Idle' /\ ~Running' /\ call'.phase # "starting"
  BY DEF Idle, Running, NoCall
<1>2. SlotOK'
  BY <1>1 DEF SlotOK, Alive, Over
<1>3. \A k \in Kernels : Sent(k)' = Sent(k)
  BY DEF Sent
<1>4. CellsOK'
  BY <1>1, <1>3 DEF CellsOK
<1> QED BY <1>2, <1>4

LEMMA DoneOK ==
  ASSUME EvalInv, NEW m \in wire, Done(m)
  PROVE  EvalInv'
<1> USE DEF EvalInv, Done
<1>1. CASE Running /\ m.cell = call.cell
  <2>0. call.cell # None
    BY <1>1 DEF CellsOK
  <2>1. /\ call' = NoCall /\ timer' = None
        /\ shown' \in Answers /\ UnknownIsTold'
        /\ facts' \in [Cells -> Facts]
        /\ \A c \in Cells : facts'[c] = "none" => facts[c] = "none"
        /\ recent' \in 0..MaxKernels /\ store' \in Stores
        /\ store'.readable = store.readable /\ store'.recovery = store.recovery
        /\ reported' \in BOOLEAN /\ unsaid' \in BOOLEAN /\ doubt' \subseteq Cells
        /\ doubt' # {} => doubt' = doubt /\ reported' = reported
    <3>1. CASE Returns
      BY <1>1, <2>0, <3>1, ReturnsIs
    <3>2. CASE Reject /\ UNCHANGED <<unsaid, doubt>>
      <4>1. reported' = reported /\ shown'.kind = "failed"
        BY <1>1, <2>0, <3>2, Replies
      <4>2. UnknownIsTold'
        BY <4>1 DEF UnknownIsTold
      <4>3. reported' \in BOOLEAN /\ unsaid' \in BOOLEAN /\ doubt' \subseteq Cells
        BY <4>1, <3>2 DEF EvalTypeOK, HostTypeOK, BranchTypeOK
      <4> QED BY <1>1, <2>0, <3>2, <4>1, <4>2, <4>3, Replies
    <3> QED BY <1>1, <3>1, <3>2
  <2>2. SlotOK' /\ CellsOK'
    BY <2>1, KeptOK
  <2>3. HostTypeOK'
    BY <2>1, NoCallTyped DEF EvalTypeOK, HostTypeOK
  <2>4. BranchTypeOK'
    BY <2>1 DEF EvalTypeOK, BranchTypeOK
  <2>5. DoubtOK'
    BY <2>1 DEF DoubtOK, Idle, NoCall
  <2>6. BlocksUntilEnd'
    <3>1. ASSUME NEW k \in Kernels, Alive(k), ~kernel[k].doomed
          PROVE  Sent(k)' \subseteq crossed
      <4>1. Sent(k)' = Sent(k)
        BY DEF Sent
      <4> QED BY <1>1, <3>1, <4>1 DEF BlocksUntilEnd, CellsOK
    <3> QED BY <2>1, <3>1 DEF BlocksUntilEnd, Alive
  <2> QED BY <2>1, <2>2, <2>3, <2>4, <2>5, <2>6 DEF EvalTypeOK
<1>2. CASE ~(Running /\ m.cell = call.cell)
  <2>1. UNCHANGED <<call, timer, shown, facts, recent, store, reported, unsaid, doubt>>
    BY <1>2
  <2>2. EvalTypeOK'
    BY <2>1 DEF EvalTypeOK, HostTypeOK, BranchTypeOK
  <2>3. SlotOK'
    BY <2>1 DEF SlotOK, Alive, Over, Idle, Running
  <2>4. CellsOK'
    BY <2>1 DEF CellsOK, Sent, CellLeft, Running
  <2>5. DoubtOK' /\ UnknownIsTold'
    BY <2>1 DEF DoubtOK, UnknownIsTold, Idle
  <2>6. BlocksUntilEnd'
    BY <2>1 DEF BlocksUntilEnd, Alive, Running, Sent
  <2> QED BY <2>2, <2>3, <2>4, <2>5, <2>6
<1> QED BY <1>1, <1>2

LEMMA ExitSeenOK ==
  ASSUME EvalInv, NEW k \in Kernels, ExitSeen(k)
  PROVE  EvalInv'
<1> USE DEF EvalInv, ExitSeen
<1>1. /\ kernel' \in [Kernels -> Process]
      /\ \A j \in Kernels \ {k} : kernel'[j] = kernel[j]
      /\ kernel'[k] = [kernel[k] EXCEPT !.seen = TRUE]
  <2>1. [kernel[k] EXCEPT !.seen = TRUE] \in Process
    BY DEF EvalTypeOK, Process
  <2>2. kernel' = [kernel EXCEPT ![k] = [kernel[k] EXCEPT !.seen = TRUE]]
    BY DEF EvalTypeOK
  <2> QED BY <2>1, <2>2, OneKernel
<1>2. /\ kernel'[k].life = "gone" /\ kernel'[k].doomed = kernel[k].doomed
      /\ kernel'[k].seen = TRUE
      /\ kernel'[k].queue = kernel[k].queue /\ kernel'[k].cell = kernel[k].cell
  BY <1>1 DEF EvalTypeOK, Process
<1>3. \A j \in Kernels : Sent(j)' = Sent(j)
  BY <1>1, <1>2 DEF Sent
<1>4. /\ timer' \in 0..MaxCells /\ shown' \in Answers /\ UnknownIsTold'
      /\ facts' \in [Cells -> Facts] /\ recent' \in 0..MaxKernels /\ store' \in Stores
      /\ \A c \in Cells : facts'[c] = "none" => facts[c] = "none"
      /\ store'.readable = store.readable /\ store'.recovery = store.recovery
      /\ reported' = reported
      /\ \/ call' = NoCall /\ timer' = None
         \/ /\ call' = call /\ timer' = timer /\ ~Running /\ ~(call.phase = "starting" /\ slot = k)
            /\ facts' = facts
  <2>1. CASE Running /\ Reject
    <3>1. call.cell # None
      BY <2>1 DEF CellsOK
    <3>2. call' = NoCall /\ timer' = None /\ shown' \in Answers /\ shown'.kind = "failed"
      BY <2>1, <3>1, Replies
    <3>3. UnknownIsTold'
      BY <3>2 DEF UnknownIsTold
    <3> QED BY <2>1, <3>1, <3>2, <3>3, Replies, NoCallTyped
  <2>2. CASE /\ call.phase = "starting" /\ slot = k /\ FailsEarly
             /\ UNCHANGED <<facts, recent, store, reported>>
    <3>1. call' = NoCall /\ timer' = None /\ shown' \in Answers /\ shown'.kind = "failed"
      BY <2>2, EarlyIs
    <3>2. UnknownIsTold'
      BY <3>1 DEF UnknownIsTold
    <3> QED BY <2>2, <3>1, <3>2, NoCallTyped DEF EvalTypeOK, HostTypeOK, BranchTypeOK
  <2>3. CASE /\ ~Running /\ ~(call.phase = "starting" /\ slot = k)
             /\ UNCHANGED <<call, timer, shown, facts, recent, store, reported>>
    <3>1. UnknownIsTold'
      BY <2>3 DEF UnknownIsTold
    <3> QED BY <2>3, <3>1 DEF EvalTypeOK, HostTypeOK, BranchTypeOK
  <2> QED BY <2>1, <2>2, <2>3
<1>5. call' = NoCall => Idle' /\ ~Running' /\ call'.phase # "starting"
  BY DEF Idle, Running, NoCall
<1>6. EvalTypeOK'
  <2>1. slot' \in 0..MaxKernels /\ call' \in CallState
    BY <1>4, NoCallTyped DEF EvalTypeOK, HostTypeOK
  <2>2. HostTypeOK'
    BY <1>4, <2>1 DEF EvalTypeOK, HostTypeOK
  <2>3. crossed' \subseteq Cells
    BY DEF EvalTypeOK, HostTypeOK, BranchTypeOK, CallState, CellsOK, Cells, None
  <2>4. BranchTypeOK'
    BY <1>4, <2>3 DEF EvalTypeOK, BranchTypeOK
  <2> QED BY <1>1, <2>2, <2>4 DEF EvalTypeOK
<1>7. SlotOK'
  <2>1. ASSUME NEW j \in Kernels
        PROVE  /\ (Alive(j) /\ ~kernel[j].doomed)' => j = slot'
               /\ (kernel[j].life = "unborn" => kernel[j] = Unborn)'
               /\ (kernel[j].seen => Over(j))'
               /\ (kernel[j].life = "busy" <=> kernel[j].cell # None)'
    BY <1>1, <1>2 DEF SlotOK, Alive, Over
  <2>2. slot' # None => /\ session' /\ kernel'[slot'].life # "unborn"
                        /\ ~kernel'[slot'].doomed /\ ~kernel'[slot'].seen
    BY <1>1 DEF SlotOK, EvalTypeOK, HostTypeOK, None, Kernels
  <2>3. Idle' \/ slot' # None
    BY <1>4, <1>5 DEF SlotOK, Idle, Running, EvalTypeOK, HostTypeOK, CallState
  <2>4. ~Running'
    BY <1>4, <1>5 DEF Running
  <2> QED BY <2>1, <2>2, <2>3, <2>4 DEF SlotOK
<1>8. CellsOK'
  <2>1. ASSUME NEW j \in Kernels
        PROVE  /\ kernel'[j].cell \notin kernel'[j].queue
               /\ \A i \in Kernels \ {j} : Sent(j)' \cap Sent(i)' = {}
               /\ \A m \in wire' : m.cell \notin Sent(j)'
    BY <1>1, <1>2, <1>3 DEF CellsOK
  <2>2. ~Running'
    BY <1>4, <1>5 DEF Running
  <2>3. call'.phase = "starting" => CellLeft'
    BY <1>4, <1>5 DEF CellsOK, CellLeft
  <2>4. ASSUME NEW c \in Cells, facts'[c] = "none"
        PROVE  /\ c \notin ran'
               /\ \A j \in Kernels : c \notin Sent(j)'
               /\ \A m \in wire' : m.cell # c
    BY <1>3, <1>4, <2>4 DEF CellsOK
  <2> QED BY <2>1, <2>2, <2>3, <2>4 DEF CellsOK
<1>9. DoubtOK'
  BY <1>4, <1>5 DEF DoubtOK, Idle
<1>10. BlocksUntilEnd'
  <2>1. ASSUME NEW j \in Kernels, Alive(j)', ~kernel'[j].doomed
        PROVE  j # k /\ Alive(j) /\ ~kernel[j].doomed /\ j = slot
    BY <1>1, <1>2, <2>1 DEF Alive, SlotOK
  <2>2. ASSUME NEW j \in Kernels, Alive(j)', ~kernel'[j].doomed
        PROVE  Sent(j)' \subseteq crossed'
    <3>1. Sent(j) \subseteq crossed \cup (IF Running THEN {call.cell} ELSE {})
      BY <2>1, <2>2 DEF BlocksUntilEnd
    <3> QED BY <1>3, <2>1, <2>2, <3>1
  <2>3. timer' = None
    BY <1>4 DEF BlocksUntilEnd
  <2> QED BY <2>2, <2>3 DEF BlocksUntilEnd
<1> QED BY <1>4, <1>6, <1>7, <1>8, <1>9, <1>10

LEMMA NoInterpreterOK ==
  ASSUME EvalInv, NoInterpreter
  PROVE  EvalInv'
<1> USE DEF EvalInv, NoInterpreter
<1>1. shown' \in Answers /\ shown'.kind = "failed"
  BY DEF Answers, Unanswered
<1>2. EvalTypeOK'
  BY <1>1 DEF EvalTypeOK, HostTypeOK, BranchTypeOK
<1>3. SlotOK' /\ CellsOK'
  BY DEF SlotOK, CellsOK, Alive, Over, Idle, Running, Sent, CellLeft
<1>4. DoubtOK' /\ UnknownIsTold' /\ BlocksUntilEnd'
  BY <1>1 DEF DoubtOK, UnknownIsTold, BlocksUntilEnd, Alive, Idle, Running, Sent
<1> QED BY <1>2, <1>3, <1>4

LEMMA BeginUnsavedOK ==
  ASSUME EvalInv, BeginUnsaved
  PROVE  EvalInv'
<1> USE DEF EvalInv, BeginUnsaved
<1>1. call' = NoCall /\ timer' = None /\ shown' \in Answers /\ shown'.kind = "failed"
  BY EarlyIs
<1>2. store' \in Stores /\ store'.readable = store.readable /\ store'.recovery = store.recovery
  BY DEF EvalTypeOK, HostTypeOK, Stores
<1>3. EvalTypeOK'
  BY <1>1, <1>2, NoCallTyped DEF EvalTypeOK, HostTypeOK, BranchTypeOK
<1>4. SlotOK' /\ CellsOK'
  BY <1>1, KeptOK
<1>5. DoubtOK'
  BY <1>1, <1>2 DEF DoubtOK, Idle, NoCall
<1>6. UnknownIsTold' /\ BlocksUntilEnd'
  BY <1>1 DEF UnknownIsTold, BlocksUntilEnd, Alive, Awaited, Running, Sent
<1> QED BY <1>3, <1>4, <1>5, <1>6

LEMMA CancelOK ==
  ASSUME EvalInv, Cancel
  PROVE  EvalInv'
<1> USE DEF EvalInv, Cancel
<1>1. /\ call' \in CallState /\ call'.phase = call.phase /\ call'.cell = call.cell
      /\ call'.note = call.note
  <2>1. Running \in BOOLEAN
    BY DEF Running
  <2>2. call \in CallState
    BY DEF EvalTypeOK, HostTypeOK
  <2>3. call' = [call EXCEPT !.aborted = TRUE, !.interrupted = Running]
    OBVIOUS
  <2> QED BY <2>1, <2>2, <2>3, Zenon DEF CallState
<1>2. timer' \in 0..MaxCells
  BY DEF Armed, EvalTypeOK, HostTypeOK, CallState
<1>3. EvalTypeOK'
  BY <1>1, <1>2 DEF EvalTypeOK, HostTypeOK, BranchTypeOK
<1>4. (Idle' <=> Idle) /\ (Running' <=> Running)
  BY <1>1 DEF Idle, Running
<1>5. SlotOK'
  BY <1>4 DEF SlotOK, Alive, Over
<1>6. CellsOK'
  BY <1>1, <1>4 DEF CellsOK, Sent, CellLeft
<1>7. DoubtOK' /\ UnknownIsTold' /\ BlocksUntilEnd'
  BY <1>1, <1>4 DEF DoubtOK, UnknownIsTold, BlocksUntilEnd, Alive, Armed, Sent
<1> QED BY <1>3, <1>5, <1>6, <1>7

LEMMA OpenSessionOK ==
  ASSUME EvalInv, OpenSession
  PROVE  EvalInv'
<1> USE DEF EvalInv, OpenSession
<1>1. PICK readable \in BOOLEAN :
        store' = [readable |-> readable, generation |-> recent,
                  recovery |-> \E c \in Cells : facts[c] = "started"]
  OBVIOUS
<1>2. /\ store' \in Stores
      /\ store'.recovery <=> \E c \in Cells : facts[c] = "started"
  <2>1. (\E c \in Cells : facts[c] = "started") \in BOOLEAN /\ recent \in 0..MaxKernels
    BY DEF EvalTypeOK, BranchTypeOK
  <2> QED BY <1>1, <2>1 DEF Stores
<1>3. HostTypeOK'
  <2>1. last' \in 0..MaxKernels /\ slot' \in 0..MaxKernels
    BY NoCallTyped
  <2>2. opens' \in Nat
    BY DEF EvalTypeOK, HostTypeOK
  <2>3. session' \in BOOLEAN /\ reported' \in BOOLEAN
    OBVIOUS
  <2> QED BY <1>2, <2>1, <2>2, <2>3 DEF EvalTypeOK, HostTypeOK
<1>4. EvalTypeOK'
  BY <1>3 DEF EvalTypeOK, BranchTypeOK
<1>5. Idle /\ slot = None
  BY DEF SlotOK
<1>6. SlotOK'
  BY <1>5 DEF SlotOK, Alive, Over, Idle, Running
<1>7. CellsOK'
  BY <1>5 DEF CellsOK, Sent, CellLeft, Idle, Running
<1>8. DoubtOK'
  <2>1. ASSUME NEW c \in doubt' PROVE facts[c] = "started"
    BY DEF CellsOK, EvalTypeOK, BranchTypeOK, Facts
  <2>2. doubt' # {} => store'.recovery
    BY <1>2, <2>1 DEF EvalTypeOK, BranchTypeOK
  <2> QED BY <1>5, <2>2 DEF DoubtOK, Idle
<1>9. UnknownIsTold' /\ BlocksUntilEnd'
  BY <1>5 DEF UnknownIsTold, BlocksUntilEnd, Alive, Idle, Running, Sent
<1> QED BY <1>4, <1>6, <1>7, <1>8, <1>9

LEMMA LeavesOK ==
  ASSUME EvalInv, NEW saved \in BOOLEAN, saved => Running, Leaves(saved)
  PROVE  EvalInv'
<1> USE DEF EvalInv, Leaves
<1>1. ASSUME NEW k \in Kernels
      PROVE  /\ kernel'[k] \in Process
             /\ kernel'[k].life = kernel[k].life
             /\ kernel'[k].queue = kernel[k].queue /\ kernel'[k].cell = kernel[k].cell
             /\ kernel[k].life # "unborn" => kernel'[k].doomed /\ kernel'[k].seen
             /\ kernel[k].life = "unborn" => kernel'[k] = kernel[k]
  <2>1. kernel[k] \in Process
    BY DEF EvalTypeOK
  <2>2. CASE kernel[k].life = "unborn"
    BY <2>1, <2>2 DEF Alive
  <2>3. CASE kernel[k].life # "unborn"
    <3>1. Alive(k) \/ kernel[k].life = "gone"
      BY <2>1, <2>3 DEF Alive, Process
    <3>2. kernel'[k] = [kernel[k] EXCEPT !.doomed = TRUE, !.seen = TRUE]
      BY <3>1
    <3> QED BY <2>1, <2>3, <3>2 DEF Process
  <2> QED BY <2>2, <2>3
<1>2. kernel' \in [Kernels -> Process]
  BY <1>1
<1>3. /\ facts' \in [Cells -> Facts]
      /\ \A c \in Cells : facts'[c] = "none" => facts[c] = "none"
  <2>1. call.cell \in 0..MaxCells /\ (saved => call.cell # None)
    BY DEF CellsOK, EvalTypeOK, HostTypeOK, CallState
  <2>2. saved => call.cell \in Cells
    <3> HIDE DEF Leaves
    <3> QED BY <2>1, EvalAssumption DEF Cells, None
  <2> QED BY <2>2 DEF EvalTypeOK, BranchTypeOK, Facts
<1>4. shown' \in Answers /\ shown'.kind = "none"
  BY DEF Answers, Unanswered
<1>5. Idle' /\ ~Running' /\ call'.phase # "starting"
  BY DEF Idle, Running, NoCall
<1>6. EvalTypeOK'
  <2>1. HostTypeOK'
    BY <1>4, NoCallTyped DEF EvalTypeOK, HostTypeOK
  <2>2. unsaid' \in BOOLEAN
    BY DEF EvalTypeOK, BranchTypeOK
  <2>3. BranchTypeOK'
    BY <1>3, <2>2 DEF EvalTypeOK, BranchTypeOK
  <2> QED BY <1>2, <2>1, <2>3 DEF EvalTypeOK
<1>7. SlotOK'
  <2>1. ASSUME NEW k \in Kernels
        PROVE  /\ ~(Alive(k) /\ ~kernel[k].doomed)'
               /\ (kernel[k].life = "unborn" => kernel[k] = Unborn)'
               /\ (kernel[k].seen => Over(k))'
               /\ (kernel[k].life = "busy" <=> kernel[k].cell # None)'
    BY <1>1 DEF SlotOK, Alive, Over, Unborn
  <2> QED BY <1>5, <2>1 DEF SlotOK
<1>8. \A k \in Kernels : Sent(k)' = Sent(k)
  BY <1>1 DEF Sent
<1>9. CellsOK'
  <2>0. wire' = {} /\ ran' = ran
    OBVIOUS
  <2> HIDE DEF Leaves
  <2>1. ASSUME NEW j \in Kernels
        PROVE  /\ kernel'[j].cell \notin kernel'[j].queue
               /\ \A i \in Kernels \ {j} : Sent(j)' \cap Sent(i)' = {}
               /\ \A m \in wire' : m.cell \notin Sent(j)'
    BY <1>1, <1>8, <2>0 DEF CellsOK
  <2>2. ASSUME NEW c \in Cells, facts'[c] = "none"
        PROVE  /\ c \notin ran'
               /\ \A j \in Kernels : c \notin Sent(j)'
               /\ \A m \in wire' : m.cell # c
    BY <1>3, <1>8, <2>0, <2>2 DEF CellsOK
  <2> QED BY <1>5, <2>1, <2>2 DEF CellsOK
<1>10. DoubtOK' /\ UnknownIsTold'
  BY <1>4, <1>5 DEF DoubtOK, UnknownIsTold
<1>11. BlocksUntilEnd'
  BY <1>1 DEF BlocksUntilEnd, Alive
<1> QED BY <1>6, <1>7, <1>9, <1>10, <1>11

(* The process of a kernel goes on while the host does nothing: it stays     *)
(* alive or ends, and no code comes to it.                                   *)
LEMMA KernelGoesOn ==
  ASSUME EvalTypeOK, SlotOK, NEW k \in Kernels, Alive(k),
         UNCHANGED <<session, slot, call, timer, crossed>>,
         \A j \in Kernels \ {k} : kernel'[j] = kernel[j],
         Alive(k)' \/ kernel'[k].life = "gone",
         kernel'[k].doomed = kernel[k].doomed, kernel'[k].seen = kernel[k].seen,
         kernel'[k].life = "busy" <=> kernel'[k].cell # None,
         \A j \in Kernels : Sent(j)' \subseteq Sent(j)
  PROVE  SlotOK' /\ (BlocksUntilEnd => BlocksUntilEnd')
<1>1. (Idle' <=> Idle) /\ (Running' <=> Running)
  BY DEF Idle, Running
<1>2. kernel[k].life # "unborn" /\ kernel'[k].life # "unborn" /\ kernel[k].life # "gone"
  BY DEF Alive
<1>3. ASSUME NEW j \in Kernels
      PROVE  /\ (Alive(j) /\ ~kernel[j].doomed)' => j = slot /\ Alive(j) /\ ~kernel[j].doomed
             /\ (kernel[j].life = "unborn" => kernel[j] = Unborn)'
             /\ (kernel[j].seen => Over(j))'
             /\ (kernel[j].life = "busy" <=> kernel[j].cell # None)'
  <2>1. CASE j = k
    BY <1>2, <2>1 DEF SlotOK, Alive, Over
  <2>2. CASE j # k
    BY <2>2 DEF SlotOK, Alive, Over
  <2> QED BY <2>1, <2>2
<1>4. slot # None => /\ session /\ kernel'[slot].life # "unborn"
                     /\ ~kernel'[slot].doomed /\ ~kernel'[slot].seen
  <2>1. slot # None => slot \in Kernels
    BY DEF EvalTypeOK, HostTypeOK, Kernels, None
  <2> QED BY <1>2, <2>1 DEF SlotOK
<1>5. SlotOK'
  BY <1>1, <1>3, <1>4 DEF SlotOK
<1>6. ASSUME BlocksUntilEnd PROVE BlocksUntilEnd'
  BY <1>1, <1>3, <1>6 DEF BlocksUntilEnd
<1> QED BY <1>5, <1>6

(* The process of a kernel goes on: the host sees nothing of it.             *)
LEMMA KernelReadyOK ==
  ASSUME EvalInv, NEW k \in Kernels, KernelReady(k)
  PROVE  EvalInv'
<1> USE DEF EvalInv
<1>1. [kernel[k] EXCEPT !.life = "idle", !.ready = TRUE] \in Process
  BY DEF EvalTypeOK, Process
<1>2. kernel' = [kernel EXCEPT ![k] = [kernel[k] EXCEPT !.life = "idle", !.ready = TRUE]]
  BY DEF KernelReady, EvalTypeOK
<1>3. /\ kernel' \in [Kernels -> Process]
      /\ \A j \in Kernels \ {k} : kernel'[j] = kernel[j]
      /\ kernel'[k] = [kernel[k] EXCEPT !.life = "idle", !.ready = TRUE]
  BY <1>1, <1>2, OneKernel
<1>4. /\ kernel[k].life = "booting" /\ kernel'[k].life = "idle"
      /\ kernel'[k].doomed = kernel[k].doomed /\ kernel'[k].seen = kernel[k].seen
      /\ kernel'[k].queue = kernel[k].queue /\ kernel'[k].cell = kernel[k].cell
  BY <1>3 DEF KernelReady, EvalTypeOK, Process
<1>5. UNCHANGED <<hostVars, wire, facts, recent, ran, holder, unsaid, doubt, crossed>>
  BY DEF KernelReady
<1>6. EvalTypeOK'
  BY <1>3, <1>5 DEF EvalTypeOK, HostTypeOK, BranchTypeOK, hostVars
<1>7. \A j \in Kernels : Sent(j)' = Sent(j)
  <2>1. Sent(k)' = Sent(k)
    BY <1>4 DEF Sent
  <2> QED BY <1>3, <2>1 DEF Sent
<1>8. SlotOK' /\ (BlocksUntilEnd => BlocksUntilEnd')
  <2>1. UNCHANGED <<session, slot, call, timer, crossed>>
    BY <1>5 DEF hostVars
  <2>2. /\ Alive(k) /\ (Alive(k)' \/ kernel'[k].life = "gone")
        /\ kernel'[k].life = "busy" <=> kernel'[k].cell # None
    BY <1>4 DEF Alive, SlotOK
  <2>3. \A j \in Kernels : Sent(j)' \subseteq Sent(j)
    BY <1>7
  <2> QED BY <1>3, <1>4, <2>1, <2>2, <2>3, KernelGoesOn
<1>9. CellsOK'
  <2>1. UNCHANGED <<call, facts, wire, ran>>
    BY <1>5 DEF hostVars
  <2>2. \A j \in Kernels : Sent(j)' \subseteq Sent(j)
    BY <1>7
  <2>3. ASSUME NEW j \in Kernels
        PROVE  kernel'[j].cell \notin kernel'[j].queue
    BY <1>3, <1>4 DEF CellsOK
  <2> QED BY <2>1, <2>2, <2>3 DEF CellsOK, CellLeft, Running
<1>10. DoubtOK' /\ UnknownIsTold'
  BY <1>5 DEF DoubtOK, UnknownIsTold, hostVars, Idle
<1> QED BY <1>6, <1>8, <1>9, <1>10

(* The cell read first is one of those sent.                                 *)
LEMMA FirstSentIs ==
  ASSUME EvalTypeOK, NEW k \in Kernels, kernel[k].queue # {}
  PROVE  FirstSent(k) \in kernel[k].queue /\ FirstSent(k) \in Cells
<1>1. kernel[k].queue \in SUBSET Cells
  BY DEF EvalTypeOK, Process
<1>2. kernel[k].queue \in SUBSET Nat
  BY <1>1 DEF Cells
<1>3. \E c \in kernel[k].queue : \A d \in kernel[k].queue : c <= d
  BY <1>2, LeastOf
<1> QED BY <1>1, <1>3 DEF FirstSent

LEMMA KernelTakesOK ==
  ASSUME EvalInv, NEW k \in Kernels, KernelTakes(k)
  PROVE  EvalInv'
<1> USE DEF EvalInv
<1> DEFINE c == FirstSent(k)
<1>0. c \in kernel[k].queue /\ c \in Cells
  BY FirstSentIs DEF KernelTakes
<1>1. [kernel[k] EXCEPT !.life = "busy", !.cell = c, !.queue = @ \ {c}] \in Process
  <2> HIDE DEF c
  <2>1. c \in 0..MaxCells
    BY <1>0 DEF Cells
  <2>2. kernel[k] \in Process /\ kernel[k].queue \ {c} \in SUBSET Cells
    BY DEF EvalTypeOK, Process
  <2> QED BY <2>1, <2>2 DEF Process
<1>2. kernel' = [kernel EXCEPT ![k] = [kernel[k] EXCEPT !.life = "busy", !.cell = c,
                                                        !.queue = @ \ {c}]]
  BY DEF KernelTakes, EvalTypeOK
<1>5. /\ UNCHANGED <<hostVars, wire, facts, recent, doubt, crossed>>
      /\ ran' = ran \cup {c} /\ holder' = k
      /\ unsaid' = (unsaid \/ kernel[k].doomed)
  BY DEF KernelTakes
<1> HIDE DEF c
<1>3. /\ kernel' \in [Kernels -> Process]
      /\ \A j \in Kernels \ {k} : kernel'[j] = kernel[j]
      /\ kernel'[k] = [kernel[k] EXCEPT !.life = "busy", !.cell = c, !.queue = @ \ {c}]
  BY <1>1, <1>2, OneKernel
<1>4. /\ kernel[k].life = "idle" /\ kernel'[k].life = "busy"
      /\ kernel'[k].doomed = kernel[k].doomed /\ kernel'[k].seen = kernel[k].seen
      /\ kernel'[k].queue = kernel[k].queue \ {c} /\ kernel'[k].cell = c
      /\ kernel[k].cell = None
  BY <1>3 DEF KernelTakes, EvalTypeOK, Process, SlotOK
<1>6. EvalTypeOK'
  <2>2. holder' \in 0..MaxKernels
    BY <1>5 DEF Kernels
  <2>3. unsaid' \in BOOLEAN
    BY <1>5 DEF EvalTypeOK, BranchTypeOK, Process
  <2>4. BranchTypeOK'
    BY <1>0, <1>5, <2>2, <2>3 DEF EvalTypeOK, BranchTypeOK
  <2> QED BY <1>3, <1>5, <2>4 DEF EvalTypeOK, HostTypeOK, hostVars
<1>7. \A j \in Kernels : Sent(j)' = Sent(j)
  <2>1. Sent(k)' = Sent(k)
    BY <1>0, <1>4 DEF Sent
  <2> QED BY <1>3, <2>1 DEF Sent
<1>8. SlotOK' /\ (BlocksUntilEnd => BlocksUntilEnd')
  <2>1. UNCHANGED <<session, slot, call, timer, crossed>>
    BY <1>5 DEF hostVars
  <2>2. /\ Alive(k) /\ (Alive(k)' \/ kernel'[k].life = "gone")
        /\ kernel'[k].life = "busy" <=> kernel'[k].cell # None
    BY <1>0, <1>4 DEF Alive, SlotOK, Cells, None
  <2>3. \A j \in Kernels : Sent(j)' \subseteq Sent(j)
    BY <1>7
  <2> QED BY <1>3, <1>4, <2>1, <2>2, <2>3, KernelGoesOn
<1>9. CellsOK'
  <2>1. c \in Sent(k)
    BY <1>0 DEF Sent, Cells, None
  <2>2. UNCHANGED <<call, facts, wire>> /\ ran' = ran \cup {c}
    BY <1>5 DEF hostVars
  <2>3. ASSUME NEW j \in Kernels
        PROVE  kernel'[j].cell \notin kernel'[j].queue
    BY <1>3, <1>4 DEF CellsOK
  <2> QED BY <1>7, <2>1, <2>2, <2>3 DEF CellsOK, CellLeft, Running
<1>10. DoubtOK' /\ UnknownIsTold'
  BY <1>5 DEF DoubtOK, UnknownIsTold, hostVars, Idle
<1> QED BY <1>6, <1>8, <1>9, <1>10

LEMMA KernelDropsOK ==
  ASSUME EvalInv, NEW k \in Kernels, KernelDrops(k)
  PROVE  EvalInv'
<1> USE DEF EvalInv
<1> DEFINE p == [kernel[k] EXCEPT !.queue = @ \ {FirstSent(k)}]
<1>1. p \in Process
  BY DEF EvalTypeOK, Process
<1>2. kernel' = [kernel EXCEPT ![k] = p]
  BY DEF KernelDrops, EvalTypeOK
<1>3. /\ kernel' \in [Kernels -> Process]
      /\ \A j \in Kernels \ {k} : kernel'[j] = kernel[j]
      /\ kernel'[k] = p
  BY <1>1, <1>2, OneKernel
<1>4. /\ kernel[k].life = "busy" /\ kernel'[k].life = "busy"
      /\ kernel'[k].doomed = kernel[k].doomed /\ kernel'[k].seen = kernel[k].seen
      /\ kernel'[k].queue \subseteq kernel[k].queue /\ kernel'[k].cell = kernel[k].cell
  BY <1>3 DEF KernelDrops, EvalTypeOK, Process
<1>5. UNCHANGED <<hostVars, wire, facts, recent, ran, holder, unsaid, doubt, crossed>>
  BY DEF KernelDrops
<1>6. EvalTypeOK'
  BY <1>3, <1>5 DEF EvalTypeOK, HostTypeOK, BranchTypeOK, hostVars
<1>7. \A j \in Kernels : Sent(j)' \subseteq Sent(j)
  <2>1. Sent(k)' \subseteq Sent(k)
    BY <1>4 DEF Sent
  <2> QED BY <1>3, <2>1 DEF Sent
<1>8. SlotOK' /\ (BlocksUntilEnd => BlocksUntilEnd')
  <2>1. UNCHANGED <<session, slot, call, timer, crossed>>
    BY <1>5 DEF hostVars
  <2>2. /\ Alive(k) /\ (Alive(k)' \/ kernel'[k].life = "gone")
        /\ kernel'[k].life = "busy" <=> kernel'[k].cell # None
    BY <1>4 DEF Alive, SlotOK
  <2> QED BY <1>3, <1>4, <1>7, <2>1, <2>2, KernelGoesOn
<1>9. CellsOK'
  <2>1. UNCHANGED <<call, facts, wire, ran>>
    BY <1>5 DEF hostVars
  <2>2. ASSUME NEW j \in Kernels
        PROVE  kernel'[j].cell \notin kernel'[j].queue
    BY <1>3, <1>4 DEF CellsOK
  <2> QED BY <1>7, <2>1, <2>2 DEF CellsOK, CellLeft, Running
<1>10. DoubtOK' /\ UnknownIsTold'
  BY <1>5 DEF DoubtOK, UnknownIsTold, hostVars, Idle
<1> QED BY <1>6, <1>8, <1>9, <1>10

LEMMA KernelFinishesOK ==
  ASSUME EvalInv, NEW k \in Kernels, KernelFinishes(k)
  PROVE  EvalInv'
<1> USE DEF EvalInv
<1>1. [kernel[k] EXCEPT !.life = "idle", !.cell = None] \in Process
  BY NoCallTyped DEF EvalTypeOK, Process
<1>2. kernel' = [kernel EXCEPT ![k] = [kernel[k] EXCEPT !.life = "idle", !.cell = None]]
  BY DEF KernelFinishes, EvalTypeOK
<1>3. /\ kernel' \in [Kernels -> Process]
      /\ \A j \in Kernels \ {k} : kernel'[j] = kernel[j]
      /\ kernel'[k] = [kernel[k] EXCEPT !.life = "idle", !.cell = None]
  BY <1>1, <1>2, OneKernel
<1>4. /\ kernel[k].life = "busy" /\ kernel'[k].life = "idle"
      /\ kernel'[k].doomed = kernel[k].doomed /\ kernel'[k].seen = kernel[k].seen
      /\ kernel'[k].queue = kernel[k].queue /\ kernel'[k].cell = None /\ kernel[k].cell # None
  BY <1>3 DEF KernelFinishes, EvalTypeOK, Process, SlotOK
<1>5. UNCHANGED <<hostVars, facts, recent, ran, holder, unsaid, doubt, crossed>>
  BY DEF KernelFinishes
<1>6. PICK ok \in BOOLEAN : wire' \subseteq wire \cup {[cell |-> kernel[k].cell, ok |-> ok]}
  BY DEF KernelFinishes
<1>7. kernel[k].cell \in Cells /\ kernel[k].cell \in Sent(k)
  BY <1>4, EvalAssumption DEF EvalTypeOK, Process, Cells, None, Sent
<1>8. EvalTypeOK'
  <2>1. wire' \subseteq [cell : Cells, ok : BOOLEAN]
    BY <1>6, <1>7 DEF EvalTypeOK, BranchTypeOK
  <2> QED BY <1>3, <1>5, <2>1 DEF EvalTypeOK, HostTypeOK, BranchTypeOK, hostVars
<1>9. /\ \A j \in Kernels \ {k} : Sent(j)' = Sent(j)
      /\ Sent(k)' = Sent(k) \ {kernel[k].cell}
  BY <1>3, <1>4 DEF Sent, CellsOK
<1>10. SlotOK' /\ (BlocksUntilEnd => BlocksUntilEnd')
  <2>1. UNCHANGED <<session, slot, call, timer, crossed>>
    BY <1>5 DEF hostVars
  <2>2. /\ Alive(k) /\ (Alive(k)' \/ kernel'[k].life = "gone")
        /\ kernel'[k].life = "busy" <=> kernel'[k].cell # None
    BY <1>4 DEF Alive, SlotOK
  <2>3. \A j \in Kernels : Sent(j)' \subseteq Sent(j)
    BY <1>9
  <2> QED BY <1>3, <1>4, <2>1, <2>2, <2>3, KernelGoesOn
<1>11. CellsOK'
  <2>1. ASSUME NEW j \in Kernels
        PROVE  /\ kernel'[j].cell \notin kernel'[j].queue
               /\ \A i \in Kernels \ {j} : Sent(j)' \cap Sent(i)' = {}
    <3>1. \A i \in Kernels : Sent(i)' \subseteq Sent(i)
      BY <1>9
    <3>2. None \notin kernel[k].queue
      BY DEF EvalTypeOK, Process, Cells, None
    <3>3. kernel'[j].cell \notin kernel'[j].queue
      BY <1>3, <1>4, <3>2 DEF CellsOK
    <3> QED BY <3>1, <3>3 DEF CellsOK
  <2>2. ASSUME NEW j \in Kernels, NEW m \in wire'
        PROVE  m.cell \notin Sent(j)'
    BY <1>6, <1>7, <1>9 DEF CellsOK
  <2>3. ASSUME NEW c \in Cells, facts'[c] = "none"
        PROVE  /\ c \notin ran'
               /\ \A j \in Kernels : c \notin Sent(j)'
               /\ \A m \in wire' : m.cell # c
    BY <1>5, <1>6, <1>7, <1>9, <2>3 DEF CellsOK
  <2> QED BY <1>5, <2>1, <2>2, <2>3 DEF CellsOK, CellLeft, hostVars, Running
<1>12. DoubtOK' /\ UnknownIsTold'
  BY <1>5 DEF DoubtOK, UnknownIsTold, hostVars, Idle
<1> QED BY <1>8, <1>10, <1>11, <1>12

LEMMA KernelDiesOK ==
  ASSUME EvalInv, NEW k \in Kernels, KernelDies(k)
  PROVE  EvalInv'
<1> USE DEF EvalInv
<1>1. [kernel[k] EXCEPT !.life = "gone", !.cell = None, !.queue = {}] \in Process
  BY NoCallTyped DEF EvalTypeOK, Process
<1>2. kernel' = [kernel EXCEPT ![k] = [kernel[k] EXCEPT !.life = "gone", !.cell = None,
                                                        !.queue = {}]]
  BY DEF KernelDies, EvalTypeOK
<1>3. /\ kernel' \in [Kernels -> Process]
      /\ \A j \in Kernels \ {k} : kernel'[j] = kernel[j]
      /\ kernel'[k] = [kernel[k] EXCEPT !.life = "gone", !.cell = None, !.queue = {}]
  BY <1>1, <1>2, OneKernel
<1>4. /\ Alive(k) /\ kernel'[k].life = "gone"
      /\ kernel'[k].doomed = kernel[k].doomed /\ kernel'[k].seen = kernel[k].seen
      /\ kernel'[k].queue = {} /\ kernel'[k].cell = None
  BY <1>3 DEF KernelDies, EvalTypeOK, Process
<1>5. /\ UNCHANGED <<hostVars, wire, facts, recent, ran, holder, doubt, crossed>>
      /\ unsaid' \in BOOLEAN
  BY DEF KernelDies, Loses, EvalTypeOK, BranchTypeOK
<1>6. EvalTypeOK'
  BY <1>3, <1>5 DEF EvalTypeOK, HostTypeOK, BranchTypeOK, hostVars
<1>7. /\ \A j \in Kernels \ {k} : Sent(j)' = Sent(j)
      /\ Sent(k)' = {}
  BY <1>3, <1>4 DEF Sent
<1>8. SlotOK' /\ (BlocksUntilEnd => BlocksUntilEnd')
  <2>1. UNCHANGED <<session, slot, call, timer, crossed>>
    BY <1>5 DEF hostVars
  <2>2. /\ Alive(k) /\ (Alive(k)' \/ kernel'[k].life = "gone")
        /\ kernel'[k].life = "busy" <=> kernel'[k].cell # None
    BY <1>4 DEF Alive, SlotOK
  <2>3. \A j \in Kernels : Sent(j)' \subseteq Sent(j)
    BY <1>7
  <2> QED BY <1>3, <1>4, <2>1, <2>2, <2>3, KernelGoesOn
<1>9. CellsOK'
  <2>1. UNCHANGED <<call, facts, wire, ran>>
    BY <1>5 DEF hostVars
  <2>2. \A j \in Kernels : Sent(j)' \subseteq Sent(j)
    BY <1>7
  <2>3. ASSUME NEW j \in Kernels
        PROVE  kernel'[j].cell \notin kernel'[j].queue
    BY <1>3, <1>4 DEF CellsOK
  <2> QED BY <2>1, <2>2, <2>3 DEF CellsOK, CellLeft, Running
<1>10. DoubtOK' /\ UnknownIsTold'
  BY <1>5 DEF DoubtOK, UnknownIsTold, hostVars, Idle
<1> QED BY <1>6, <1>8, <1>9, <1>10

(* The cell is sent, or ends unsent: its start fact is on the branch.        *)
LEMMA BeginOK ==
  ASSUME EvalInv, Begin
  PROVE  EvalInv'
<1> USE DEF EvalInv
<1>1. session /\ call.phase = "starting" /\ slot \in Kernels
  BY DEF Begin, Awaited, SlotOK, Idle, EvalTypeOK, HostTypeOK, Kernels, None
<1>2. NewCell \in Cells /\ facts[NewCell] = "none" /\ NewCell # None
  BY <1>1, NewCellIs DEF CellsOK, Cells, None
<1>3. PICK fact \in {"started", "ended"} : facts' = [facts EXCEPT ![NewCell] = fact]
  <2>1. PICK fact \in IF call.aborted /\ ~WritesFail THEN {"ended"}
                      ELSE IF call.aborted THEN {"started", "ended"} ELSE {"started"} :
          facts' = [facts EXCEPT ![NewCell] = fact]
    BY DEF Begin
  <2> QED BY <2>1
<1>4. /\ facts' \in [Cells -> Facts] /\ facts'[NewCell] # "none"
      /\ \A c \in Cells \ {NewCell} : facts'[c] = facts[c]
  BY <1>2, <1>3 DEF EvalTypeOK, BranchTypeOK, Facts
<1>5. store' \in Stores /\ store'.readable = store.readable /\ store'.recovery = store.recovery
  BY <1>1 DEF Begin, EvalTypeOK, HostTypeOK, Stores
<1>6. /\ UNCHANGED <<opens, session, reported, slot, wire, ran, holder, unsaid, doubt, crossed>>
      /\ last' = slot /\ recent' = slot
  BY DEF Begin
<1>7. BranchTypeOK'
  BY <1>4, <1>6 DEF EvalTypeOK, HostTypeOK, BranchTypeOK
<1>8. CASE call.aborted
  <2>1. kernel' = kernel /\ FailsEarly
    BY <1>8 DEF Begin
  <2>2. call' = NoCall /\ timer' = None /\ shown' \in Answers /\ shown'.kind = "failed"
    BY <2>1, EarlyIs
  <2>3. \A c \in Cells : facts'[c] = "none" => facts[c] = "none"
    BY <1>2, <1>4
  <2>4. HostTypeOK'
    BY <1>5, <1>6, <2>2, NoCallTyped DEF EvalTypeOK, HostTypeOK
  <2>5. SlotOK' /\ CellsOK'
    BY <1>6, <2>1, <2>2, <2>3, KeptOK
  <2>6. DoubtOK'
    BY <1>5, <1>6, <2>2 DEF DoubtOK, Idle, NoCall
  <2>7. UnknownIsTold' /\ BlocksUntilEnd'
    BY <1>1, <1>6, <2>1, <2>2 DEF UnknownIsTold, BlocksUntilEnd, Alive, Running, Sent
  <2> QED BY <1>7, <2>1, <2>4, <2>5, <2>6, <2>7 DEF EvalTypeOK
<1>9. CASE ~call.aborted
  <2>1. /\ call' = [call EXCEPT !.phase = "running", !.cell = NewCell]
        /\ kernel' = [kernel EXCEPT ![slot] = [kernel[slot] EXCEPT !.queue = @ \cup {NewCell}]]
        /\ UNCHANGED <<timer, shown>>
    BY <1>1, <1>9 DEF Begin, EvalTypeOK
  <2>2. /\ call' \in CallState /\ call'.phase = "running" /\ call'.cell = NewCell
        /\ call'.note = call.note
    <3>1. NewCell \in 0..MaxCells
      BY <1>2 DEF Cells
    <3>2. call \in CallState
      BY DEF EvalTypeOK, HostTypeOK
    <3> QED BY <2>1, <3>1, <3>2, Zenon DEF CallState
  <2>3. /\ kernel' \in [Kernels -> Process]
        /\ kernel'[slot] = [kernel[slot] EXCEPT !.queue = @ \cup {NewCell}]
        /\ \A k \in Kernels \ {slot} : kernel'[k] = kernel[k]
    <3>1. [kernel[slot] EXCEPT !.queue = @ \cup {NewCell}] \in Process
      BY <1>1, <1>2 DEF EvalTypeOK, Process, Cells
    <3> QED BY <1>1, <2>1, <3>1, OneKernel
  <2>4. /\ kernel'[slot].life = kernel[slot].life /\ kernel'[slot].doomed = kernel[slot].doomed
        /\ kernel'[slot].seen = kernel[slot].seen /\ kernel'[slot].cell = kernel[slot].cell
        /\ kernel'[slot].queue = kernel[slot].queue \cup {NewCell}
    BY <1>1, <2>3 DEF EvalTypeOK, Process
  <2>5. HostTypeOK'
    BY <1>5, <1>6, <2>1, <2>2 DEF EvalTypeOK, HostTypeOK
  <2>6. Running' /\ ~Idle' /\ ~Running
    BY <1>1, <2>2 DEF Running, Idle
  <2>7. SlotOK'
    <3>1. ASSUME NEW k \in Kernels
          PROVE  /\ (Alive(k) /\ ~kernel[k].doomed)' => k = slot
                 /\ (kernel[k].life = "unborn" => kernel[k] = Unborn)'
                 /\ (kernel[k].seen => Over(k))'
                 /\ (kernel[k].life = "busy" <=> kernel[k].cell # None)'
      <4>1. CASE k = slot
        BY <1>1, <2>4, <4>1 DEF SlotOK, Alive, Over, None, Kernels
      <4>2. CASE k # slot
        BY <2>3, <4>2 DEF SlotOK, Alive, Over
      <4> QED BY <4>1, <4>2
    <3>2. slot # None /\ session /\ kernel'[slot].life # "unborn"
          /\ ~kernel'[slot].doomed /\ ~kernel'[slot].seen
      BY <1>1, <2>4 DEF SlotOK, None, Kernels
    <3> QED BY <1>6, <2>6, <3>1, <3>2 DEF SlotOK
  <2>8. ASSUME NEW k \in Kernels, NEW c \in Sent(k)'
        PROVE  c \in Sent(k) \/ (k = slot /\ c = NewCell)
    <3>1. CASE k = slot
      BY <2>4, <2>8, <3>1 DEF Sent
    <3>2. CASE k # slot
      BY <2>3, <2>8, <3>2 DEF Sent
    <3> QED BY <3>1, <3>2
  <2>9. \A k \in Kernels : NewCell \notin Sent(k)
    BY <1>2 DEF CellsOK
  <2>10. CellsOK'
    <3>1. ASSUME NEW k \in Kernels
          PROVE  kernel'[k].cell \notin kernel'[k].queue
      <4>1. CASE k = slot
        <5>1. kernel[k].cell # NewCell
          BY <1>2, <2>9 DEF Sent
        <5> QED BY <2>4, <4>1, <5>1 DEF CellsOK
      <4>2. CASE k # slot
        BY <2>3, <4>2 DEF CellsOK
      <4> QED BY <4>1, <4>2
    <3>2. ASSUME NEW k \in Kernels, NEW j \in Kernels \ {k}
          PROVE  Sent(k)' \cap Sent(j)' = {}
      <4>1. Sent(k) \cap Sent(j) = {}
        BY DEF CellsOK
      <4>2. ASSUME NEW c \in Sent(k)', c \in Sent(j)' PROVE FALSE
        BY <2>8, <2>9, <4>1, <4>2
      <4> QED BY <4>2
    <3>3. ASSUME NEW k \in Kernels, NEW m \in wire
          PROVE  m.cell \notin Sent(k)'
      <4>1. m.cell \notin Sent(k) /\ m.cell # NewCell
        BY <1>2 DEF CellsOK
      <4> QED BY <2>8, <4>1
    <3>4. ASSUME NEW c \in Cells, facts'[c] = "none"
          PROVE  /\ c \notin ran /\ c # NewCell
                 /\ \A k \in Kernels : c \notin Sent(k)'
                 /\ \A m \in wire : m.cell # c
      <4>1. c # NewCell /\ facts[c] = "none"
        BY <1>4, <3>4
      <4> QED BY <2>8, <4>1 DEF CellsOK
    <3> QED BY <1>2, <1>6, <2>2, <3>1, <3>2, <3>3, <3>4 DEF CellsOK
  <2>11. DoubtOK'
    BY <1>1, <1>5, <1>6, <2>2 DEF DoubtOK, Idle
  <2>12. UnknownIsTold'
    BY <1>6, <2>1 DEF UnknownIsTold
  <2>13. BlocksUntilEnd'
    <3>1. ASSUME NEW k \in Kernels, Alive(k)', ~kernel'[k].doomed
          PROVE  Sent(k)' \subseteq crossed \cup {NewCell}
      <4>1. k = slot
        BY <1>6, <2>7, <3>1 DEF SlotOK
      <4>2. Alive(k) /\ ~kernel[k].doomed
        BY <2>4, <3>1, <4>1 DEF Alive
      <4>3. Sent(k) \subseteq crossed
        BY <2>6, <4>2 DEF BlocksUntilEnd
      <4> QED BY <2>8, <4>3
    <3>2. timer' = None
      BY <2>1, <2>6 DEF BlocksUntilEnd
    <3> QED BY <1>6, <2>2, <2>6, <3>1, <3>2 DEF BlocksUntilEnd
  <2> QED BY <1>7, <2>3, <2>5, <2>7, <2>10, <2>11, <2>12, <2>13 DEF EvalTypeOK
<1> QED BY <1>8, <1>9

(* What a call does to the kernels: a reset kills the one in the slot; a     *)
(* call without a kernel starts a fresh one.                                 *)
LEMMA CallKernels ==
  ASSUME EvalInv, NEW reset \in BOOLEAN, Call(reset)
  PROVE  /\ kernel' \in [Kernels -> Process] /\ slot' \in Kernels
         /\ \A k \in Kernels : \/ kernel'[k] = kernel[k] /\ (k = slot <=> k = slot')
                               \/ /\ k = slot' /\ kernel[k] = Unborn
                                  /\ kernel'[k] = [Unborn EXCEPT !.life = "booting"]
                               \/ /\ k = slot /\ k # slot'
                                  /\ kernel'[k] = [kernel[k] EXCEPT !.doomed = TRUE]
<1> USE DEF EvalInv
<1> DEFINE kept    == IF reset THEN None ELSE slot
           dropped == IF reset THEN slot ELSE None
<1>0. slot # None => slot \in Kernels
  BY DEF EvalTypeOK, HostTypeOK, Kernels, None
<1>1. CASE kept # None /\ slot' = kept /\ kernel' = Doomed(dropped)
  <2>1. ~reset /\ slot' = slot /\ slot # None /\ kernel' = kernel
    BY <1>1 DEF Doomed
  <2> QED BY <1>0, <2>1 DEF EvalTypeOK
<1>2. CASE /\ kept = None /\ Spawnable /\ slot' = Fresh
           /\ kernel' = [Doomed(dropped) EXCEPT ![Fresh].life = "booting"]
  <2>1. Fresh \in Kernels /\ kernel[Fresh].life = "unborn"
    BY <1>2, FreshIs
  <2>2. kernel[Fresh] = Unborn
    BY <2>1 DEF SlotOK
  <2>3. Fresh # slot
    BY <2>1 DEF SlotOK, None, Kernels
  <2>4. /\ Doomed(dropped) \in [Kernels -> Process]
        /\ \A j \in Kernels \ {slot} : Doomed(dropped)[j] = kernel[j]
        /\ slot # None => Doomed(dropped)[slot] = [kernel[slot] EXCEPT !.doomed = TRUE]
    <3>1. CASE dropped = None
      <4>1. slot = None
        BY <1>2, <3>1
      <4> QED BY <3>1, <4>1 DEF Doomed, EvalTypeOK
    <3>2. CASE dropped # None
      BY <1>0, <3>2, DoomedIs
    <3> QED BY <3>1, <3>2
  <2>5. [Unborn EXCEPT !.life = "booting"] \in Process
    BY NoCallTyped DEF Unborn, Process
  <2>6. kernel' = [Doomed(dropped) EXCEPT ![Fresh] = [Unborn EXCEPT !.life = "booting"]]
    BY <1>2, <2>1, <2>2, <2>3, <2>4
  <2>7. /\ kernel' \in [Kernels -> Process]
        /\ kernel'[Fresh] = [Unborn EXCEPT !.life = "booting"]
        /\ \A j \in Kernels \ {Fresh} : kernel'[j] = Doomed(dropped)[j]
    <3> HIDE DEF dropped
    <3> QED BY <2>1, <2>4, <2>5, <2>6
  <2>8. ASSUME NEW k \in Kernels
        PROVE  \/ kernel'[k] = kernel[k] /\ k # slot' /\ k # slot
               \/ /\ k = slot' /\ kernel[k] = Unborn
                  /\ kernel'[k] = [Unborn EXCEPT !.life = "booting"]
               \/ /\ k = slot /\ k # slot'
                  /\ kernel'[k] = [kernel[k] EXCEPT !.doomed = TRUE]
    <3> HIDE DEF dropped, kept
    <3>1. CASE k = Fresh
      BY <1>2, <2>2, <2>7, <3>1
    <3>2. CASE k = slot
      <4>1. slot # None /\ slot # Fresh /\ k # slot'
        BY <1>2, <2>3, <3>2 DEF None, Kernels
      <4>2. kernel'[slot] = Doomed(dropped)[slot]
        BY <2>7, <3>2, <4>1
      <4> QED BY <2>4, <3>2, <4>1, <4>2
    <3>3. CASE k # slot /\ k # Fresh
      BY <1>2, <2>4, <2>7, <3>3
    <3> QED BY <3>1, <3>2, <3>3
  <2> HIDE DEF dropped, kept
  <2> QED BY <1>2, <2>1, <2>7, <2>8
<1> QED BY <1>1, <1>2 DEF Call

LEMMA CallOK ==
  ASSUME EvalInv, NEW reset \in BOOLEAN, Call(reset)
  PROVE  EvalInv'
<1> USE DEF EvalInv
<1>1. /\ kernel' \in [Kernels -> Process] /\ slot' \in Kernels
      /\ \A k \in Kernels : \/ kernel'[k] = kernel[k] /\ (k = slot <=> k = slot')
                            \/ /\ k = slot' /\ kernel[k] = Unborn
                               /\ kernel'[k] = [Unborn EXCEPT !.life = "booting"]
                            \/ /\ k = slot /\ k # slot'
                               /\ kernel'[k] = [kernel[k] EXCEPT !.doomed = TRUE]
  BY CallKernels
<1>2. /\ session /\ Idle /\ CellLeft
      /\ call' = [NoCall EXCEPT !.phase = "starting", !.reset = reset, !.restarted = Lost(reset),
                                !.note = ~store.readable \/ store.recovery]
      /\ unsaid' = (unsaid /\ ~reset)
      /\ holder' = IF reset THEN None ELSE holder
      /\ shown' = Unanswered
      /\ UNCHANGED <<opens, session, store, reported, last, timer, wire, facts, recent, ran, doubt,
                     crossed>>
  BY DEF Call
<1>3. /\ call' \in CallState /\ call'.phase = "starting"
      /\ call'.note = (~store.readable \/ store.recovery)
  <2>1. /\ Lost(reset) \in BOOLEAN
        /\ (~store.readable \/ store.recovery) \in BOOLEAN
    BY DEF Lost
  <2>2. NoCall \in CallState
    BY NoCallTyped
  <2> QED BY <1>2, <2>1, <2>2, Zenon DEF CallState
<1>4. shown' \in Answers /\ shown'.kind = "none"
  BY <1>2 DEF Answers, Unanswered
<1>5. ASSUME NEW k \in Kernels
      PROVE  /\ kernel'[k].queue = kernel[k].queue /\ kernel'[k].cell = kernel[k].cell
             /\ kernel'[k].seen = kernel[k].seen
             /\ kernel[k].doomed => kernel'[k].doomed
             /\ kernel'[k].life = kernel[k].life \/ (k = slot' /\ kernel'[k].life = "booting"
                                                     /\ kernel[k].life = "unborn")
             /\ k = slot' => ~kernel'[k].doomed /\ ~kernel'[k].seen /\ kernel'[k].life # "unborn"
             /\ k # slot' => (kernel'[k].doomed \/ (kernel'[k] = kernel[k] /\ k # slot))
             /\ kernel'[k].life = "unborn" => kernel'[k] = kernel[k]
  <2>1. kernel[k] \in Process /\ kernel'[k] \in Process
    BY <1>1 DEF EvalTypeOK
  <2>2. CASE kernel'[k] = kernel[k] /\ (k = slot <=> k = slot')
    BY <2>2 DEF SlotOK, None, Kernels
  <2>3. CASE /\ k = slot' /\ kernel[k] = Unborn
             /\ kernel'[k] = [Unborn EXCEPT !.life = "booting"]
    BY <2>3 DEF Unborn
  <2>4. CASE /\ k = slot /\ k # slot'
             /\ kernel'[k] = [kernel[k] EXCEPT !.doomed = TRUE]
    <3>1. kernel[k].life # "unborn"
      BY <2>4 DEF SlotOK, None, Kernels
    <3>2. /\ kernel'[k].life = kernel[k].life /\ kernel'[k].doomed
          /\ kernel'[k].seen = kernel[k].seen
          /\ kernel'[k].queue = kernel[k].queue /\ kernel'[k].cell = kernel[k].cell
      BY <2>1, <2>4 DEF Process
    <3> QED BY <2>4, <3>1, <3>2
  <2> QED BY <1>1, <2>2, <2>3, <2>4
<1>6. EvalTypeOK'
  <2>1. HostTypeOK'
    BY <1>1, <1>2, <1>3, <1>4 DEF EvalTypeOK, HostTypeOK, Kernels
  <2>2. holder' \in 0..MaxKernels
    BY <1>2, NoCallTyped DEF EvalTypeOK, BranchTypeOK
  <2>3. unsaid' \in BOOLEAN
    BY <1>2 DEF EvalTypeOK, BranchTypeOK
  <2>4. BranchTypeOK'
    BY <1>2, <2>2, <2>3 DEF EvalTypeOK, BranchTypeOK
  <2> QED BY <1>1, <2>1, <2>4 DEF EvalTypeOK
<1>7. ~Idle' /\ ~Running' /\ ~Running
  BY <1>2, <1>3 DEF Idle, Running
<1>8. SlotOK'
  <2>1. ASSUME NEW k \in Kernels
        PROVE  /\ (Alive(k) /\ ~kernel[k].doomed)' => k = slot'
               /\ (kernel[k].life = "unborn" => kernel[k] = Unborn)'
               /\ (kernel[k].seen => Over(k))'
               /\ (kernel[k].life = "busy" <=> kernel[k].cell # None)'
    BY <1>5 DEF SlotOK, Alive, Over
  <2>2. slot' # None /\ session' /\ kernel'[slot'].life # "unborn"
        /\ ~kernel'[slot'].doomed /\ ~kernel'[slot'].seen
    BY <1>1, <1>2, <1>5 DEF None, Kernels
  <2> QED BY <1>7, <2>1, <2>2 DEF SlotOK
<1>9. \A k \in Kernels : Sent(k)' = Sent(k)
  BY <1>5 DEF Sent
<1>10. CellsOK'
  <2>1. ASSUME NEW k \in Kernels
        PROVE  kernel'[k].cell \notin kernel'[k].queue
    BY <1>5 DEF CellsOK
  <2>2. CellLeft'
    BY <1>2 DEF CellLeft
  <2> QED BY <1>2, <1>7, <1>9, <2>1, <2>2 DEF CellsOK
<1>11. DoubtOK' /\ UnknownIsTold'
  BY <1>2, <1>3, <1>4 DEF DoubtOK, UnknownIsTold
<1>12. BlocksUntilEnd'
  <2>1. ASSUME NEW k \in Kernels, Alive(k)', ~kernel'[k].doomed
        PROVE  Sent(k)' \subseteq crossed
    <3>1. CASE kernel[k] = Unborn
      BY <1>5, <3>1 DEF Unborn, Sent
    <3>2. CASE kernel[k] # Unborn
      <4>1. Alive(k) /\ ~kernel[k].doomed
        BY <1>5, <2>1, <3>2 DEF Alive, SlotOK
      <4> QED BY <1>7, <1>9, <4>1 DEF BlocksUntilEnd
    <3> QED BY <3>1, <3>2
  <2>2. timer' = None
    BY <1>2, <1>7 DEF BlocksUntilEnd
  <2> QED BY <1>2, <2>1, <2>2 DEF BlocksUntilEnd
<1> QED BY <1>6, <1>8, <1>10, <1>11, <1>12

LEMMA EvalStutters ==
  ASSUME EvalInv, UNCHANGED evalVars
  PROVE  EvalInv'
<1> USE DEF evalVars
<1>1. EvalTypeOK'
  BY DEF EvalInv, EvalTypeOK, HostTypeOK, BranchTypeOK
<1>2. SlotOK' /\ CellsOK'
  BY DEF EvalInv, SlotOK, CellsOK, Alive, Over, Idle, Running, Sent, CellLeft
<1>3. DoubtOK' /\ UnknownIsTold' /\ BlocksUntilEnd'
  BY DEF EvalInv, DoubtOK, UnknownIsTold, BlocksUntilEnd, Alive, Idle, Running, Sent
<1> QED BY <1>1, <1>2, <1>3 DEF EvalInv

LEMMA EvalStep == EvalInv /\ [EvalNext]_evalVars => EvalInv'
<1> SUFFICES ASSUME EvalInv, [EvalNext]_evalVars PROVE EvalInv'
  OBVIOUS
<1>1. CASE NoInterpreter \/ \E reset \in BOOLEAN : Call(reset)
  BY <1>1, NoInterpreterOK, CallOK
<1>2. CASE Begin \/ BeginUnsaved \/ ReadyTimeout \/ Cancel \/ Escalate
  BY <1>2, BeginOK, BeginUnsavedOK, ReadyTimeoutOK, CancelOK, EscalateOK
<1>3. CASE \E m \in wire : Done(m)
  BY <1>3, DoneOK
<1>4. CASE \E k \in Kernels : ExitSeen(k) \/ KernelReady(k) \/ KernelTakes(k)
                              \/ KernelDrops(k) \/ KernelFinishes(k) \/ KernelDies(k)
  BY <1>4, ExitSeenOK, KernelReadyOK, KernelTakesOK, KernelDropsOK, KernelFinishesOK, KernelDiesOK
<1>5. CASE CloseSession
  <2>1. CASE Leaves(FALSE)
    BY <2>1, LeavesOK
  <2>2. CASE Running /\ Leaves(TRUE)
    BY <2>2, LeavesOK
  <2> QED BY <1>5, <2>1, <2>2 DEF CloseSession
<1>6. CASE OpenSession
  BY <1>6, OpenSessionOK
<1>7. CASE UNCHANGED evalVars
  BY <1>7, EvalStutters
<1> QED BY <1>1, <1>2, <1>3, <1>4, <1>5, <1>6, <1>7 DEF EvalNext

LEMMA EvalInvariant == EvalSpec => []EvalInv
<1>1. EvalInit => EvalInv
  BY EvalInitOK
<1>2. EvalInv /\ [EvalNext]_evalVars => EvalInv'
  BY EvalStep
<1> QED BY <1>1, <1>2, PTL DEF EvalSpec

(* Between calls no cell goes on in a kernel, whenever the exits of killed   *)
(* processes are seen, but for the cells such an exit rejected; and no       *)
(* escalation outlives its cell.                                             *)
THEOREM BlocksUntilEndHolds == EvalSpec => []BlocksUntilEnd
<1>1. EvalInv => BlocksUntilEnd
  BY DEF EvalInv
<1> QED BY <1>1, EvalInvariant, PTL

(* The first result after cells whose end is unknown says so.                *)
THEOREM UnknownIsToldHolds == EvalSpec => []UnknownIsTold
<1>1. EvalInv => UnknownIsTold
  BY DEF EvalInv
<1> QED BY <1>1, EvalInvariant, PTL

--------------------------------------------------------------------------------
(* Who compacts the conversation (Compaction).                                *)
Pcs   == {"none", "waiting", "called", "hooked", "answered", "over"}
CompactionKinds == {"none", "threshold", "idle", "command", "host"}

PossibleAttempt == [pc : Pcs, kind : CompactionKinds, era : Nat, hook : Nat]

(* Nothing belongs to a generation that has not begun.                       *)
AttemptOK(a) == /\ a.era <= era /\ a.hook <= era
                /\ a.pc = "waiting" => a.kind \in {"idle", "command"}

CompactionTypeOK ==
  /\ era \in Nat \ {0} /\ life \in {"open", "aborted", "closed"}
  /\ agentBusy \in BOOLEAN /\ armed \in BOOLEAN
  /\ compactInFlight \in BOOLEAN /\ idleCompactInFlight \in BOOLEAN
  /\ compactHookInFlight \in BOOLEAN /\ overlap \in BOOLEAN
  /\ attempt \in [Attempts -> PossibleAttempt]
  /\ \A t \in Attempts : AttemptOK(attempt[t])

(* As long as nothing overlapped there is one holder: the timer or a call.   *)
OneHolder ==
  life = "open" /\ ~overlap =>
    /\ armed => \A t \in Attempts : ~Holds(t)
    /\ \A t, u \in Attempts : Holds(t) /\ Holds(u) => t = u

CompactionInv == CompactionTypeOK /\ FlagHasHolder /\ OneHook /\ OneHolder

--------------------------------------------------------------------------------
LEMMA CompactionInitOK == CompactionInit => CompactionInv
<1> SUFFICES ASSUME CompactionInit PROVE CompactionInv
  OBVIOUS
<1> USE DEF CompactionInit
<1>1. CompactionTypeOK
  <2>1. NoAttempt \in PossibleAttempt
    BY DEF NoAttempt, PossibleAttempt, Pcs, CompactionKinds
  <2>2. \A t \in Attempts : attempt[t] = NoAttempt
    OBVIOUS
  <2>3. AttemptOK(NoAttempt)
    BY DEF NoAttempt, AttemptOK
  <2>4. attempt \in [Attempts -> PossibleAttempt]
    BY <2>1
  <2>5. era \in Nat \ {0}
    OBVIOUS
  <2> QED BY <2>2, <2>3, <2>4, <2>5, Zenon DEF CompactionTypeOK
<1>2. \A t \in Attempts : ~Holds(t) /\ ~Hooked(t)
  BY DEF NoAttempt, Holds, Called, Hooked
<1>3. FlagHasHolder /\ OneHook /\ OneHolder
  BY <1>2 DEF FlagHasHolder, OneHook, OneHolder, UnderWay
<1> QED BY <1>1, <1>3 DEF CompactionInv

(* One attempt changes, or none, within a generation.                        *)
LEMMA OneChanges ==
  ASSUME CompactionTypeOK, era' = era, NEW t \in Attempts, NEW a \in PossibleAttempt, AttemptOK(a),
         attempt' = [attempt EXCEPT ![t] = a]
  PROVE  /\ attempt' \in [Attempts -> PossibleAttempt]
         /\ \A u \in Attempts : AttemptOK(attempt[u])'
         /\ attempt'[t] = a
         /\ \A u \in Attempts \ {t} : attempt'[u] = attempt[u]
  BY DEF CompactionTypeOK, AttemptOK

(* One attempt goes on.                                                      *)
LEMMA OneGoesOn ==
  ASSUME CompactionTypeOK, era' = era, NEW t \in Attempts, NEW pc \in Pcs \ {"waiting"},
         attempt' = [attempt EXCEPT ![t].pc = pc],
         (life \in {"open", "aborted", "closed"})', armed' \in BOOLEAN, agentBusy' \in BOOLEAN,
         compactInFlight' \in BOOLEAN, idleCompactInFlight' \in BOOLEAN,
         compactHookInFlight' \in BOOLEAN, overlap' \in BOOLEAN
  PROVE  CompactionTypeOK'
<1> DEFINE a == [attempt[t] EXCEPT !.pc = pc]
<1>1. attempt[t] \in PossibleAttempt /\ AttemptOK(attempt[t])
  BY DEF CompactionTypeOK
<1>2. a \in PossibleAttempt /\ AttemptOK(a)
  BY <1>1 DEF PossibleAttempt, AttemptOK
<1>3. attempt' = [attempt EXCEPT ![t] = a]
  OBVIOUS
<1> HIDE DEF a
<1> QED BY <1>2, <1>3, OneChanges DEF CompactionTypeOK

(* An attempt begins.                                                        *)
LEMMA OneBegins ==
  ASSUME CompactionTypeOK, era' = era, NEW t \in Attempts, NEW pc \in {"waiting", "called"},
         NEW kind \in CompactionKinds \ {"none"}, pc = "waiting" => kind \in {"idle", "command"},
         attempt' = [attempt EXCEPT ![t] = Begun(pc, kind)],
         (life \in {"open", "aborted", "closed"})', armed' \in BOOLEAN, agentBusy' \in BOOLEAN,
         compactInFlight' \in BOOLEAN, idleCompactInFlight' \in BOOLEAN,
         compactHookInFlight' \in BOOLEAN, overlap' \in BOOLEAN
  PROVE  CompactionTypeOK'
<1>1. Begun(pc, kind) \in PossibleAttempt /\ AttemptOK(Begun(pc, kind))
  BY DEF PossibleAttempt, AttemptOK, Begun, Pcs, CompactionKinds, CompactionTypeOK
<1> QED BY <1>1, OneChanges DEF CompactionTypeOK

(* A step that changes no attempt and stays in the session.                  *)
LEMMA SameAttempts ==
  ASSUME UNCHANGED <<attempt, era>>
  PROVE  \A t \in Attempts : /\ Holds(t)' <=> Holds(t)
                             /\ Hooked(t)' <=> Hooked(t)
  BY DEF Holds, Called, Hooked

LEMMA RunStartsOK ==
  ASSUME CompactionInv, RunStarts
  PROVE  CompactionInv'
<1> USE DEF RunStarts, CompactionInv
<1>1. CompactionTypeOK'
  BY DEF CompactionTypeOK, AttemptOK
<1>2. FlagHasHolder' /\ OneHook' /\ OneHolder'
  BY SameAttempts DEF FlagHasHolder, OneHook, OneHolder, UnderWay
<1> QED BY <1>1, <1>2

LEMMA RunSettlesOK ==
  ASSUME CompactionInv, RunSettles
  PROVE  CompactionInv'
<1> USE DEF RunSettles, CompactionInv
<1>1. CompactionTypeOK'
  BY DEF CompactionTypeOK, AttemptOK
<1>2. FlagHasHolder' /\ OneHook' /\ OneHolder'
  BY SameAttempts DEF FlagHasHolder, OneHook, OneHolder, UnderWay, CompactionTypeOK
<1> QED BY <1>1, <1>2

LEMMA SessionAbortsOK ==
  ASSUME CompactionInv, SessionAborts
  PROVE  CompactionInv'
<1> USE DEF SessionAborts, CompactionInv
<1>1. CompactionTypeOK'
  BY DEF CompactionTypeOK, AttemptOK
<1>2. FlagHasHolder' /\ OneHook' /\ OneHolder'
  BY SameAttempts DEF FlagHasHolder, OneHook, OneHolder, UnderWay
<1> QED BY <1>1, <1>2

(* A new generation: nothing of the earlier ones counts.                     *)
LEMMA ClearsOK ==
  ASSUME CompactionInv, Clears, life' \in {"open", "closed"}
  PROVE  CompactionInv'
<1> USE DEF Clears, CompactionInv
<1>1. CompactionTypeOK'
  <2>1. \A t \in Attempts : attempt[t] \in PossibleAttempt /\ AttemptOK(attempt[t])
    BY DEF CompactionTypeOK
  <2>2. \A t \in Attempts : AttemptOK(attempt[t])'
    BY <2>1 DEF AttemptOK, PossibleAttempt, CompactionTypeOK
  <2>3. era' \in Nat \ {0}
    BY DEF CompactionTypeOK
  <2> QED BY <2>2, <2>3, Zenon DEF CompactionTypeOK
<1>2. \A t \in Attempts : ~Holds(t)' /\ ~Hooked(t)'
  <2>1. \A t \in Attempts : attempt[t] \in PossibleAttempt /\ AttemptOK(attempt[t])
    BY DEF CompactionTypeOK
  <2> QED BY <2>1 DEF Holds, Hooked, AttemptOK, PossibleAttempt, CompactionTypeOK
<1>3. FlagHasHolder' /\ OneHook' /\ OneHolder'
  BY <1>2 DEF FlagHasHolder, OneHook, OneHolder, UnderWay
<1> QED BY <1>1, <1>3

--------------------------------------------------------------------------------
(* A new call of compact by one of the three.                                *)
LEMMA CompactsOK ==
  ASSUME CompactionInv, NEW t \in Attempts, ~Holds(t), ~Hooked(t),
         NEW kind \in {"threshold", "idle", "command"}, Compacts(t, kind),
         UNCHANGED <<era, life, agentBusy, compactHookInFlight>>,
         \/ kind # "threshold" /\ UNCHANGED armed
         \/ kind = "threshold" /\ armed /\ armed' = FALSE
  PROVE  CompactionInv'
<1> USE DEF CompactionInv, Compacts
<1>1. CompactionTypeOK'
  <2>1. compactInFlight' \in BOOLEAN /\ idleCompactInFlight' \in BOOLEAN /\ overlap' \in BOOLEAN
    BY Zenon DEF CompactionTypeOK
  <2>2. armed' \in BOOLEAN
    BY DEF CompactionTypeOK
  <2> QED BY <2>1, <2>2, OneBegins DEF CompactionTypeOK, CompactionKinds
<1>2. attempt'[t].pc = "called" /\ attempt'[t].kind = kind /\ attempt'[t].era = era
  BY DEF CompactionTypeOK, Begun
<1>3. Holds(t)' /\ ~Hooked(t)'
  BY <1>2 DEF Holds, Called, Hooked
<1>4. \A u \in Attempts \ {t} : /\ Holds(u)' <=> Holds(u)
                                /\ Hooked(u)' <=> Hooked(u)
                                /\ attempt'[u] = attempt[u]
  BY DEF Holds, Called, Hooked, CompactionTypeOK
<1>5. FlagHasHolder'
  <2>1. life' = "open" /\ idleCompactInFlight' =>
           \E u \in Attempts : Holds(u)' /\ attempt'[u].kind = "idle"
    BY <1>2, <1>3, <1>4 DEF FlagHasHolder
  <2> QED BY <1>3, <2>1 DEF FlagHasHolder, UnderWay
<1>6. OneHook'
  BY <1>3, <1>4 DEF OneHook
<1>7. OneHolder'
  BY <1>3, <1>4 DEF OneHolder, CompactionTypeOK
<1> QED BY <1>1, <1>5, <1>6, <1>7

LEMMA TimerFiresOK ==
  ASSUME CompactionInv, TimerFires
  PROVE  CompactionInv'
<1> USE DEF TimerFires, Session
<1>1. CASE compactInFlight' = FALSE /\ UNCHANGED <<idleCompactInFlight, attempt, overlap>>
  <2> USE <1>1 DEF CompactionInv
  <2>1. CompactionTypeOK'
    BY DEF CompactionTypeOK, AttemptOK
  <2>2. FlagHasHolder' /\ OneHook' /\ OneHolder'
    BY SameAttempts DEF FlagHasHolder, OneHook, OneHolder, UnderWay
  <2> QED BY <2>1, <2>2
<1>2. ASSUME NEW t \in Attempts, New(t), Compacts(t, "threshold")
      PROVE  CompactionInv'
  <2>1. ~Holds(t) /\ ~Hooked(t)
    BY <1>2 DEF New, Holds, Called, Hooked
  <2> QED BY <1>2, <2>1, CompactsOK DEF CompactionInv, CompactionTypeOK
<1> QED BY <1>1, <1>2

(* A step of an attempt that neither begins nor ends a call or a hook.       *)
LEMMA RestOK ==
  ASSUME CompactionInv, CompactionTypeOK',
         UNCHANGED <<era, life, armed, compactInFlight, idleCompactInFlight,
                     compactHookInFlight, overlap>>,
         \A t \in Attempts : /\ Holds(t)' <=> Holds(t)
                             /\ Hooked(t)' <=> Hooked(t)
                             /\ Holds(t) => attempt'[t].kind = attempt[t].kind
  PROVE  CompactionInv'
  BY DEF CompactionInv, FlagHasHolder, OneHook, OneHolder, UnderWay

LEMMA WaitsOK ==
  ASSUME CompactionInv, NEW t \in Attempts, New(t), NEW kind \in {"idle", "command"},
         Waits(t, kind), Session,
         UNCHANGED <<armed, compactInFlight, idleCompactInFlight, compactHookInFlight, overlap>>
  PROVE  CompactionInv'
<1> USE DEF Session, Waits, New
<1>1. CompactionTypeOK'
  BY OneBegins DEF CompactionInv, CompactionTypeOK, CompactionKinds
<1>2. \A u \in Attempts : /\ Holds(u)' <=> Holds(u)
                          /\ Hooked(u)' <=> Hooked(u)
                          /\ Holds(u) => attempt'[u].kind = attempt[u].kind
  BY DEF Begun, Holds, Called, Hooked, CompactionInv, CompactionTypeOK
<1> QED BY <1>1, <1>2, RestOK

LEMMA InputOK ==
  ASSUME CompactionInv, NEW t \in Attempts, Input(t)
  PROVE  CompactionInv'
<1>1. CASE Waits(t, "idle") /\ UNCHANGED <<compactInFlight, idleCompactInFlight, overlap>>
  BY <1>1, WaitsOK DEF Input
<1>2. CASE Compacts(t, "idle")
  <2>1. ~Holds(t) /\ ~Hooked(t)
    BY DEF Input, New, Holds, Called, Hooked
  <2> QED BY <1>2, <2>1, CompactsOK DEF Input, Session
<1> QED BY <1>1, <1>2 DEF Input

LEMMA CommandOK ==
  ASSUME CompactionInv, NEW t \in Attempts, Command(t)
  PROVE  CompactionInv'
  BY WaitsOK DEF Command

LEMMA WaitEndsOK ==
  ASSUME CompactionInv, NEW t \in Attempts, WaitEnds(t)
  PROVE  CompactionInv'
<1> USE DEF WaitEnds, Session
<1>1. ~Holds(t) /\ ~Hooked(t)
  BY DEF Holds, Called, Hooked
<1>2. CASE Compacts(t, attempt[t].kind)
  <2>1. attempt[t].kind \in {"idle", "command"}
    BY DEF CompactionInv, CompactionTypeOK, AttemptOK
  <2> QED BY <1>1, <1>2, <2>1, CompactsOK
<1>3. CASE /\ attempt' = [attempt EXCEPT ![t].pc = "over"]
           /\ UNCHANGED <<compactInFlight, idleCompactInFlight, overlap>>
  <2> USE <1>3
  <2>1. CompactionTypeOK'
    BY OneGoesOn DEF CompactionInv, CompactionTypeOK, Pcs
  <2>2. \A u \in Attempts : /\ Holds(u)' <=> Holds(u)
                            /\ Hooked(u)' <=> Hooked(u)
                            /\ Holds(u) => attempt'[u].kind = attempt[u].kind
    BY DEF Holds, Called, Hooked, CompactionInv, CompactionTypeOK
  <2> QED BY <2>1, <2>2, RestOK
<1> QED BY <1>2, <1>3

LEMMA HostCompactsOK ==
  ASSUME CompactionInv, NEW t \in Attempts, HostCompacts(t)
  PROVE  CompactionInv'
<1> USE DEF HostCompacts, Session, New
<1>1. CompactionTypeOK'
  BY OneBegins DEF CompactionInv, CompactionTypeOK, CompactionKinds
<1>2. \A u \in Attempts : /\ Holds(u)' <=> Holds(u)
                          /\ Hooked(u)' <=> Hooked(u)
                          /\ Holds(u) => attempt'[u].kind = attempt[u].kind
  BY DEF Begun, Holds, Called, Hooked, CompactionInv, CompactionTypeOK
<1> QED BY <1>1, <1>2, RestOK

--------------------------------------------------------------------------------
LEMMA HookOK ==
  ASSUME CompactionInv, NEW t \in Attempts, Hook(t)
  PROVE  CompactionInv'
<1> USE DEF Hook, Session
<1>1. CompactionTypeOK'
  <2>1. CASE attempt' = [attempt EXCEPT ![t].pc = "answered"] /\ UNCHANGED compactHookInFlight
    BY <2>1, OneGoesOn DEF CompactionInv, CompactionTypeOK, Pcs
  <2>2. CASE attempt' = [attempt EXCEPT ![t] = InHook(attempt[t])]
           /\ ~compactHookInFlight /\ compactHookInFlight'
    <3>1. attempt[t] \in PossibleAttempt /\ AttemptOK(attempt[t]) /\ era \in Nat
      BY DEF CompactionInv, CompactionTypeOK
    <3>2. InHook(attempt[t]) \in PossibleAttempt /\ AttemptOK(InHook(attempt[t]))
      BY <3>1 DEF InHook, PossibleAttempt, AttemptOK, Pcs
    <3> QED BY <2>2, <3>2, OneChanges DEF CompactionInv, CompactionTypeOK
  <2> QED BY <2>1, <2>2
<1>2. /\ \A u \in Attempts \ {t} : attempt'[u] = attempt[u]
      /\ attempt'[t].kind = attempt[t].kind /\ attempt'[t].era = attempt[t].era
      /\ \/ attempt'[t].pc = "answered" /\ UNCHANGED compactHookInFlight
         \/ /\ attempt'[t].pc = "hooked" /\ attempt'[t].hook = era
            /\ ~compactHookInFlight /\ compactHookInFlight'
  <2>1. CASE attempt' = [attempt EXCEPT ![t].pc = "answered"] /\ UNCHANGED compactHookInFlight
    BY <2>1 DEF CompactionInv, CompactionTypeOK, PossibleAttempt
  <2>2. CASE attempt' = [attempt EXCEPT ![t] = InHook(attempt[t])]
           /\ ~compactHookInFlight /\ compactHookInFlight'
    BY <2>2 DEF InHook, CompactionInv, CompactionTypeOK
  <2> QED BY <2>1, <2>2
<1>3. \A u \in Attempts : /\ Holds(u)' <=> Holds(u)
                          /\ Holds(u) => attempt'[u].kind = attempt[u].kind
  BY <1>2 DEF Holds, Called
<1>4. /\ \A u \in Attempts \ {t} : Hooked(u)' <=> Hooked(u)
      /\ ~Hooked(t)
      /\ \/ ~Hooked(t)' /\ UNCHANGED compactHookInFlight
         \/ Hooked(t)' /\ ~compactHookInFlight /\ compactHookInFlight'
  BY <1>2 DEF Hooked
<1>5. OneHook'
  BY <1>4 DEF OneHook, CompactionInv, CompactionTypeOK
<1>6. FlagHasHolder' /\ OneHolder'
  BY <1>3 DEF FlagHasHolder, OneHolder, UnderWay, CompactionInv
<1> QED BY <1>1, <1>5, <1>6 DEF CompactionInv

LEMMA HookEndsOK ==
  ASSUME CompactionInv, NEW t \in Attempts, HookEnds(t)
  PROVE  CompactionInv'
<1> USE DEF HookEnds, HookReleases, Session
<1>1. CompactionTypeOK'
  BY OneGoesOn DEF CompactionInv, CompactionTypeOK, Pcs
<1>2. \A u \in Attempts : /\ Holds(u)' <=> Holds(u)
                          /\ Holds(u) => attempt'[u].kind = attempt[u].kind
  BY DEF Holds, Called, CompactionInv, CompactionTypeOK
<1>3. /\ \A u \in Attempts \ {t} : Hooked(u)' <=> Hooked(u)
      /\ ~Hooked(t)'
      /\ Hooked(t) <=> attempt[t].hook = era
  BY DEF Hooked, CompactionInv, CompactionTypeOK
<1>4. OneHook'
  BY <1>3 DEF OneHook, CompactionInv, CompactionTypeOK
<1>5. FlagHasHolder' /\ OneHolder'
  BY <1>2 DEF FlagHasHolder, OneHolder, UnderWay, CompactionInv
<1> QED BY <1>1, <1>4, <1>5 DEF CompactionInv

(* The end of a call takes the flag with it; the flag of another holder only *)
(* if the two had overlapped.                                                *)
LEMMA HostEndsOK ==
  ASSUME CompactionInv, NEW t \in Attempts, HostEnds(t)
  PROVE  CompactionInv'
<1> USE DEF HostEnds, Session
<1>1. CompactionTypeOK'
  BY OneGoesOn DEF CompactionInv, CompactionTypeOK, Pcs
<1>2. /\ \A u \in Attempts \ {t} : /\ Holds(u)' <=> Holds(u)
                                  /\ attempt'[u] = attempt[u]
      /\ \A u \in Attempts : Hooked(u)' <=> Hooked(u)
      /\ ~Holds(t)'
  BY DEF Holds, Called, Hooked, CompactionInv, CompactionTypeOK
<1>3. OneHook' /\ OneHolder'
  BY <1>2 DEF OneHook, OneHolder, CompactionInv
<1>4. CASE attempt[t].kind # "host" /\ Active(attempt[t].era)
  <2>1. Holds(t) /\ life = "open"
    BY <1>4 DEF Holds, Called, Active
  <2>2. ~overlap => ~armed /\ \A u \in Attempts : ~Holds(u)'
    BY <1>2, <2>1 DEF OneHolder, CompactionInv
  <2>3. idleCompactInFlight' => \E u \in Attempts : Holds(u)' /\ attempt'[u].kind = "idle"
    BY <1>2, <1>4, <2>1 DEF FlagHasHolder, CompactionInv
  <2>4. FlagHasHolder'
    BY <1>4, <2>2, <2>3 DEF FlagHasHolder, UnderWay
  <2> QED BY <1>1, <1>3, <2>4 DEF CompactionInv
<1>5. CASE ~(attempt[t].kind # "host" /\ Active(attempt[t].era))
  <2>1. life = "open" => ~Holds(t)
    BY <1>5 DEF Holds, Active
  <2>2. FlagHasHolder'
    BY <1>2, <1>5, <2>1 DEF FlagHasHolder, UnderWay, CompactionInv
  <2> QED BY <1>1, <1>3, <2>2 DEF CompactionInv
<1> QED BY <1>4, <1>5

--------------------------------------------------------------------------------
LEMMA CompactionNextOK ==
  ASSUME CompactionInv, [CompactionNext]_compactionVars
  PROVE  CompactionInv'
<1>1. CASE UNCHANGED compactionVars
  BY <1>1, SameAttempts DEF compactionVars, CompactionInv, CompactionTypeOK, AttemptOK,
     FlagHasHolder, OneHook, OneHolder, UnderWay
<1>2. CASE SessionEnds \/ SessionStarts
  BY <1>2, ClearsOK DEF SessionEnds, SessionStarts
<1>3. ASSUME NEW t \in Attempts,
             \/ Input(t) \/ Command(t) \/ WaitEnds(t) \/ HostCompacts(t)
             \/ Hook(t) \/ HookEnds(t) \/ HostEnds(t)
      PROVE  CompactionInv'
  BY <1>3, InputOK, CommandOK, WaitEndsOK, HostCompactsOK, HookOK, HookEndsOK, HostEndsOK
<1> QED
  BY <1>1, <1>2, <1>3, RunStartsOK, RunSettlesOK, TimerFiresOK, SessionAbortsOK
     DEF CompactionNext

LEMMA CompactionInvariant == CompactionSpec => []CompactionInv
<1>1. CompactionInv /\ [CompactionNext]_compactionVars => CompactionInv'
  BY CompactionNextOK
<1> QED BY CompactionInitOK, <1>1, PTL DEF CompactionSpec

(* A flag that is set is held by a timer or a call of its own session, and   *)
(* no callback of an earlier session takes it away.                          *)
THEOREM FlagsAreHeld == CompactionSpec => []FlagHasHolder
<1>1. CompactionInv => FlagHasHolder
  BY DEF CompactionInv
<1> QED BY CompactionInvariant, <1>1, PTL

(* One hook of the session at a time, in whatever order hooks of earlier     *)
(* sessions end.                                                             *)
THEOREM HooksExclude == CompactionSpec => []OneHook
<1>1. CompactionInv => OneHook
  BY DEF CompactionInv
<1> QED BY CompactionInvariant, <1>1, PTL
================================================================================
