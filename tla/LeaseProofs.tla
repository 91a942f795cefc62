----------------------------- MODULE LeaseProofs -----------------------------
(* Proofs about Lease, for any number of runtimes, openings, restarts and      *)
(* faults: the types, that two processes never work for one child, that a stop *)
(* that succeeded stays a stop, and that the record names the process that     *)
(* works.                                                                      *)
(*                                                                             *)
(* The types come first, one group of variables at a time; then what the host  *)
(* and the messages say of a process (HostInv), who launches and what waits    *)
(* for whom (ControlInv), and the launch in hand (LaunchInv).  These hold      *)
(* whatever happens.  While no exception was made, SafeInv says in addition    *)
(* that every process that works is the one that the launch, the record, the   *)
(* list of panels and the handle speak of.  Last comes the binding: what is    *)
(* asked for and awaited while no launch is in hand (AskInv), and who the      *)
(* record speaks of (BindInv).                                                 *)
EXTENDS Lease, SequenceTheorems, TLAPS

--------------------------------------------------------------------------------
(* The range of a number of a runtime, or none.                                *)
LEMMA Numbers == 0 \in 0..MaxRuntimes /\ Runtimes \subseteq 0..MaxRuntimes
  BY LeaseAssumption DEF Runtimes

(* An edge of the lease keeps the type of the record.                          *)
LEMMA RecordEdges ==
  \A rec \in RecordType :
    /\ \A b \in BOOLEAN : [rec EXCEPT !.running = b] \in RecordType
    /\ \A i \in {"active", "stopped"} : [rec EXCEPT !.intent = i] \in RecordType
    /\ \A b \in BOOLEAN, i \in {"active", "stopped"} :
         /\ [rec EXCEPT !.running = b, !.intent = i] \in RecordType
         /\ [rec EXCEPT !.intent = i, !.running = b] \in RecordType
    /\ \A r \in 0..MaxRuntimes : Bound(rec, r) \in RecordType /\ Attached(rec, r) \in RecordType
    /\ Cleared(rec) \in RecordType
    /\ Dropped(rec) \in RecordType
    /\ Finished(rec) \in RecordType
    /\ rec.intent \in {"active", "stopped"}
<1> TAKE rec \in RecordType
<1>1. Cleared(rec) \in RecordType /\ rec.intent \in {"active", "stopped"}
  BY Numbers, Zenon DEF RecordType, Cleared
<1>0. \A r \in 0..MaxRuntimes : Bound(rec, r) \in RecordType /\ Attached(rec, r) \in RecordType
  BY Numbers, Zenon DEF RecordType, Bound, Attached
<1>2. \A c \in RecordType, x \in BOOLEAN : [c EXCEPT !.running = x] \in RecordType
  BY DEF RecordType
<1>3. (rec.running /\ rec.intent = "stopped") \in BOOLEAN
  OBVIOUS
<1>4. Dropped(rec) \in RecordType /\ Finished(rec) \in RecordType
  BY <1>1, <1>2, <1>3, Zenon DEF Dropped, Finished
<1>5. /\ \A i \in {"active", "stopped"} : [rec EXCEPT !.intent = i] \in RecordType
      /\ \A b \in BOOLEAN, i \in {"active", "stopped"} :
         /\ [rec EXCEPT !.running = b, !.intent = i] \in RecordType
         /\ [rec EXCEPT !.intent = i, !.running = b] \in RecordType
  BY DEF RecordType
<1> QED BY <1>0, <1>1, <1>2, <1>4, <1>5, Zenon

(* A launch in hand has a runtime.                                             *)
LEMMA LaunchFields ==
  ASSUME launch \in LaunchType, launch.at # "none"
  PROVE  /\ launch.at \in {"opening", "waiting"} /\ launch.runtime \in Runtimes
         /\ launch.by \in {"call", "reconcile"}
  BY DEF LaunchType, NoLaunch

(* The end of a launch keeps the type of the record.                           *)
LEMMA ConcludedRecord ==
  ASSUME NEW rec \in RecordType, record \in RecordType, NEW ok \in BOOLEAN, Concludes(rec, ok)
  PROVE  record' \in RecordType
<1>1. CASE launch.by = "call"
  <2> DEFINE b == IF ok THEN TRUE ELSE rec.running /\ launch.was /\ ~Connected
             i == IF ok THEN "active" ELSE rec.intent
  <2>1. b \in BOOLEAN
    OBVIOUS
  <2>2. i \in {"active", "stopped"}
    BY RecordEdges
  <2>3. record' = [rec EXCEPT !.running = b, !.intent = i]
    BY <1>1 DEF Concludes
  <2> HIDE DEF b, i
  <2> QED BY <2>1, <2>2, <2>3, RecordEdges, Zenon
<1>2. CASE launch.by # "call"
  BY <1>2 DEF Concludes
<1> QED BY <1>1, <1>2

(* So does an exception.                                                       *)
LEMMA ThrownRecord ==
  ASSUME record \in RecordType, Throws
  PROVE  record' \in RecordType
<1>1. (record.running /\ launch.was /\ ~Connected) \in BOOLEAN
  OBVIOUS
<1> QED BY <1>1, RecordEdges, Zenon DEF Throws

(* Every step keeps the type of the record.                                    *)
LEMMA RecordTypeStep ==
  ASSUME record \in RecordType, launch \in LaunchType, [Next]_leaseVars
  PROVE  record' \in RecordType
<1>1. \/ record' = record
      \/ \E r \in Runtimes : HearsError(r) \/ HearsDone(r)
      \/ HearsTurn \/ ChainStep \/ LaunchStep \/ Acts \/ Settles
  BY DEF Next, leaseVars, Serves, Reloads, Leaves, ReportsError, Dies, HumanCloses, HearsLeft,
     HostRestarts, ParentEnds, ParentOpens, Notices, Calls, ReconStep, Lists, Reads, database,
     memory, world, Outside
<1> USE RecordEdges
<1>2. CASE \E r \in Runtimes : HearsError(r) \/ HearsDone(r)
  BY <1>2 DEF HearsError, HearsDone
<1>3. CASE HearsTurn
  BY <1>3 DEF HearsTurn, RecordType
<1>4. CASE LaunchStep
  <2>1. CASE HostOpens
    BY <2>1, ConcludedRecord DEF HostOpens
  <2>2. CASE Connects
    <3>1. launch.runtime \in 0..MaxRuntimes
      BY <2>2, Numbers, LaunchFields DEF Connects
    <3> QED BY <2>2, <3>1, ConcludedRecord, ThrownRecord DEF Connects
  <2>3. CASE TimesOut
    <3>1. launch.runtime \in 0..MaxRuntimes
      BY <2>3, Numbers, LaunchFields DEF TimesOut
    <3> QED BY <2>3, <3>1, ConcludedRecord, ThrownRecord DEF TimesOut
  <2> QED BY <1>4, <2>1, <2>2, <2>3 DEF LaunchStep
<1>5. CASE Acts
  <2> DEFINE i == IF recon.active THEN "stopped" ELSE Cleared(record).intent
  <2>1. \/ record' = record \/ \E r \in Runtimes : record' = Bound(record, r)
        \/ record' = [Cleared(record) EXCEPT !.intent = i]
    BY <1>5 DEF Acts
  <2>2. Cleared(record) \in RecordType /\ i \in {"active", "stopped"}
    BY RecordEdges
  <2> HIDE DEF i
  <2> QED BY <2>1, <2>2, Numbers
<1>6. CASE Settles
  BY <1>6, Numbers DEF Settles
<1>7. CASE ChainStep
  <2>1. CASE Adopts
    BY <2>1 DEF Adopts
  <2>2. CASE Ended
    BY <2>2, Numbers DEF Ended, EndsRuntime
  <2>3. CASE EndObserved
    BY <2>3, Numbers DEF EndObserved
  <2>4. CASE LeftSession
    BY <2>4, Numbers DEF LeftSession
  <2>5. CASE Send
    <3> DEFINE rec == [record EXCEPT !.running = TRUE, !.intent = "active"]
    <3>1. rec \in RecordType
      OBVIOUS
    <3>2. record' = rec \/ \E r \in Runtimes : record' = Bound(rec, r)
      BY <2>5 DEF Send
    <3> HIDE DEF rec
    <3> QED BY <3>1, <3>2, Numbers
  <2>6. CASE Stop
    BY <2>6 DEF Stop
  <2>7. CASE StopCloses
    BY <2>7, Numbers DEF StopCloses, Confirms
  <2>8. CASE Reclaim
    BY <2>8, Numbers DEF Reclaim
  <2>9. CASE Reclaims
    BY <2>9, Numbers DEF Reclaims
  <2> QED BY <1>7, <2>1, <2>2, <2>3, <2>4, <2>5, <2>6, <2>7, <2>8, <2>9 DEF ChainStep
<1> QED BY <1>1, <1>2, <1>3, <1>4, <1>5, <1>6, <1>7

--------------------------------------------------------------------------------
(* Every step keeps the type of the launch.                                    *)
LEMMA LaunchTypeStep ==
  ASSUME launch \in LaunchType, record \in RecordType, [Next]_leaseVars
  PROVE  launch' \in LaunchType
<1>0. /\ NoLaunch \in LaunchType
      /\ \A r \in Runtimes, by \in {"call", "reconcile"}, was \in BOOLEAN :
           Opening(r, by, was) \in LaunchType
      /\ launch.at # "none" => [launch EXCEPT !.at = "waiting"] \in LaunchType
  BY DEF LaunchType, NoLaunch, Opening
<1>1. \/ launch' \in {launch, NoLaunch}
      \/ HostOpens \/ Send \/ Acts
  BY DEF Next, leaseVars, Serves, Reloads, Leaves, ReportsError, Dies, HumanCloses, HearsLeft,
     HearsError, HearsDone, HearsTurn, HostRestarts, ParentEnds, ParentOpens, Notices, Calls,
     ReconStep, Lists, Reads, Settles, LaunchStep, Connects, TimesOut, Concludes, Throws,
     ChainStep, Adopts, Ended, EndObserved, LeftSession, Stop, StopCloses, Reclaim, Reclaims,
     memory, world, database, Outside
<1>2. CASE HostOpens
  BY <1>0, <1>2 DEF HostOpens, Concludes
<1>3. CASE Send
  <2>1. launch' = launch \/ \E r \in Runtimes : launch' = Opening(r, "call", record.running)
    BY <1>3 DEF Send, Opens
  <2>2. ASSUME NEW r \in Runtimes, launch' = Opening(r, "call", record.running)
        PROVE  launch' \in LaunchType
    <3>1. record.running \in BOOLEAN
      BY DEF RecordType
    <3> QED BY <1>0, <2>2, <3>1
  <2> QED BY <2>1, <2>2
<1>4. CASE Acts
  BY <1>0, <1>4 DEF Acts, Opens
<1> QED BY <1>0, <1>1, <1>2, <1>3, <1>4

(* What a step does with the reconciliation.                                   *)
LEMMA ReconMoves ==
  ASSUME [Next]_leaseVars
  PROVE  \/ recon' = recon \/ ParentEnds \/ ParentOpens \/ ReconStep
         \/ LaunchStep /\ launch.by # "call"
  BY DEF Next, leaseVars, Serves, Reloads, Leaves, ReportsError, Dies, HumanCloses, HearsLeft,
     HearsError, HearsDone, HearsTurn, HostRestarts, Notices, Calls,
     LaunchStep, HostOpens, Connects, TimesOut, Concludes, Throws,
     ChainStep, Adopts, Ended, EndObserved, LeftSession, Send, Stop, StopCloses, Reclaim, Reclaims,
     memory, world, database, Outside

Ats == {"none", "listing", "reading", "acting", "opening", "settling", "done"}

(* A step of the reconciliation keeps its type.                                *)
LEMMA ReconFields ==
  /\ NoRecon \in ReconType
  /\ \A c \in ReconType :
       /\ \A a \in Ats : [c EXCEPT !.at = a] \in ReconType
       /\ \A g \in Nat, p \in SUBSET Runtimes :
            [c EXCEPT !.at = "reading", !.generation = g, !.present = p] \in ReconType
       /\ \A n \in 0..MaxRuntimes, b \in BOOLEAN :
            [c EXCEPT !.at = "acting", !.panel = n, !.active = b] \in ReconType
       /\ \A b \in BOOLEAN : /\ [c EXCEPT !.at = "settling", !.rebound = b] \in ReconType
                             /\ [c EXCEPT !.at = "settling", !.rehydrated = b] \in ReconType
<1>1. NoRecon \in ReconType
  BY LeaseAssumption DEF ReconType, NoRecon
<1> QED BY <1>1 DEF ReconType, Ats

(* Every step keeps the type of the reconciliation.                            *)
LEMMA ReconTypeStep ==
  ASSUME recon \in ReconType, record \in RecordType, generation \in Nat, [Next]_leaseVars
  PROVE  recon' \in ReconType
<1> USE ReconFields
<1>1. CASE recon' = recon
  BY <1>1
<1>2. CASE ParentEnds \/ ParentOpens
  BY <1>2 DEF ParentEnds, ParentOpens, Ats
<1>3. CASE ReconStep
  <2>1. CASE Lists
    <3> DEFINE p == {r \in Runtimes : panel[r]}
    <3>1. \/ recon' = [recon EXCEPT !.at = "reading", !.generation = generation, !.present = p]
          \/ recon' = [recon EXCEPT !.at = "done"]
      BY <2>1 DEF Lists
    <3>2. p \in SUBSET Runtimes
      OBVIOUS
    <3> HIDE DEF p
    <3>3. CASE recon' = [recon EXCEPT !.at = "reading", !.generation = generation, !.present = p]
      BY <3>2, <3>3, Zenon
    <3>4. CASE recon' = [recon EXCEPT !.at = "done"]
      BY <3>4 DEF Ats
    <3> QED BY <3>1, <3>3, <3>4
  <2>2. CASE Reads
    <3>1. record.panel \in 0..MaxRuntimes /\ (record.intent = "active") \in BOOLEAN
      BY DEF RecordType
    <3> DEFINE b == record.intent = "active"
    <3>2. recon' = [recon EXCEPT !.at = "acting", !.panel = record.panel, !.active = b]
      BY <2>2 DEF Reads
    <3>3. b \in BOOLEAN
      OBVIOUS
    <3> HIDE DEF b
    <3> QED BY <3>1, <3>2, <3>3, Zenon
  <2>3. CASE Acts
    <3> DEFINE b == recon.panel # 0 /\ ~Missing
    <3>1. recon' = [recon EXCEPT !.at = "opening"] \/ recon' = [recon EXCEPT !.at = "settling", !.rebound = b]
      BY <2>3 DEF Acts
    <3>2. b \in BOOLEAN
      OBVIOUS
    <3> HIDE DEF b
    <3> QED BY <3>1, <3>2 DEF Ats
  <2>4. CASE Settles
    BY <2>4 DEF Settles, Ats
  <2> QED BY <1>3, <2>1, <2>2, <2>3, <2>4 DEF ReconStep
<1>4. CASE LaunchStep /\ launch.by # "call"
  <2>1. ASSUME NEW rec, NEW ok \in BOOLEAN, Concludes(rec, ok) PROVE recon' \in ReconType
    BY <1>4, <2>1 DEF Concludes
  <2>2. ASSUME Throws PROVE recon' \in ReconType
    BY <1>4, <2>2 DEF Throws, Ats
  <2>3. CASE HostOpens
    BY <2>1, <2>3 DEF HostOpens
  <2>4. CASE Connects
    BY <2>1, <2>2, <2>4 DEF Connects
  <2>5. CASE TimesOut
    BY <2>1, <2>2, <2>5 DEF TimesOut
  <2> QED BY <1>4, <2>3, <2>4, <2>5 DEF LaunchStep
<1> QED BY <1>1, <1>2, <1>3, <1>4, ReconMoves

(* What is noticed or asked for is put at the end of the chain, and what is    *)
(* done is taken from its front.                                               *)
Kinds   == {"adopt", "ended", "left", "send", "stop", "reclaim"}
Entries == [kind : Kinds, runtime : 0..MaxRuntimes]

(* The fields of an entry.                                                     *)
LEMMA EntryType ==
  \A kind \in Kinds, r \in 0..MaxRuntimes :
    Entry(kind, r) \in Entries /\ Entry(kind, r).kind = kind /\ Entry(kind, r).runtime = r
  BY DEF Entry, Entries

(* What an entry at the end adds.                                              *)
LEMMA Appended ==
  ASSUME NEW s \in Seq(Entries), NEW e \in Entries
  PROVE  /\ Append(s, e) \in Seq(Entries)
         /\ \A i \in DOMAIN Append(s, e) :
              \/ i \in DOMAIN s /\ Append(s, e)[i] = s[i]
              \/ Append(s, e)[i] = e
         /\ \A i \in DOMAIN s : i \in DOMAIN Append(s, e) /\ Append(s, e)[i] = s[i]
         /\ \E i \in DOMAIN Append(s, e) : Append(s, e)[i] = e
<1>1. /\ Append(s, e) \in Seq(Entries) /\ Len(s) \in Nat /\ Len(Append(s, e)) = Len(s) + 1
      /\ \A i \in 1..Len(s) : Append(s, e)[i] = s[i]
      /\ Append(s, e)[Len(s) + 1] = e
  BY AppendProperties, LenProperties
<1>2. DOMAIN s = 1..Len(s) /\ DOMAIN Append(s, e) = 1..(Len(s) + 1)
  BY <1>1, LenProperties
<1> QED BY <1>1, <1>2

(* What the removal of the first entry leaves.                                 *)
LEMMA TailOf ==
  ASSUME NEW s \in Seq(Entries), s # <<>>
  PROVE  /\ Tail(s) \in Seq(Entries) /\ Head(s) \in Entries
         /\ \A i \in DOMAIN Tail(s) : i + 1 \in DOMAIN s /\ Tail(s)[i] = s[i + 1]
         /\ 1 \in DOMAIN s /\ Head(s) = s[1]
<1>1. /\ Len(s) \in Nat /\ Len(s) # 0 /\ Tail(s) \in Seq(Entries)
      /\ Len(Tail(s)) = Len(s) - 1
      /\ \A i \in 1..Len(Tail(s)) : Tail(s)[i] = s[i + 1]
      /\ Head(s) \in Entries
  BY HeadTailProperties, LenProperties, EmptySeq, SeqEqual
<1>2. DOMAIN s = 1..Len(s) /\ DOMAIN Tail(s) = 1..(Len(s) - 1)
  BY <1>1, LenProperties
<1>3. Head(s) = s[1]
  BY <1>1
<1> QED BY <1>1, <1>2, <1>3

(* A step of the chain: what it drops from the front and adds at the end.      *)
Fresh(e) == \/ e.kind \in {"adopt", "ended"}
            \/ e.kind = "left" /\ <<"left", e.runtime>> \in mail /\ e.runtime \in Runtimes
            \/ e.kind \in {"send", "stop", "reclaim"} /\ Calls(e.kind)

(* What a step does with the chain.                                            *)
ChainMove ==
  \/ chain' = chain
  \/ ParentEnds /\ chain' = <<>>
  \/ chain # <<>> /\ chain' = Tail(chain)
  \/ \E e \in Entries : Fresh(e) /\ chain' = Append(chain, e)
  \/ LeftSession /\ chain # <<>> /\ chain' = Append(Tail(chain), Entry("ended", 0))

(* No step does anything else to the chain.                                    *)
LEMMA ChainMoves ==
  ASSUME chain \in Seq(Entries), [Next]_leaseVars
  PROVE  ChainMove
<1> USE DEF ChainMove
<1>1. \/ chain' = chain
      \/ chain # <<>> /\ chain' = Tail(chain)
      \/ ParentEnds \/ Notices \/ Connects \/ LeftSession
      \/ \E r \in Runtimes : HearsLeft(r)
      \/ \E kind \in {"send", "stop", "reclaim"} : Calls(kind)
  BY DEF Next, leaseVars, Serves, Reloads, Leaves, ReportsError, Dies, HumanCloses,
     HearsError, HearsDone, HearsTurn, HostRestarts, ParentOpens, ReconStep, Lists, Reads, Acts,
     Settles, LaunchStep, HostOpens, TimesOut, Takes, Next1,
     ChainStep, Adopts, Ended, EndObserved, Send, Stop, StopCloses, Reclaim, Reclaims,
     memory, world, database, Outside
<1>2. CASE Notices \/ Connects
  <2>1. \A kind \in {"adopt", "ended"} : Entry(kind, 0) \in Entries /\ Fresh(Entry(kind, 0))
    BY EntryType, Numbers DEF Fresh, Kinds
  <2> QED BY <1>2, <2>1 DEF Notices, Connects, Noticed
<1>3. ASSUME NEW r \in Runtimes, HearsLeft(r) PROVE ChainMove
  <2> DEFINE e == Entry("left", r)
  <2>1. e \in Entries /\ e.kind = "left" /\ e.runtime = r
    BY EntryType, Numbers DEF Kinds
  <2>2. <<"left", r>> \in mail /\ chain' = Append(chain, e)
    BY <1>3 DEF HearsLeft, Hears
  <2> HIDE DEF e
  <2>3. Fresh(e)
    BY <2>1, <2>2 DEF Fresh
  <2> QED BY <2>1, <2>2, <2>3
<1>4. ASSUME NEW kind \in {"send", "stop", "reclaim"}, Calls(kind) PROVE ChainMove
  <2> DEFINE e == Entry(kind, 0)
  <2>1. e \in Entries /\ e.kind = kind
    BY EntryType, Numbers DEF Kinds
  <2>2. chain' = Append(chain, e)
    BY <1>4 DEF Calls
  <2> HIDE DEF e
  <2>3. Fresh(e)
    BY <1>4, <2>1 DEF Fresh
  <2> QED BY <2>1, <2>2, <2>3
<1>5. CASE LeftSession
  BY <1>5 DEF LeftSession, Next1
<1>6. CASE ParentEnds
  BY <1>6 DEF ParentEnds
<1> QED BY <1>1, <1>2, <1>3, <1>4, <1>5, <1>6

(* Every step keeps the type of the chain.                                     *)
LEMMA ChainTypeStep ==
  ASSUME chain \in Seq(Entries), [Next]_leaseVars
  PROVE  chain' \in Seq(Entries)
<1>1. Entry("ended", 0) \in Entries
  BY EntryType, Numbers DEF Kinds
<1>2. CASE chain # <<>> /\ chain' = Tail(chain)
  BY <1>2, TailOf
<1>3. CASE \E e \in Entries : chain' = Append(chain, e)
  BY <1>3, Appended
<1>4. CASE chain # <<>> /\ chain' = Append(Tail(chain), Entry("ended", 0))
  BY <1>1, <1>4, TailOf, Appended
<1>5. CASE chain' = chain \/ chain' = <<>>
  BY <1>5, EmptySeq
<1> QED BY <1>2, <1>3, <1>4, <1>5, ChainMoves DEF ChainMove

(* The operation in hand goes on, ends, or another begins.                     *)
LEMMA OpMoves ==
  ASSUME [Next]_leaseVars
  PROVE  op' \in {op, Idle} \/ Ended \/ Send \/ Stop \/ Reclaim
  BY DEF Next, leaseVars, Serves, Reloads, Leaves, ReportsError, Dies, HumanCloses, HearsLeft,
     HearsError, HearsDone, HearsTurn, HostRestarts, ParentEnds, ParentOpens, Notices, Calls,
     ReconStep, Lists, Reads, Acts, Settles, LaunchStep, HostOpens, Connects, TimesOut, Concludes,
     Throws, ChainStep, Adopts, EndObserved, LeftSession, StopCloses, Reclaims,
     memory, world, database, Outside

(* Which operation begins.                                                     *)
LEMMA OpBegins ==
  ASSUME [Next]_leaseVars, op' \notin {op, Idle}
  PROVE  \/ Ended /\ op' = [kind |-> "ended", at |-> "observing"]
         \/ Send /\ op' = [kind |-> "send", at |-> "launching"]
         \/ Stop /\ op' = [kind |-> "stop", at |-> "closing"]
         \/ Reclaim /\ op' = [kind |-> "reclaim", at |-> "reclaiming"]
<1>1. CASE Ended
  <2>1. op' = op \/ op' = [kind |-> "ended", at |-> "observing"]
    BY <1>1 DEF Ended, EndsRuntime
  <2> QED BY <1>1, <2>1
<1>2. CASE Send
  <2>1. op' = op \/ op' = [kind |-> "send", at |-> "launching"]
    BY <1>2 DEF Send
  <2> QED BY <1>2, <2>1
<1>3. CASE Stop
  BY <1>3 DEF Stop
<1>4. CASE Reclaim
  <2>1. op' = op \/ op' = [kind |-> "reclaim", at |-> "reclaiming"]
    BY <1>4 DEF Reclaim
  <2> QED BY <1>4, <2>1
<1> QED BY <1>1, <1>2, <1>3, <1>4, OpMoves

(* Every step keeps the type of the operation.                                 *)
LEMMA OpTypeStep ==
  ASSUME op \in OpType, [Next]_leaseVars
  PROVE  op' \in OpType
<1>1. CASE Ended \/ Send \/ Stop \/ Reclaim
  BY <1>1 DEF Ended, EndsRuntime, Send, Stop, Reclaim, OpType
<1> QED BY <1>1, OpMoves DEF OpType

(* What becomes of the panels and the processes.                               *)
Starts(r) == panel' = [panel EXCEPT ![r] = TRUE] /\ Moves(r, "starting")
WorldMove ==
  \/ UNCHANGED <<panel, proc>>
  \/ \E r \in Runtimes : Serves(r) \/ Reloads(r) \/ Leaves(r) \/ Dies(r) \/ Closes(r)
  \/ HostRestarts
  \/ /\ launch.at = "opening" /\ launch'.at # "opening"
     /\ Starts(launch.runtime) \/ (UNCHANGED panel /\ Moves(launch.runtime, "dead"))

HostTypeOK == /\ panel \in [Runtimes -> BOOLEAN]
              /\ proc \in [Runtimes -> Working \cup {"none", "left", "dead"}]

(* The runtime none has no panel to close.                                     *)
LEMMA ClosesNone ==
  ASSUME HostTypeOK, Closes(0)
  PROVE  UNCHANGED <<panel, proc>>
  BY DEF HostTypeOK, Closes, Moves, Runtimes

(* No step does anything else to a panel or a process.                         *)
LEMMA WorldMoves ==
  ASSUME HostTypeOK, attachment \in 0..MaxRuntimes, launch \in LaunchType, [Next]_leaseVars
  PROVE  WorldMove
<1> USE DEF WorldMove
<1>1. \/ UNCHANGED <<panel, proc>>
      \/ \E r \in Runtimes : Serves(r) \/ Reloads(r) \/ Leaves(r) \/ Dies(r) \/ HumanCloses(r)
      \/ HostRestarts \/ HostOpens \/ TimesOut \/ EndObserved \/ StopCloses \/ Reclaims \/ ParentEnds
  BY DEF Next, leaseVars, ReportsError, HearsLeft,
     HearsError, HearsDone, HearsTurn, ParentOpens, Notices, Calls,
     ReconStep, Lists, Reads, Acts, Settles, LaunchStep, Connects,
     ChainStep, Adopts, LeftSession, Send, Stop, Ended, Reclaim,
     memory, world, database, Outside
<1>2. ASSUME NEW r \in 0..MaxRuntimes, NEW gone \in BOOLEAN, CleansUp(r, gone)
      PROVE  WorldMove
  <2>1. Closes(r) \/ UNCHANGED <<panel, proc>>
    BY <1>2 DEF CleansUp
  <2>2. r = 0 \/ r \in Runtimes
    BY LeaseAssumption DEF Runtimes
  <2> QED BY <2>1, <2>2, ClosesNone
<1>3. CASE HostOpens
  <2>1. launch.at = "opening" /\ launch'.at # "opening"
    BY <1>3, LaunchFields DEF HostOpens, Concludes, NoLaunch, LaunchType
  <2> QED BY <1>3, <2>1 DEF HostOpens, Starts
<1>4. CASE TimesOut
  <2>1. launch.runtime \in 0..MaxRuntimes
    BY <1>4, Numbers, LaunchFields DEF TimesOut
  <2> QED BY <1>2, <1>4, <2>1 DEF TimesOut
<1>5. CASE EndObserved
  BY <1>2, <1>5 DEF EndObserved
<1>6. CASE StopCloses
  BY <1>2, <1>6 DEF StopCloses
<1>7. CASE Reclaims
  BY <1>2, <1>7 DEF Reclaims
<1>8. CASE ParentEnds
  BY <1>8 DEF ParentEnds, Starts, NoLaunch
<1>9. CASE \E r \in Runtimes : HumanCloses(r)
  BY <1>9 DEF HumanCloses
<1> QED BY <1>1, <1>3, <1>4, <1>5, <1>6, <1>7, <1>8, <1>9

OneHolder == \A r, s \in Runtimes : proc[r] = "serving" /\ proc[s] = "serving" => r = s

(* Every step keeps the types of panels and processes, and one lock holder.    *)
LEMMA HostTypeStep ==
  ASSUME HostTypeOK, OneHolder, launch \in LaunchType, WorldMove
  PROVE  HostTypeOK' /\ OneHolder'
<1> USE DEF HostTypeOK, OneHolder, Moves, Working
<1>1. CASE UNCHANGED <<panel, proc>>
  BY <1>1
<1>2. ASSUME NEW r \in Runtimes, Serves(r) PROVE HostTypeOK' /\ OneHolder'
  BY <1>2 DEF Serves, LockHeld
<1>3. ASSUME NEW r \in Runtimes, Reloads(r) \/ Leaves(r) \/ Dies(r)
      PROVE HostTypeOK' /\ OneHolder'
  BY <1>3 DEF Reloads, Leaves, Dies
<1>4. ASSUME NEW r \in Runtimes, Closes(r) PROVE HostTypeOK' /\ OneHolder'
  BY <1>4 DEF Closes
<1>5. CASE HostRestarts
  BY <1>5 DEF HostRestarts
<1>6. CASE launch.at = "opening" /\ Starts(launch.runtime)
  BY <1>6, LaunchFields DEF Starts
<1>7. CASE launch.at = "opening" /\ UNCHANGED panel /\ Moves(launch.runtime, "dead")
  BY <1>7, LaunchFields
<1> QED BY <1>1, <1>2, <1>3, <1>4, <1>5, <1>6, <1>7 DEF WorldMove

RestTypeOK ==
  /\ generation \in Nat /\ faults \in Nat /\ opens \in Nat /\ hostGeneration \in Nat
  /\ mail \in SUBSET ({"left", "error"} \X Runtimes)
  /\ up \in BOOLEAN /\ seen \in BOOLEAN /\ left \in BOOLEAN /\ attachment \in 0..MaxRuntimes
  /\ marks \in SUBSET Marks

(* Every step keeps the types of the other variables.                          *)
LEMMA RestTypeStep ==
  ASSUME RestTypeOK, record \in RecordType, launch \in LaunchType, recon \in ReconType,
         [Next]_leaseVars
  PROVE  RestTypeOK'
<1>1. generation' \in Nat /\ faults' \in Nat /\ opens' \in Nat /\ hostGeneration' \in Nat
  <2>1. generation' \in {generation, generation + 1}
    BY DEF RestTypeOK, Next, leaseVars, Serves, Reloads, Leaves, ReportsError, Dies, HumanCloses, HearsLeft,
     HearsError, HearsDone, HearsTurn, HostRestarts, ParentEnds, ParentOpens, Notices, Calls,
     ReconStep, Lists, Reads, Acts, Settles, LaunchStep, HostOpens, Connects, TimesOut,
     ChainStep, Adopts, Ended, EndObserved, LeftSession, Send, Stop, StopCloses, Reclaim, Reclaims,
     memory, world, database, Outside
  <2>2. faults' \in {faults, faults + 1}
    BY DEF RestTypeOK, Next, leaseVars, Serves, Reloads, Leaves, ReportsError, Dies, HumanCloses, HearsLeft,
     HearsError, HearsDone, HearsTurn, HostRestarts, ParentEnds, ParentOpens, Notices, Calls,
     ReconStep, Lists, Reads, Acts, Settles, LaunchStep, HostOpens, Connects, TimesOut,
     ChainStep, Adopts, Ended, EndObserved, LeftSession, Send, Stop, StopCloses, Reclaim, Reclaims,
     memory, world, database, Outside, Fault, CleansUp
  <2>3. opens' \in {opens, opens + 1}
    BY DEF RestTypeOK, Next, leaseVars, Serves, Reloads, Leaves, ReportsError, Dies, HumanCloses, HearsLeft,
     HearsError, HearsDone, HearsTurn, HostRestarts, ParentEnds, ParentOpens, Notices, Calls,
     ReconStep, Lists, Reads, Acts, Settles, LaunchStep, HostOpens, Connects, TimesOut,
     ChainStep, Adopts, Ended, EndObserved, LeftSession, Send, Stop, StopCloses, Reclaim, Reclaims,
     memory, world, database, Outside
  <2>4. hostGeneration' \in {hostGeneration, recon.generation}
    BY DEF RestTypeOK, Next, leaseVars, Serves, Reloads, Leaves, ReportsError, Dies, HumanCloses, HearsLeft,
     HearsError, HearsDone, HearsTurn, HostRestarts, ParentEnds, ParentOpens, Notices, Calls,
     ReconStep, Lists, Reads, Acts, Settles, LaunchStep, HostOpens, Connects, TimesOut,
     Concludes, Throws,
     ChainStep, Adopts, Ended, EndObserved, LeftSession, Send, Stop, StopCloses, Reclaim, Reclaims,
     memory, world, database, Outside
  <2> QED BY <2>1, <2>2, <2>3, <2>4 DEF RestTypeOK, ReconType
<1>2. mail' \in SUBSET ({"left", "error"} \X Runtimes)
  <2>1. \/ mail' \subseteq mail
        \/ \E r \in Runtimes, k \in {"left", "error"} : mail' = mail \cup {<<k, r>>}
    BY DEF Next, leaseVars, Serves, Reloads, Leaves, ReportsError, Dies, HumanCloses, HearsLeft,
     HearsError, HearsDone, HearsTurn, HostRestarts, ParentEnds, ParentOpens, Notices, Calls, Hears,
     ReconStep, Lists, Reads, Acts, Settles, LaunchStep, HostOpens, Connects, TimesOut,
     ChainStep, Adopts, Ended, EndObserved, LeftSession, Send, Stop, StopCloses, Reclaim, Reclaims,
     memory, world, database, Outside
  <2> QED BY <2>1 DEF RestTypeOK
<1>3. up' \in BOOLEAN /\ seen' \in BOOLEAN /\ left' \in BOOLEAN
  BY DEF RestTypeOK, Next, leaseVars, Serves, Reloads, Leaves, ReportsError, Dies, HumanCloses, HearsLeft,
     HearsError, HearsDone, HearsTurn, HostRestarts, ParentEnds, ParentOpens, Notices, Calls, Noticed, LockHeld,
     ReconStep, Lists, Reads, Acts, Settles, LaunchStep, HostOpens, Connects, TimesOut,
     ChainStep, Adopts, Ended, EndObserved, LeftSession, Send, Stop, StopCloses, Reclaim, Reclaims,
     memory, world, database, Outside
<1>4. attachment' \in 0..MaxRuntimes
  <2>1. \/ attachment' \in {attachment, 0} \/ Connects \/ TimesOut \/ Settles
    BY DEF Next, leaseVars, Serves, Reloads, Leaves, ReportsError, Dies, HumanCloses, HearsLeft,
     HearsError, HearsDone, HearsTurn, HostRestarts, ParentEnds, ParentOpens, Notices, Calls,
     ReconStep, Lists, Reads, Acts, LaunchStep, HostOpens,
     ChainStep, Adopts, Ended, EndObserved, LeftSession, Send, Stop, StopCloses, Reclaim, Reclaims,
     memory, Outside
  <2>2. CASE Connects \/ TimesOut
    <3>1. launch.at = "waiting" /\ attachment' \in {attachment, launch.runtime}
      BY <2>2 DEF Connects, TimesOut
    <3> QED BY <3>1, Numbers, LaunchFields DEF RestTypeOK
  <2>3. CASE Settles
    BY <2>3 DEF Settles, RestTypeOK, RecordType
  <2> QED BY <2>1, <2>2, <2>3, Numbers DEF RestTypeOK
<1>5. marks' \in SUBSET Marks
  <2>1. marks' \subseteq marks \cup Marks
    BY DEF Next, leaseVars, Serves, Reloads, Leaves, ReportsError, Dies, HumanCloses, HearsLeft,
     HearsError, HearsDone, HearsTurn, HostRestarts, ParentEnds, ParentOpens, Notices, Calls, Noticed,
     ReconStep, Lists, Reads, Acts, Settles, LaunchStep, HostOpens, Connects, TimesOut,
     ChainStep, Adopts, Ended, EndObserved, LeftSession, Send, Stop, StopCloses, Reclaim, Reclaims,
     memory, world, database, Outside, Marked, When, Marks, Crosses, Confirms, EndsRuntime
  <2> QED BY <2>1 DEF RestTypeOK
<1> QED BY <1>1, <1>2, <1>3, <1>4, <1>5 DEF RestTypeOK

(* The type invariant is the conjunction of its groups.                        *)
LEMMA TypeParts ==
  LeaseTypeOK <=> /\ record \in RecordType /\ chain \in Seq(Entries) /\ op \in OpType
                  /\ launch \in LaunchType /\ recon \in ReconType
                  /\ HostTypeOK /\ OneHolder /\ RestTypeOK
  BY DEF LeaseTypeOK, HostTypeOK, OneHolder, RestTypeOK, Entries, Kinds

(* Every step keeps the types.                                                 *)
LEMMA TypeStep ==
  ASSUME LeaseTypeOK, [Next]_leaseVars
  PROVE  LeaseTypeOK'
<1> USE TypeParts DEF RestTypeOK
<1>1. record' \in RecordType /\ launch' \in LaunchType /\ recon' \in ReconType
  BY RecordTypeStep, LaunchTypeStep, ReconTypeStep
<1>2. op' \in OpType /\ chain' \in Seq(Entries)
  BY OpTypeStep, ChainTypeStep
<1>3. HostTypeOK' /\ OneHolder'
  BY WorldMoves, HostTypeStep
<1>4. RestTypeOK'
  BY RestTypeStep
<1>5. (LeaseTypeOK <=> /\ record \in RecordType /\ chain \in Seq(Entries) /\ op \in OpType
                  /\ launch \in LaunchType /\ recon \in ReconType
                  /\ HostTypeOK /\ OneHolder /\ RestTypeOK)'
  BY TypeParts, PTL
<1> QED BY <1>1, <1>2, <1>3, <1>4, <1>5

(* The types hold initially.                                                   *)
LEMMA InitTypeOK == Init => LeaseTypeOK
<1> SUFFICES ASSUME Init PROVE LeaseTypeOK
  OBVIOUS
<1>1. recon \in ReconType
  BY ReconFields DEF Init, Ats
<1>2. launch \in LaunchType /\ record \in RecordType
  BY LeaseAssumption DEF Init, LaunchType, RecordType, Opening, Runtimes
<1>3. chain \in Seq(Entries) /\ op \in OpType
  BY EmptySeq DEF Init, OpType
<1>4. HostTypeOK /\ OneHolder
  BY DEF Init, HostTypeOK, OneHolder
<1>6. RestTypeOK
  BY Numbers DEF Init, RestTypeOK
<1> QED BY <1>1, <1>2, <1>3, <1>4, <1>6, TypeParts

--------------------------------------------------------------------------------
CallKinds == {"send", "stop", "reclaim"}
Called    == \E i \in DOMAIN chain : chain[i].kind \in CallKinds

(* What the host and the messages say of a process.                            *)
Gone(r) == proc[r] \in {"left", "dead"}
Alive   == Working \cup {"left"}
HostInv ==
  /\ \A r \in Runtimes : proc[r] \in Alive => panel[r]
  /\ \A r \in Runtimes : <<"left", r>> \in mail => Gone(r)
  /\ \A i \in DOMAIN chain : chain[i].kind = "left" =>
       chain[i].runtime \in Runtimes /\ Gone(chain[i].runtime)

(* Who launches, and what waits for whom.                                      *)
ControlInv ==
  /\ ~up => launch = NoLaunch /\ op = Idle /\ chain = <<>> /\ recon.at = "none"
  /\ launch.by = "call" <=> op.at = "launching"
  /\ launch.by = "reconcile" <=> recon.at = "opening"
  /\ Called \/ op.kind \in CallKinds \cup {"spawn"} => recon.at = "done"
  /\ op.kind = "spawn" => ~Called /\ attachment = 0
  /\ op.kind = "stop" => record.intent = "stopped"

(* A launch, from the record to the process.                                   *)
LaunchInv ==
  /\ launch.at # "none" => record.panel = 0 /\ record.runtime \in {0, launch.runtime}
  /\ launch.at = "opening" => proc[launch.runtime] = "none"

(* A process that is gone does not come back.                                  *)
LEMMA GoneStays ==
  ASSUME LeaseTypeOK, LaunchInv, [Next]_leaseVars, NEW r \in Runtimes, Gone(r)
  PROVE  Gone(r)'
<1> USE TypeParts DEF Gone, Moves, HostTypeOK
<1>1. WorldMove
  BY WorldMoves DEF RestTypeOK
<1>2. CASE UNCHANGED <<panel, proc>>
  BY <1>2
<1>3. ASSUME NEW s \in Runtimes, Serves(s) \/ Reloads(s) \/ Leaves(s) \/ Dies(s) \/ Closes(s)
      PROVE  Gone(r)'
  BY <1>3 DEF Serves, Reloads, Leaves, Dies, Closes
<1>4. CASE HostRestarts
  BY <1>4 DEF HostRestarts
<1>5. CASE launch.at = "opening" /\ (Starts(launch.runtime) \/ Moves(launch.runtime, "dead"))
  BY <1>5, LaunchFields DEF Starts, LaunchInv
<1> QED BY <1>1, <1>2, <1>3, <1>4, <1>5 DEF WorldMove

(* Every step keeps what the host and the messages say.                        *)
LEMMA HostInvStep ==
  ASSUME LeaseTypeOK, LaunchInv, HostInv, [Next]_leaseVars
  PROVE  HostInv'
<1> USE TypeParts
<1>1. ASSUME NEW r \in Runtimes, proc'[r] \in Alive PROVE panel'[r]
  <2> USE DEF Moves, HostTypeOK, HostInv, Alive, Working
  <2>1. WorldMove
    BY WorldMoves DEF RestTypeOK
  <2>2. CASE UNCHANGED <<panel, proc>>
    BY <1>1, <2>2
  <2>3. ASSUME NEW s \in Runtimes, Serves(s) \/ Reloads(s) \/ Leaves(s) \/ Dies(s)
        PROVE  panel'[r]
    BY <1>1, <2>3 DEF Serves, Reloads, Leaves, Dies
  <2>4. ASSUME NEW s \in Runtimes, Closes(s) PROVE panel'[r]
    BY <1>1, <2>4 DEF Closes
  <2>5. CASE HostRestarts
    BY <1>1, <2>5 DEF HostRestarts
  <2>6. CASE launch.at = "opening" /\ Starts(launch.runtime)
    BY <1>1, <2>6, LaunchFields DEF Starts
  <2>7. CASE launch.at = "opening" /\ UNCHANGED panel /\ Moves(launch.runtime, "dead")
    BY <1>1, <2>7, LaunchFields
  <2> QED BY <2>1, <2>2, <2>3, <2>4, <2>5, <2>6, <2>7 DEF WorldMove
<1>2. ASSUME NEW r \in Runtimes, <<"left", r>> \in mail' PROVE Gone(r)'
  <2>1. \/ mail' \subseteq mail
        \/ \E s \in Runtimes : ReportsError(s) \/ Leaves(s)
    BY DEF Next, leaseVars, Serves, Reloads, Dies, HumanCloses, HearsLeft,
     HearsError, HearsDone, HearsTurn, HostRestarts, ParentEnds, ParentOpens, Notices, Calls, Hears,
     ReconStep, Lists, Reads, Acts, Settles, LaunchStep, HostOpens, Connects, TimesOut,
     ChainStep, Adopts, Ended, EndObserved, LeftSession, Send, Stop, StopCloses, Reclaim, Reclaims,
     memory, world, database, Outside
  <2>2. CASE <<"left", r>> \in mail
    BY <2>2, GoneStays DEF HostInv
  <2>3. ASSUME NEW s \in Runtimes, ReportsError(s) PROVE <<"left", r>> \in mail
    BY <1>2, <2>3 DEF ReportsError
  <2>4. ASSUME NEW s \in Runtimes, Leaves(s), <<"left", r>> \notin mail PROVE Gone(r)'
    BY <1>2, <2>4 DEF Leaves, Moves, Gone, HostTypeOK
  <2> QED BY <1>2, <2>1, <2>2, <2>3, <2>4
<1>3. ASSUME NEW i \in DOMAIN chain', chain'[i].kind = "left"
      PROVE  chain'[i].runtime \in Runtimes /\ proc'[chain'[i].runtime] \in {"left", "dead"}
  <2> DEFINE Left(e) == e.kind = "left" => e.runtime \in Runtimes /\ Gone(e.runtime)
  <2>1. \A j \in DOMAIN chain : Left(chain[j])
    BY DEF HostInv
  <2>2. ASSUME NEW e \in Entries, Fresh(e) PROVE Left(e)
    BY <2>2 DEF Fresh, HostInv
  <2>3. Entry("ended", 0) \in Entries /\ Left(Entry("ended", 0))
    BY EntryType, Numbers DEF Kinds
  <2>4. Left(chain'[i])
    <3> HIDE DEF Left
    <3>1. CASE chain' = chain
      BY <2>1, <3>1
    <3>2. CASE chain # <<>> /\ chain' = Tail(chain)
      BY <2>1, <3>2, TailOf
    <3>3. ASSUME NEW e \in Entries, Fresh(e), chain' = Append(chain, e)
          PROVE  Left(chain'[i])
      BY <2>1, <2>2, <3>3, Appended
    <3>4. CASE chain # <<>> /\ chain' = Append(Tail(chain), Entry("ended", 0))
      BY <2>1, <2>3, <3>4, TailOf, Appended
    <3>5. CASE chain' = <<>>
      BY <3>5
    <3> QED BY <3>1, <3>2, <3>3, <3>4, <3>5, ChainMoves DEF ChainMove
  <2>5. PICK r \in Runtimes : r = chain'[i].runtime /\ Gone(r)
    BY <1>3, <2>4
  <2>6. Gone(r)'
    BY <2>5, GoneStays
  <2> QED BY <2>5, <2>6 DEF Gone
<1> QED BY <1>1, <1>2, <1>3 DEF HostInv, Gone

--------------------------------------------------------------------------------
(* Which calls the chain holds, before a step and after it.                    *)
LEMMA NewlyCalled ==
  ASSUME LeaseTypeOK, [Next]_leaseVars, Called'
  PROVE  Called \/ \E kind \in CallKinds : Calls(kind)
<1> USE TypeParts
<1>1. PICK i \in DOMAIN chain' : chain'[i].kind \in CallKinds
  BY DEF Called
<1>2. CASE chain' = chain
  BY <1>1, <1>2 DEF Called
<1>3. CASE chain # <<>> /\ chain' = Tail(chain)
  BY <1>1, <1>3, TailOf DEF Called
<1>4. ASSUME NEW e \in Entries, Fresh(e), chain' = Append(chain, e)
      PROVE  Called \/ \E kind \in CallKinds : Calls(kind)
  <2>1. CASE e.kind \in CallKinds
    BY <1>4, <2>1 DEF Fresh, CallKinds
  <2>2. CASE e.kind \notin CallKinds
    BY <1>1, <1>4, <2>2, Appended DEF Called
  <2> QED BY <2>1, <2>2
<1>5. CASE chain # <<>> /\ chain' = Append(Tail(chain), Entry("ended", 0))
  <2>1. Entry("ended", 0) \in Entries /\ Entry("ended", 0).kind \notin CallKinds
    BY EntryType, Numbers DEF Kinds, CallKinds
  <2> QED BY <1>1, <1>5, <2>1, TailOf, Appended DEF Called
<1>6. CASE chain' = <<>>
  BY <1>1, <1>6
<1> QED BY <1>2, <1>3, <1>4, <1>5, <1>6, ChainMoves DEF ChainMove

(* A call at the head of the chain is one the chain holds.                     *)
LEMMA CalledFirst ==
  ASSUME LeaseTypeOK, NEW kind \in CallKinds, Takes(kind)
  PROVE  Called /\ op.kind \in {"none", "spawn"}
  BY TypeParts, TailOf DEF Takes, Next1, Called

(* While no parent session is open nothing of the manager moves.               *)
Still == launch = NoLaunch /\ op = Idle /\ chain = <<>> /\ recon.at = "none"
(* A parent session that ends leaves nothing in hand.                          *)
LEMMA DownIsStill ==
  ASSUME ControlInv, [Next]_leaseVars, ~up'
  PROVE  Still'
<1>1. CASE ParentEnds
  BY <1>1 DEF ParentEnds, NoRecon, Still
<1>2. CASE ~ParentEnds
  <2>1. ~up
    BY <1>2 DEF Next, leaseVars, Serves, Reloads, Leaves, ReportsError, Dies, HumanCloses, HearsLeft,
     HearsError, HearsDone, HearsTurn, HostRestarts, ParentOpens, Notices, Calls,
     ReconStep, Lists, Reads, Acts, Settles, LaunchStep, HostOpens, Connects, TimesOut,
     ChainStep, Adopts, Ended, EndObserved, LeftSession, Send, Stop, StopCloses, Reclaim, Reclaims,
     memory, world, database, Outside
  <2>2. Still
    BY <2>1 DEF ControlInv, Still
  <2>3. ~ChainStep /\ ~LaunchStep /\ ~ReconStep
    BY <2>2 DEF Still, NoLaunch, Idle, ReconStep, Lists, Reads, Acts, Settles, LaunchStep, HostOpens,
     Connects, TimesOut, ChainStep, Adopts, Ended, EndObserved, LeftSession, Send, Stop, StopCloses,
     Reclaim, Reclaims, Takes, Next1
  <2>4. UNCHANGED <<launch, op, chain, recon>>
    BY <1>2, <2>1, <2>3 DEF Next, leaseVars, Serves, Reloads, Leaves, ReportsError, Dies, HumanCloses,
     HearsLeft, HearsError, HearsDone, HearsTurn, HostRestarts, ParentOpens, Notices, Calls, Hears,
     memory, world, database, Outside
  <2> QED BY <2>2, <2>4 DEF Still
<1> QED BY <1>1, <1>2

(* The steps that begin a launch, or something the child's chain waits for.    *)
LEMMA LaunchMoves ==
  ASSUME LeaseTypeOK, [Next]_leaseVars
  PROVE  \/ UNCHANGED <<launch, op>>
         \/ ParentEnds \/ LaunchStep \/ Acts \/ ChainStep
  BY DEF Next, leaseVars, Serves, Reloads, Leaves, ReportsError, Dies, HumanCloses, HearsLeft,
     HearsError, HearsDone, HearsTurn, HostRestarts, ParentOpens, Notices, Calls,
     ReconStep, Lists, Reads, Settles, memory, world, database, Outside

(* How a launch in hand goes on: it starts, or it ends for whom it was.        *)
LEMMA LaunchGoesOn ==
  ASSUME LeaseTypeOK, LaunchStep
  PROVE  /\ launch.at # "none"
         /\ \/ /\ HostOpens /\ launch' = [launch EXCEPT !.at = "waiting"]
               /\ launch.at = "opening" /\ UNCHANGED <<record, op, recon, marks, attachment, left>>
            \/ /\ launch' = NoLaunch
               /\ launch.by = "call" => op' = Idle /\ UNCHANGED recon
               /\ launch.by # "call" => recon'.at \in {"settling", "done"} /\ UNCHANGED op
<1> USE TypeParts
<1>1. ASSUME NEW rec, NEW ok \in BOOLEAN, Concludes(rec, ok)
      PROVE  /\ launch' = NoLaunch
             /\ launch.by = "call" => op' = Idle /\ UNCHANGED recon
             /\ launch.by # "call" => recon'.at \in {"settling", "done"} /\ UNCHANGED op
  BY <1>1 DEF Concludes, ReconType
<1>2. ASSUME Throws
      PROVE  /\ launch' = NoLaunch
             /\ launch.by = "call" => op' = Idle /\ UNCHANGED recon
             /\ launch.by # "call" => recon'.at \in {"settling", "done"} /\ UNCHANGED op
  BY <1>2 DEF Throws, NoRecon
<1>3. CASE HostOpens
  BY <1>1, <1>3 DEF HostOpens, memory
<1>4. CASE Connects
  BY <1>1, <1>2, <1>4 DEF Connects
<1>5. CASE TimesOut
  BY <1>1, <1>2, <1>5 DEF TimesOut
<1> QED BY <1>3, <1>4, <1>5 DEF LaunchStep

(* A launch begins when none is in hand.                                       *)
LEMMA NoLaunchFirst ==
  ASSUME LeaseTypeOK, ControlInv
  PROVE  /\ launch.at = "none" <=> launch.by \notin {"call", "reconcile"}
         /\ Send \/ Acts => launch.at = "none" /\ launch = NoLaunch
         /\ Takes("send") => op = Idle
<1> USE TypeParts
<1>1. launch.at = "none" => launch = NoLaunch
  BY DEF LaunchType
<1>2. launch.at = "none" <=> launch.by \notin {"call", "reconcile"}
  BY <1>1, LaunchFields DEF NoLaunch
<1>3. ASSUME Takes("send") PROVE op = Idle /\ launch.at = "none"
  <2>1. Called /\ op.kind \in {"none", "spawn"}
    BY <1>3, CalledFirst DEF CallKinds
  <2>2. op = Idle
    BY <2>1 DEF ControlInv, OpType, Idle
  <2>3. recon.at = "done"
    BY <2>1 DEF ControlInv
  <2> QED BY <1>2, <2>2, <2>3 DEF ControlInv, Idle
<1>4. ASSUME Acts PROVE launch.at = "none"
  <2>1. recon.at = "acting"
    BY <1>4 DEF Acts
  <2>2. op.at # "launching"
    BY <2>1 DEF ControlInv, OpType, Idle, CallKinds
  <2> QED BY <1>2, <2>1, <2>2 DEF ControlInv
<1> QED BY <1>1, <1>2, <1>3, <1>4 DEF Send

(* What a step of the reconciliation decides.                                  *)
LEMMA ActsEither ==
  ASSUME recon \in ReconType, Acts
  PROVE  \/ /\ recon'.at = "opening" /\ recon' = [recon EXCEPT !.at = "opening"]
            /\ Missing /\ recon.active
            /\ \E r \in Runtimes : /\ New(r) /\ launch' = Opening(r, "reconcile", FALSE)
                                  /\ record' = Bound(record, r)
         \/ /\ recon'.at = "settling" /\ launch' = launch
            /\ \/ record' = record
               \/ record' = [Cleared(record) EXCEPT !.intent = IF recon.active THEN "stopped" ELSE @]
<1> DEFINE b == recon.panel # 0 /\ ~Missing
<1>1. CASE Missing /\ Reopen /\ recon.active
  BY <1>1 DEF Acts, Opens, ReconType
<1>2. CASE ~(Missing /\ Reopen /\ recon.active)
  <2>1. /\ recon' = [recon EXCEPT !.at = "settling", !.rebound = b] /\ launch' = launch
        /\ \/ record' = record
           \/ record' = [Cleared(record) EXCEPT !.intent = IF recon.active THEN "stopped" ELSE @]
    BY <1>2 DEF Acts
  <2> HIDE DEF b
  <2>2. recon'.at = "settling"
    BY <2>1 DEF ReconType
  <2> QED BY <2>1, <2>2
<1> QED BY <1>1, <1>2

(* A call of the chain's own that is under way has no launch, and none begins. *)
(* A launch belongs to the call or to the reconciliation that waits for it.    *)
LEMMA WhoLaunches ==
  ASSUME LeaseTypeOK, ControlInv, [Next]_leaseVars
  PROVE  /\ (launch.by = "call" <=> op.at = "launching")'
         /\ (launch.by = "reconcile" <=> recon.at = "opening")'
<1> USE TypeParts
<1>0. /\ launch.by = "call" <=> op.at = "launching"
      /\ launch.by = "reconcile" <=> recon.at = "opening"
  BY DEF ControlInv
<1>1. CASE UNCHANGED <<launch, op>>
  <2>1. CASE recon' = recon
    BY <1>0, <1>1, <2>1
  <2>2. CASE ParentEnds
    BY <2>2 DEF ParentEnds, NoLaunch, Idle, NoRecon
  <2>3. CASE ParentOpens
    BY <1>0, <1>1, <2>3 DEF ParentOpens, NoRecon, ControlInv, NoLaunch, Idle
  <2>4. CASE ReconStep
    <3>1. recon.at # "opening"
      BY <2>4 DEF ReconStep, Lists, Reads, Acts, Settles
    <3>2. CASE Lists \/ Reads \/ Settles
      BY <1>0, <1>1, <3>1, <3>2 DEF Lists, Reads, Settles, ReconType, NoRecon
    <3>3. CASE Acts
      <4>1. launch.at = "none" /\ launch' = launch
        BY <1>1, <3>3, NoLaunchFirst
      <4>2. recon'.at = "settling"
        BY <3>3, <4>1, ActsEither DEF Opening
      <4> QED BY <1>0, <1>1, <3>1, <4>2
    <3> QED BY <2>4, <3>2, <3>3 DEF ReconStep
  <2>5. CASE LaunchStep
    BY <1>1, <2>5, LaunchGoesOn DEF NoLaunch, LaunchType
  <2> QED BY <2>1, <2>2, <2>3, <2>4, <2>5, ReconMoves
<1>2. CASE ParentEnds
  BY <1>2 DEF ParentEnds, NoLaunch, Idle, NoRecon
<1>3. CASE LaunchStep
  <2>1. CASE launch' = NoLaunch
    <3>1. CASE launch.by = "call"
      BY <1>0, <1>3, <2>1, <3>1, LaunchGoesOn DEF NoLaunch, Idle
    <3>2. CASE launch.by # "call"
      BY <1>0, <1>3, <2>1, <3>2, LaunchGoesOn DEF NoLaunch, Idle
    <3> QED BY <3>1, <3>2
  <2>2. CASE launch' = [launch EXCEPT !.at = "waiting"] /\ UNCHANGED <<op, recon>>
    <3>1. launch'.by = launch.by
      BY <1>3, <2>2, LaunchGoesOn DEF LaunchType, NoLaunch
    <3> QED BY <1>0, <2>2, <3>1
  <2> QED BY <1>3, <2>1, <2>2, LaunchGoesOn
<1>4. CASE Acts
  <2>1. launch = NoLaunch /\ op' = op
    BY <1>4, NoLaunchFirst DEF Acts
  <2>2. \/ launch'.by = "reconcile" /\ recon'.at = "opening"
        \/ launch' = launch /\ recon'.at = "settling"
    BY <1>4, ActsEither DEF Opening
  <2> QED BY <1>0, <2>1, <2>2 DEF NoLaunch
<1>5. CASE ChainStep
  <2>1. recon' = recon
    BY <1>5 DEF ChainStep, Adopts, Ended, EndObserved, LeftSession, Send, Stop, StopCloses, Reclaim,
       Reclaims
  <2>2. CASE Send
    <3>1. op = Idle /\ launch = NoLaunch
      BY <2>2, NoLaunchFirst DEF Send
    <3>2. \/ UNCHANGED <<op, launch>>
          \/ launch'.by = "call" /\ op'.at = "launching"
      BY <2>2 DEF Send, Opens, Opening
    <3> QED BY <1>0, <2>1, <3>1, <3>2 DEF NoLaunch
  <2>3. CASE Adopts \/ LeftSession
    BY <1>0, <2>1, <2>3 DEF Adopts, LeftSession
  <2>4. CASE Ended \/ Stop \/ Reclaim
    <3>1. launch' = launch
      BY <2>4 DEF Ended, Stop, Reclaim
    <3>2. op' = op \/ op.kind # "spawn"
      <4>1. CASE Ended
        BY <4>1 DEF Ended, EndsRuntime, ControlInv
      <4>2. CASE Stop
        BY <4>2, CalledFirst DEF Stop, ControlInv, CallKinds
      <4>3. CASE Reclaim
        BY <4>3, CalledFirst DEF Reclaim, ControlInv, CallKinds
      <4> QED BY <2>4, <4>1, <4>2, <4>3
    <3>3. op' = op \/ op'.at # "launching"
      BY <2>4 DEF Ended, EndsRuntime, Stop, Reclaim
    <3>4. op.kind \in {"none", "spawn"}
      BY <2>4 DEF Ended, Stop, Reclaim, Takes, Next1
    <3>5. op' = op \/ op.at # "launching"
      BY <3>2, <3>4 DEF OpType, Idle
    <3> QED BY <1>0, <2>1, <3>1, <3>3, <3>5
  <2>5. CASE EndObserved \/ StopCloses \/ Reclaims
    <3>1. launch' = launch /\ op' = Idle /\ op.at # "launching"
      BY <2>5 DEF EndObserved, StopCloses, Reclaims
    <3> QED BY <1>0, <2>1, <3>1 DEF Idle
  <2> QED BY <1>5, <2>2, <2>3, <2>4, <2>5 DEF ChainStep
<1> QED BY <1>1, <1>2, <1>3, <1>4, <1>5, LaunchMoves

(* Calls wait for the reconciliation.                                          *)
LEMMA WhoWaits ==
  ASSUME LeaseTypeOK, ControlInv, [Next]_leaseVars, up'
  PROVE  (Called \/ op.kind \in CallKinds \cup {"spawn"} => recon.at = "done")'
<1> USE TypeParts
<1> SUFFICES ASSUME Called' \/ op'.kind \in CallKinds \cup {"spawn"}
    PROVE recon'.at = "done"
  OBVIOUS
<1>1. ~ParentEnds
  BY DEF ParentEnds
<1>2. recon.at = "done"
  <2>1. CASE Called'
    BY <2>1, NewlyCalled DEF Calls, ControlInv
  <2>2. CASE op'.kind \in CallKinds \cup {"spawn"}
    <3>1. op'.kind = op.kind \/ Send \/ Stop \/ Reclaim
      BY <2>2, OpBegins DEF CallKinds, Idle
    <3>2. CASE op'.kind = op.kind
      BY <2>2, <3>2 DEF ControlInv
    <3>3. CASE Send \/ Stop \/ Reclaim
      BY <3>3, CalledFirst DEF Send, Stop, Reclaim, ControlInv, CallKinds
    <3> QED BY <3>1, <3>2, <3>3
  <2> QED BY <2>1, <2>2
<1>3. ~ParentOpens
  BY <1>2 DEF ParentOpens, ControlInv
<1>4. ~ReconStep
  BY <1>2 DEF ReconStep, Lists, Reads, Acts, Settles
<1>5. LaunchStep => launch.by = "call"
  BY <1>2, NoLaunchFirst, LaunchGoesOn DEF ControlInv
<1> QED BY <1>1, <1>2, <1>3, <1>4, <1>5, ReconMoves

(* Nothing is called while the first launch is under way.                      *)
LEMMA SpawnIsAlone ==
  ASSUME LeaseTypeOK, ControlInv, [Next]_leaseVars
  PROVE  (op.kind = "spawn" => ~Called /\ attachment = 0)'
<1> USE TypeParts
<1> SUFFICES ASSUME op'.kind = "spawn" PROVE ~Called' /\ attachment' = 0
  OBVIOUS
<1>1. op.kind = "spawn" /\ op' = op
  BY OpBegins DEF Idle
<1>2. ~Called /\ attachment = 0 /\ recon.at = "done" /\ op.at = "launching" /\ launch.by = "call"
  BY <1>1 DEF ControlInv, OpType, Idle
<1>3. ~Called'
  BY <1>1, <1>2, NewlyCalled DEF Calls
<1>4. ~Settles /\ ~Connects /\ ~TimesOut
  <2>1. ~Settles
    BY <1>2 DEF Settles
  <2>2. ASSUME LaunchStep PROVE HostOpens
    BY <1>1, <1>2, <2>2, LaunchGoesOn DEF Idle
  <2>3. ~(HostOpens /\ (Connects \/ TimesOut))
    BY DEF HostOpens, Connects, TimesOut
  <2> QED BY <2>1, <2>2, <2>3 DEF LaunchStep
<1>5. attachment' \in {attachment, 0}
  BY <1>4 DEF Next, leaseVars, Serves, Reloads, Leaves, ReportsError, Dies, HumanCloses, HearsLeft,
     HearsError, HearsDone, HearsTurn, HostRestarts, ParentEnds, ParentOpens, Notices, Calls,
     ReconStep, Lists, Reads, Acts, LaunchStep, HostOpens,
     ChainStep, Adopts, Ended, EndObserved, LeftSession, Send, Stop, StopCloses, Reclaim, Reclaims,
     memory, Outside
<1> QED BY <1>2, <1>3, <1>5

(* While a stop is under way the record says so.                               *)
LEMMA StopIsWanted ==
  ASSUME LeaseTypeOK, ControlInv, [Next]_leaseVars
  PROVE  (op.kind = "stop" => record.intent = "stopped")'
<1> USE TypeParts
<1> SUFFICES ASSUME op'.kind = "stop" PROVE record'.intent = "stopped"
  OBVIOUS
<1>1. CASE Stop
  BY <1>1 DEF Stop, RecordType
<1>2. CASE ~Stop
  <2>1. op.kind = "stop" /\ op' = op
    BY <1>2, OpBegins DEF Idle
  <2>2. /\ record.intent = "stopped" /\ recon.at = "done"
        /\ launch.by \notin {"call", "reconcile"}
    BY <2>1, NoLaunchFirst, LaunchFields DEF ControlInv, CallKinds, OpType, Idle
  <2>3. ~LaunchStep /\ ~ReconStep
    BY <2>2, LaunchGoesOn, NoLaunchFirst DEF ReconStep, Lists, Reads, Acts, Settles
  <2>4. ~ChainStep \/ record' = record
    <3>1. op.at = "closing" /\ op # Idle
      BY <2>1 DEF OpType, Idle
    <3> QED BY <1>2, <2>1, <3>1 DEF ChainStep, Adopts, Ended, EndObserved, LeftSession, Send,
          StopCloses, Reclaim, Reclaims, Takes, Next1
  <2>5. \/ record' = record \/ \E r \in Runtimes : HearsError(r) \/ HearsDone(r)
        \/ HearsTurn
    BY <2>3, <2>4 DEF Next, leaseVars, Serves, Reloads, Leaves, ReportsError, Dies, HumanCloses,
     HearsLeft, HostRestarts, ParentEnds, ParentOpens, Notices, Calls, database,
     memory, world, Outside
  <2>6. CASE \E r \in Runtimes : HearsError(r) \/ HearsDone(r)
    BY <2>2, <2>6 DEF HearsError, HearsDone, RecordType
  <2>7. ~HearsTurn
    BY <2>1 DEF HearsTurn, Idle
  <2> QED BY <2>2, <2>5, <2>6, <2>7
<1> QED BY <1>1, <1>2

(* Every step keeps who launches and what waits for whom.                      *)
LEMMA ControlInvStep ==
  ASSUME LeaseTypeOK, ControlInv, [Next]_leaseVars
  PROVE  ControlInv'
<1>1. (~up => Still)'
  BY DownIsStill
<1>2. CASE up'
  BY <1>2, WhoLaunches, WhoWaits, SpawnIsAlone, StopIsWanted DEF ControlInv
<1>3. CASE ~up'
  <2>1. ~Called' /\ op'.kind \notin CallKinds \cup {"spawn"}
    BY <1>1, <1>3 DEF Still, Called, Idle, CallKinds
  <2> QED BY <1>1, <1>3, <2>1, WhoLaunches, SpawnIsAlone, StopIsWanted DEF ControlInv, Still
<1> QED BY <1>2, <1>3

--------------------------------------------------------------------------------
(* What becomes of the runtime and the panel in the record.                    *)
LEMMA RecordKeeps ==
  \A rec \in RecordType :
    /\ Cleared(rec).runtime = 0 /\ Cleared(rec).panel = 0 /\ Cleared(rec).intent = rec.intent
    /\ Dropped(rec).runtime = 0 /\ Dropped(rec).panel = 0 /\ Dropped(rec).intent = rec.intent
    /\ Finished(rec).runtime = 0 /\ Finished(rec).panel = 0 /\ Finished(rec).intent = rec.intent
  BY DEF RecordType, Cleared, Dropped, Finished

Keeps(rec) == \/ rec.runtime = record.runtime /\ rec.panel = record.panel
              \/ rec.runtime = 0 /\ rec.panel = 0

(* No other step names a runtime or a panel in the record.                     *)
LEMMA RecordMoves ==
  ASSUME LeaseTypeOK, [Next]_leaseVars
  PROVE  \/ record' = record
         \/ Keeps(record') /\ ~ParentEnds /\ ~Send
         \/ LaunchStep \/ Send \/ Acts
<1> USE TypeParts DEF Keeps
<1>1. \/ record' = record
      \/ \E r \in Runtimes : HearsError(r) \/ HearsDone(r)
      \/ HearsTurn \/ ChainStep \/ LaunchStep \/ Acts \/ Settles
  BY DEF Next, leaseVars, Serves, Reloads, Leaves, ReportsError, Dies, HumanCloses, HearsLeft,
     HostRestarts, ParentEnds, ParentOpens, Notices, Calls, ReconStep, Lists, Reads, database,
     memory, world, Outside
<1>2. CASE ParentEnds
  BY <1>2 DEF ParentEnds, database
<1> SUFFICES ASSUME ~ParentEnds, ~Send, ~LaunchStep, ~Acts PROVE record' = record \/ Keeps(record')
  BY <1>2
<1>3. CASE (\E r \in Runtimes : HearsError(r) \/ HearsDone(r)) \/ HearsTurn
  BY <1>3 DEF HearsError, HearsDone, HearsTurn, RecordType
<1>4. CASE Settles
  BY <1>4, RecordKeeps DEF Settles
<1>5. CASE ChainStep
  <2>1. CASE Adopts \/ Stop
    BY <2>1 DEF Adopts, Stop, RecordType
  <2>2. CASE Ended \/ EndObserved
    BY <2>2, RecordKeeps DEF Ended, EndsRuntime, EndObserved
  <2>3. CASE LeftSession
    BY <2>3, RecordKeeps DEF LeftSession
  <2>4. CASE StopCloses
    <3>1. record' \in {record, Finished(record), [record EXCEPT !.running = FALSE]}
      BY <2>4 DEF StopCloses, Confirms
    <3> QED BY <3>1, RecordKeeps DEF RecordType
  <2>5. CASE Reclaim \/ Reclaims
    BY <2>5, RecordKeeps DEF Reclaim, Reclaims
  <2> QED BY <1>5, <2>1, <2>2, <2>3, <2>4, <2>5 DEF ChainStep
<1> QED BY <1>1, <1>3, <1>4, <1>5

(* Where a launch in hand comes from.                                          *)
LEMMA NoLaunchYet ==
  ASSUME LeaseTypeOK, ControlInv, [Next]_leaseVars, launch'.at # "none"
  PROVE  \/ launch' = launch /\ ~ParentEnds /\ ~LaunchStep
         \/ HostOpens /\ launch.at = "opening" /\ launch' = [launch EXCEPT !.at = "waiting"]
            /\ UNCHANGED <<record, op, recon, marks, attachment, left>>
         \/ \E r \in Runtimes, by \in {"call", "reconcile"}, was \in BOOLEAN :
              /\ Send \/ Acts
              /\ New(r) /\ launch' = Opening(r, by, was)
              /\ record'.runtime = r /\ record'.panel = 0
<1> USE TypeParts
<1>1. ~ParentEnds
  BY DEF ParentEnds, NoLaunch
<1>2. CASE LaunchStep
  BY <1>2, LaunchGoesOn DEF NoLaunch
<1>3. CASE Acts
  <2>1. ASSUME NEW r \in Runtimes, record' = Bound(record, r)
        PROVE  record'.runtime = r /\ record'.panel = 0
    BY <2>1 DEF Bound, RecordType
  <2>2. launch.at = "none"
    BY <1>3, NoLaunchFirst
  <2> QED BY <1>3, <2>1, <2>2, ActsEither
<1>4. CASE ~Acts /\ ~LaunchStep
  <2>1. launch' = launch \/ Send
    BY <1>1, <1>4, LaunchMoves DEF ChainStep, Adopts, Ended, EndObserved, LeftSession, Stop, StopCloses,
       Reclaim, Reclaims
  <2>2. CASE Send /\ launch' # launch
    <3> DEFINE rec == [record EXCEPT !.running = TRUE, !.intent = "active"]
    <3>1. PICK r \in Runtimes : /\ New(r) /\ launch' = Opening(r, "call", record.running)
                                /\ record' = Bound(rec, r)
      BY <2>2 DEF Send, Opens
    <3>2. record.running \in BOOLEAN /\ rec \in RecordType
      BY DEF RecordType
    <3> HIDE DEF rec
    <3>3. record'.runtime = r /\ record'.panel = 0
      BY <3>1, <3>2 DEF Bound, RecordType
    <3> QED BY <2>2, <3>1, <3>2, <3>3
  <2> QED BY <1>1, <1>4, <2>1, <2>2
<1> QED BY <1>2, <1>3, <1>4

(* Every step keeps what is known of the launch in hand.                       *)
LEMMA LaunchInvStep ==
  ASSUME LeaseTypeOK, ControlInv, LaunchInv, [Next]_leaseVars
  PROVE  LaunchInv'
<1> USE TypeParts
<1> SUFFICES ASSUME launch'.at # "none"
    PROVE  /\ record'.panel = 0 /\ record'.runtime \in {0, launch'.runtime}
           /\ launch'.at = "opening" => proc'[launch'.runtime] = "none"
  BY DEF LaunchInv
<1>1. CASE launch' = launch /\ ~ParentEnds /\ ~LaunchStep
  <2>1. launch.at # "none" /\ launch.runtime \in Runtimes
    BY <1>1, LaunchFields
  <2>2. ~Send /\ ~Acts
    BY <2>1, NoLaunchFirst
  <2>3. record'.panel = 0 /\ record'.runtime \in {0, launch'.runtime}
    BY <1>1, <2>1, <2>2, RecordMoves DEF LaunchInv, Keeps
  <2>4. ASSUME launch.at = "opening" PROVE proc'[launch.runtime] = "none"
    <3> USE DEF Moves, HostTypeOK
    <3>1. WorldMove
      BY WorldMoves DEF RestTypeOK
    <3>2. proc[launch.runtime] = "none"
      BY <2>4 DEF LaunchInv
    <3>3. ASSUME NEW s \in Runtimes, Serves(s) \/ Reloads(s) \/ Leaves(s) \/ Dies(s) \/ Closes(s)
          PROVE  proc'[launch.runtime] = "none"
      BY <2>1, <3>2, <3>3 DEF Serves, Reloads, Leaves, Dies, Closes, Working
    <3>4. CASE HostRestarts
      BY <2>1, <3>2, <3>4 DEF HostRestarts
    <3>5. CASE UNCHANGED <<panel, proc>>
      BY <3>2, <3>5
    <3> QED BY <1>1, <2>4, <3>1, <3>3, <3>4, <3>5 DEF WorldMove
  <2> QED BY <1>1, <2>3, <2>4
<1>2. CASE /\ HostOpens /\ launch.at = "opening" /\ launch' = [launch EXCEPT !.at = "waiting"]
           /\ record' = record
  <2>1. launch'.at = "waiting" /\ launch'.runtime = launch.runtime
    BY <1>2, LaunchFields DEF LaunchType, NoLaunch
  <2> QED BY <1>2, <2>1 DEF LaunchInv
<1>3. ASSUME NEW r \in Runtimes, NEW by, NEW was, Send \/ Acts, New(r),
             launch' = Opening(r, by, was), record'.runtime = r, record'.panel = 0
      PROVE  /\ record'.panel = 0 /\ record'.runtime \in {0, launch'.runtime}
             /\ launch'.at = "opening" => proc'[launch'.runtime] = "none"
  BY <1>3 DEF Opening, New, Send, Acts, world
<1> QED BY <1>1, <1>2, <1>3, NoLaunchYet

(* An exception that was made stands.                                          *)
LEMMA ExcuseStands ==
  ASSUME [Next]_leaseVars, Excused
  PROVE  Excused'
<1>1. marks \ {"unlisted", "confirmed"} \subseteq marks'
  BY DEF Next, leaseVars, Serves, Reloads, Leaves, ReportsError, Dies, HumanCloses, HearsLeft,
     HearsError, HearsDone, HearsTurn, HostRestarts, ParentEnds, ParentOpens, Notices, Calls,
     ReconStep, Lists, Reads, Acts, Settles, LaunchStep, HostOpens, Connects, TimesOut,
     ChainStep, Adopts, Ended, EndObserved, LeftSession, Send, Stop, StopCloses, Reclaim, Reclaims,
     memory, Outside, Marked, Crosses, Confirms, EndsRuntime
<1> QED BY <1>1 DEF Excused

(* No process begins to work for the child but one that a launch in hand has   *)
(* started, in the place of none.                                              *)
LEMMA WritersMove ==
  ASSUME LeaseTypeOK, LaunchInv, [Next]_leaseVars, ~Excused'
  PROVE  \/ /\ Writers' \subseteq Writers
            /\ \A r \in Runtimes : proc'[r] = "starting" => proc[r] = "starting"
         \/ /\ HostOpens /\ launch.at = "opening" /\ launch'.at = "waiting"
            /\ launch' = [launch EXCEPT !.at = "waiting"]
            /\ Writers' \subseteq Writers \cup {launch.runtime}
<1> USE TypeParts DEF Moves, HostTypeOK, Writers, Working
<1>1. WorldMove
  BY WorldMoves DEF RestTypeOK
<1>2. CASE UNCHANGED <<panel, proc>>
  BY <1>2
<1>3. ASSUME NEW s \in Runtimes, Serves(s) \/ Reloads(s) \/ Leaves(s) \/ Dies(s) \/ Closes(s)
      PROVE  /\ Writers' \subseteq Writers
             /\ \A r \in Runtimes : proc'[r] = "starting" => proc[r] = "starting"
  BY <1>3 DEF Serves, Reloads, Leaves, Dies, Closes
<1>4. CASE HostRestarts
  BY <1>4 DEF HostRestarts
<1>5. CASE launch.at = "opening" /\ launch'.at # "opening" /\ UNCHANGED panel /\ Moves(launch.runtime, "dead")
  BY <1>5, LaunchFields
<1>6. CASE launch.at = "opening" /\ launch'.at # "opening" /\ Starts(launch.runtime)
  <2>1. launch.runtime \in Runtimes /\ proc[launch.runtime] = "none" /\ proc'[launch.runtime] = "starting"
    BY <1>6, LaunchFields DEF LaunchInv, Starts
  <2>2. Writers' \subseteq Writers \cup {launch.runtime}
    BY <1>6, <2>1 DEF Starts
  <2>3. HostOpens \/ ParentEnds
    <3>1. launch' # launch /\ proc' # proc
      BY <1>6, <2>1
    <3>2. ~Acts /\ ~Connects /\ ~TimesOut
      BY <1>6, <3>1 DEF Acts, world, Connects, TimesOut
    <3>3. ~ChainStep
      BY <1>6, <3>1 DEF ChainStep, Adopts, Ended, EndObserved, LeftSession, Send, Stop, StopCloses,
         Reclaim, Reclaims, world
    <3> QED BY <3>1, <3>2, <3>3, LaunchMoves DEF LaunchStep
  <2>4. ~ParentEnds
    BY <1>6 DEF ParentEnds, Marked, When, Excused
  <2>5. launch' = [launch EXCEPT !.at = "waiting"]
    BY <2>1, <2>3, <2>4 DEF HostOpens, Marked, Excused
  <2>6. launch'.at = "waiting"
    BY <1>6, <2>5, LaunchFields DEF LaunchType, NoLaunch
  <2> QED BY <1>6, <2>2, <2>3, <2>4, <2>5, <2>6
<1> QED BY <1>1, <1>2, <1>3, <1>4, <1>5, <1>6 DEF WorldMove

--------------------------------------------------------------------------------
(* Every process that works is the one the launch, the record, the list and    *)
(* the handle speak of.                                                        *)
StartInv ==
  /\ \A r \in Runtimes : proc[r] = "starting" => launch.at = "waiting"
  /\ launch.at = "opening" => Writers = {}
  /\ launch.at = "waiting" => Writers \subseteq {launch.runtime}
NamedInv ==
  /\ \A r, s \in Writers : r = s
  /\ \A r \in Writers : record.panel \in {0, r} /\ record.runtime \in {0, r}
  /\ recon.at \in {"reading", "acting"} => Writers \subseteq recon.present
  /\ recon.at = "acting" => \A r \in Writers : recon.panel \in {0, r}
HandleInv ==
  launch.at = "none" => /\ \A r \in Writers : attachment \in {0, r}
                        /\ left /\ attachment = 0 => Writers = {}
StopInv ==
  "confirmed" \in marks => /\ Writers = {} /\ launch = NoLaunch /\ record.intent = "stopped"
                           /\ recon.at = "acting" => ~recon.active
BaseInv == LeaseTypeOK /\ HostInv /\ ControlInv /\ LaunchInv
SafeInv == StartInv /\ NamedInv /\ HandleInv /\ StopInv

(* A panel that was closed, or is seen to be gone, holds no process.           *)
LEMMA CleanedUp ==
  ASSUME LeaseTypeOK, HostInv, NEW r \in 0..MaxRuntimes, CleansUp(r, TRUE)
  PROVE  Writers' \subseteq Writers \ {r}
<1> USE TypeParts DEF Moves, HostTypeOK, Writers, Working
<1>1. CASE Closes(r)
  BY <1>1 DEF Closes, Runtimes
<1>2. CASE ~Present(r) /\ UNCHANGED <<panel, proc>>
  BY <1>2 DEF Present, HostInv, Alive
<1> QED BY <1>1, <1>2 DEF CleansUp

(* A lock that nobody holds, and nobody who starts or reloads: nobody works.   *)
LEMMA NobodyWorks ==
  ASSUME LeaseTypeOK, StartInv, launch.at # "waiting", ~LockHeld, ~Reloading
  PROVE  Writers = {}
  BY DEF StartInv, LockHeld, Reloading, Writers, Working

(* A new launch is made only for a child for which nobody works.               *)
LEMMA OpensForNone ==
  ASSUME BaseInv, SafeInv, ~Excused', [Next]_leaseVars, Send \/ Acts,
         launch' # launch
  PROVE  Writers = {}
<1> USE DEF BaseInv, SafeInv
<1>1. CASE Send
  <2>1. ~Connected /\ ~Reloading /\ ~(left /\ LockHeld)
    BY <1>1 DEF Send, Excused, When
  <2>2. launch.at # "waiting"
    BY <1>1, NoLaunchFirst
  <2> QED BY <2>1, <2>2, NobodyWorks DEF Connected
<1>2. CASE Acts
  <2>1. Missing
    BY <1>2, TypeParts, ActsEither
  <2>2. recon.at = "acting"
    BY <1>2 DEF Acts
  <2> QED BY <2>1, <2>2 DEF Missing, NamedInv
<1> QED BY <1>1, <1>2

(* When a launch in hand ends, nobody or its own process works.                *)
LEMMA LaunchEnds ==
  ASSUME BaseInv, SafeInv, ~Excused', [Next]_leaseVars, LaunchStep, launch' = NoLaunch
  PROVE  \/ Writers' = {} /\ attachment' = attachment /\ left' = left
            /\ Keeps(record')
         \/ /\ Connects /\ attachment' = launch.runtime /\ LockHeld /\ Writers \subseteq {launch.runtime}
            /\ record'.panel = launch.runtime /\ record'.runtime = launch.runtime
            /\ UNCHANGED <<panel, proc, left>>
<1> USE DEF BaseInv, SafeInv
<1> USE TypeParts
<1>1. launch.at # "none" /\ launch.runtime \in Runtimes /\ record.panel = 0
      /\ record.runtime \in {0, launch.runtime}
  BY LaunchGoesOn, LaunchFields DEF LaunchInv
<1>2. ASSUME NEW rec \in RecordType, NEW ok \in BOOLEAN, Concludes(rec, ok)
      PROVE  record'.panel = rec.panel /\ record'.runtime = rec.runtime
  <2>1. CASE launch.by = "call"
    <3> DEFINE b == IF ok THEN TRUE ELSE rec.running /\ launch.was /\ ~Connected
               i == IF ok THEN "active" ELSE rec.intent
    <3>1. record' = [rec EXCEPT !.running = b, !.intent = i]
      BY <1>2, <2>1 DEF Concludes
    <3> HIDE DEF b, i
    <3> QED BY <3>1 DEF RecordType
  <2>2. CASE launch.by # "call"
    BY <1>2, <2>2 DEF Concludes
  <2> QED BY <2>1, <2>2
<1>3. CASE HostOpens
  <2>1. launch.at = "opening" /\ Concludes(record, FALSE) /\ Moves(launch.runtime, "dead")
    BY <1>1, <1>3 DEF HostOpens, NoLaunch, LaunchType, Marked, Excused
  <2>2. Writers = {} /\ Writers' = {}
    BY <2>1, <1>1 DEF StartInv, Writers, Moves, HostTypeOK, Working
  <2> QED BY <1>2, <1>3, <2>1, <2>2 DEF HostOpens, memory, Keeps
<1>4. CASE Connects
  <2>1. launch.at = "waiting" /\ LockHeld
    BY <1>4 DEF Connects
  <2>2. /\ attachment' = launch.runtime /\ UNCHANGED <<panel, proc, left>>
        /\ Concludes(Attached(record, launch.runtime), TRUE) /\ record.runtime # 0
    BY <1>4 DEF Connects, Marked, Excused, world
  <2>3. /\ Attached(record, launch.runtime) \in RecordType
        /\ Attached(record, launch.runtime).panel = launch.runtime
        /\ Attached(record, launch.runtime).runtime = record.runtime
    <3>1. Attached(record, launch.runtime) \in RecordType
      BY <1>1, RecordEdges, Numbers
    <3>2. Attached(record, launch.runtime) = [record EXCEPT !.panel = launch.runtime]
      BY <1>1 DEF Attached
    <3> QED BY <3>1, <3>2 DEF RecordType
  <2> QED BY <1>1, <1>2, <1>4, <2>1, <2>2, <2>3 DEF StartInv
<1>5. CASE TimesOut
  <2>1. PICK gone \in BOOLEAN : CleansUp(launch.runtime, gone) /\ Marked(When(~gone, "doubt"))
          /\ (gone => Concludes(Cleared(record), FALSE) /\ attachment' = attachment)
    BY <1>5 DEF TimesOut
  <2>2. gone
    BY <2>1 DEF Marked, When, Excused
  <2>3. Writers' = {}
    <3>1. Writers \subseteq {launch.runtime}
      BY <1>5 DEF TimesOut, StartInv
    <3> QED BY <1>1, <2>1, <2>2, <3>1, CleanedUp, Numbers
  <2>4. record'.panel = 0 /\ record'.runtime = 0
    BY <1>2, <2>1, <2>2, RecordKeeps, RecordEdges
  <2> QED BY <1>5, <2>1, <2>2, <2>3, <2>4 DEF TimesOut, Keeps
<1> QED BY <1>3, <1>4, <1>5 DEF LaunchStep

(* A parent session that ends with a launch in hand leaves a doubt.            *)
LEMMA ParentEndsQuietly ==
  ASSUME ParentEnds, ~Excused'
  PROVE  launch.at = "none" /\ UNCHANGED <<panel, proc>>
  BY DEF ParentEnds, Marked, When, Excused, NoLaunch

--------------------------------------------------------------------------------
(* The step in which a process starts for a launch in hand.                    *)
LEMMA OpenedIsSafe ==
  ASSUME BaseInv, SafeInv, ~Excused', [Next]_leaseVars, HostOpens, launch.at = "opening",
         launch' = [launch EXCEPT !.at = "waiting"], Writers' \subseteq Writers \cup {launch.runtime}
  PROVE  SafeInv'
<1> USE TypeParts DEF BaseInv, SafeInv
<1>1. /\ launch'.at = "waiting" /\ launch'.runtime = launch.runtime /\ launch.runtime \in Runtimes
      /\ Writers' \subseteq {launch.runtime}
  BY LaunchFields DEF LaunchType, NoLaunch, StartInv
<1>2. LaunchStep
  BY DEF LaunchStep
<1>3. UNCHANGED <<record, recon, marks>>
  BY <1>1, <1>2, LaunchGoesOn DEF NoLaunch
<1>4. recon.at \notin {"reading", "acting"}
  BY NoLaunchFirst DEF ControlInv, OpType, Idle, CallKinds
<1>5. StartInv'
  BY <1>1 DEF StartInv
<1>6. NamedInv'
  BY <1>1, <1>3, <1>4 DEF NamedInv, LaunchInv
<1>7. HandleInv'
  BY <1>1 DEF HandleInv
<1>8. StopInv'
  BY <1>3 DEF StopInv, NoLaunch
<1> QED BY <1>5, <1>6, <1>7, <1>8

(* Every other step keeps who may start.                                       *)
LEMMA StartInvStep ==
  ASSUME BaseInv, SafeInv, ~Excused', [Next]_leaseVars, Writers' \subseteq Writers,
         \A r \in Runtimes : proc'[r] = "starting" => proc[r] = "starting"
  PROVE  StartInv'
<1> USE TypeParts DEF BaseInv, SafeInv
<1>1. CASE launch' = launch
  BY <1>1 DEF StartInv
<1>2. CASE LaunchStep /\ launch' = NoLaunch
  <2>1. CASE Writers' = {}
    BY <1>2, <2>1 DEF StartInv, NoLaunch, Writers, Working
  <2>2. CASE LockHeld /\ Writers \subseteq {launch.runtime}
    <3>1. \A r \in Runtimes : proc[r] # "starting"
      BY <2>2 DEF LockHeld, Writers, Working
    <3> QED BY <1>2, <3>1 DEF StartInv, NoLaunch
  <2> QED BY <1>2, <2>1, <2>2, LaunchEnds
<1>3. CASE LaunchStep /\ launch' # NoLaunch
  <2>1. launch.at = "opening"
    BY <1>3, LaunchGoesOn
  <2> QED BY <1>3, <2>1, LaunchGoesOn, LaunchFields DEF StartInv, LaunchType, NoLaunch
<1>4. CASE (Send \/ Acts) /\ launch' # launch
  BY <1>4, OpensForNone DEF StartInv, Writers, Working
<1>5. CASE ParentEnds
  BY <1>5, ParentEndsQuietly DEF ParentEnds, NoLaunch, StartInv
<1> QED BY <1>1, <1>2, <1>3, <1>4, <1>5, LaunchMoves DEF ChainStep, Adopts, Ended, EndObserved,
     LeftSession, Stop, StopCloses, Reclaim, Reclaims

(* Every other step keeps the names of the process that works.                 *)
LEMMA NamedInvStep ==
  ASSUME BaseInv, SafeInv, ~Excused', [Next]_leaseVars, Writers' \subseteq Writers
  PROVE  NamedInv'
<1> USE TypeParts DEF BaseInv, SafeInv
<1>1. \A r, s \in Writers' : r = s
  BY DEF NamedInv
<1>2. \A r \in Writers' : record'.panel \in {0, r} /\ record'.runtime \in {0, r}
  <2>1. CASE record' = record \/ Keeps(record')
    BY <2>1 DEF NamedInv, Keeps
  <2>2. CASE LaunchStep
    <3>1. CASE launch' = NoLaunch
      BY <2>2, <3>1, LaunchEnds
    <3>2. CASE launch' # NoLaunch
      BY <2>2, <3>2, LaunchGoesOn DEF NamedInv
    <3> QED BY <3>1, <3>2
  <2>3. CASE Send \/ Acts
    <3>1. CASE launch' = launch
      <4>1. CASE Send
        <5>1. launch.at = "none"
          BY <4>1, NoLaunchFirst
        <5>2. Connected
          BY <3>1, <4>1, <5>1 DEF Send, Opens, Opening
        <5> QED BY <4>1, <5>2 DEF Send, NamedInv, RecordType
      <4>2. CASE Acts
        <5>1. launch.at = "none"
          BY <4>2, NoLaunchFirst
        <5>2. \/ record' = record
              \/ record' = [Cleared(record) EXCEPT !.intent = IF recon.active THEN "stopped" ELSE @]
          BY <3>1, <4>2, <5>1, ActsEither DEF Opening
        <5>3. Cleared(record) \in RecordType /\ Cleared(record).panel = 0 /\ Cleared(record).runtime = 0
          BY RecordEdges, RecordKeeps
        <5>4. record' = record \/ (record'.panel = 0 /\ record'.runtime = 0)
          BY <5>2, <5>3 DEF RecordType
        <5> QED BY <5>4 DEF NamedInv
      <4> QED BY <2>3, <4>1, <4>2
    <3>2. CASE launch' # launch
      BY <2>3, <3>2, OpensForNone
    <3> QED BY <3>1, <3>2
  <2> QED BY <2>1, <2>2, <2>3, RecordMoves
<1>3. recon'.at \in {"reading", "acting"} => Writers' \subseteq recon'.present
  <2>1. CASE recon' = recon
    BY <2>1 DEF NamedInv
  <2>2. CASE Lists
    <3> DEFINE p == {r \in Runtimes : panel[r]}
    <3>1. \/ recon' = [recon EXCEPT !.at = "done"]
          \/ recon' = [recon EXCEPT !.at = "reading", !.generation = generation, !.present = p]
      BY <2>2 DEF Lists
    <3>2. Writers \subseteq p
      BY DEF Writers, HostInv, Alive
    <3> HIDE DEF p
    <3> QED BY <3>1, <3>2 DEF ReconType
  <2>3. CASE Reads
    <3> DEFINE b == record.intent = "active"
    <3>1. recon.at = "reading" /\ recon' = [recon EXCEPT !.at = "acting", !.panel = record.panel, !.active = b]
      BY <2>3 DEF Reads
    <3> HIDE DEF b
    <3> QED BY <3>1 DEF ReconType, NamedInv
  <2>4. CASE Acts
    BY <2>4, ActsEither
  <2>5. CASE Settles \/ ParentEnds \/ ParentOpens
    BY <2>5 DEF Settles, ParentEnds, ParentOpens, NoRecon
  <2>6. CASE LaunchStep
    BY <2>6, LaunchGoesOn DEF NamedInv
  <2> QED BY <2>1, <2>2, <2>3, <2>4, <2>5, <2>6, ReconMoves DEF ReconStep
<1>4. recon'.at = "acting" => \A r \in Writers' : recon'.panel \in {0, r}
  <2>1. CASE recon' = recon
    BY <2>1 DEF NamedInv
  <2>2. CASE Reads
    <3> DEFINE b == record.intent = "active"
    <3>1. recon' = [recon EXCEPT !.at = "acting", !.panel = record.panel, !.active = b]
      BY <2>2 DEF Reads
    <3> HIDE DEF b
    <3> QED BY <3>1 DEF ReconType, NamedInv
  <2>3. CASE Lists
    <3> DEFINE p == {r \in Runtimes : panel[r]}
    <3>1. \/ recon' = [recon EXCEPT !.at = "done"]
          \/ recon' = [recon EXCEPT !.at = "reading", !.generation = generation, !.present = p]
      BY <2>3 DEF Lists
    <3> HIDE DEF p
    <3> QED BY <3>1 DEF ReconType
  <2>4. CASE Acts
    BY <2>4, ActsEither
  <2>5. CASE Settles \/ ParentEnds \/ ParentOpens
    BY <2>5 DEF Settles, ParentEnds, ParentOpens, NoRecon
  <2>6. CASE LaunchStep
    BY <2>6, LaunchGoesOn DEF NamedInv
  <2> QED BY <2>1, <2>2, <2>3, <2>4, <2>5, <2>6, ReconMoves DEF ReconStep
<1> QED BY <1>1, <1>2, <1>3, <1>4 DEF NamedInv

(* What becomes of the handle.                                                 *)
LEMMA HandleMoves ==
  ASSUME [Next]_leaseVars
  PROVE  \/ attachment' = attachment /\ (left' = left \/ ~left')
         \/ ParentEnds \/ LaunchStep \/ Settles \/ EndObserved \/ LeftSession \/ StopCloses
         \/ Reclaim \/ Reclaims
  BY DEF Next, leaseVars, Serves, Reloads, Leaves, ReportsError, Dies, HumanCloses, HearsLeft,
     HearsError, HearsDone, HearsTurn, HostRestarts, ParentOpens, Notices, Calls,
     ReconStep, Lists, Reads, Acts, ChainStep, Adopts, Ended, Send, Stop, memory, Outside

(* A child that went to another session left no process of the record.         *)
LEMMA LeftForNone ==
  ASSUME BaseInv, SafeInv, LeftSession
  PROVE  (attachment' = attachment /\ left' = left) \/ Writers = {}
<1> USE TypeParts DEF BaseInv, SafeInv
<1>1. CASE record.runtime = Head(chain).runtime /\ record.intent = "active"
  <2>1. chain # <<>> /\ Head(chain).kind = "left"
    BY DEF LeftSession, Next1
  <2>2. Head(chain).runtime \in Runtimes /\ Gone(Head(chain).runtime)
    BY <2>1, TailOf DEF HostInv
  <2>3. \A r \in Writers : r = Head(chain).runtime
    BY <1>1, <2>2, LeaseAssumption DEF NamedInv, Runtimes
  <2> QED BY <2>2, <2>3 DEF Gone, Writers, Working
<1>2. CASE ~(record.runtime = Head(chain).runtime /\ record.intent = "active")
  BY <1>2 DEF LeftSession
<1> QED BY <1>1, <1>2

(* Every other step keeps the handle.                                          *)
LEMMA HandleInvStep ==
  ASSUME BaseInv, SafeInv, ~Excused', [Next]_leaseVars, Writers' \subseteq Writers
  PROVE  HandleInv'
<1> USE TypeParts DEF BaseInv, SafeInv
<1> SUFFICES ASSUME launch'.at = "none"
    PROVE  /\ \A r \in Writers' : attachment' \in {0, r}
           /\ left' /\ attachment' = 0 => Writers' = {}
  BY DEF HandleInv
<1>1. CASE ParentEnds
  BY <1>1 DEF ParentEnds
<1>2. CASE LaunchStep
  <2>1. launch' = NoLaunch
    BY <1>2, LaunchGoesOn, LaunchFields DEF LaunchType, NoLaunch
  <2>2. launch.runtime # 0
    BY <1>2, LaunchGoesOn, LaunchFields, LeaseAssumption DEF Runtimes
  <2> QED BY <1>2, <2>1, <2>2, LaunchEnds
<1>3. CASE ~ParentEnds /\ ~LaunchStep
  <2>1. launch.at = "none"
    <3>1. \/ launch' = launch
          \/ Send /\ \E r \in Runtimes : launch' = Opening(r, "call", record.running)
          \/ Acts /\ \E r \in Runtimes : launch' = Opening(r, "reconcile", FALSE)
      BY <1>3, LaunchMoves, ActsEither DEF ChainStep, Adopts, Ended, EndObserved, LeftSession, Send,
         Opens, Stop, StopCloses, Reclaim, Reclaims
    <3> QED BY <3>1 DEF Opening
  <2>2. /\ \A r \in Writers : attachment \in {0, r}
        /\ left /\ attachment = 0 => Writers = {}
    BY <2>1 DEF HandleInv
  <2>3. CASE attachment' = attachment /\ (left' = left \/ ~left')
    BY <2>2, <2>3
  <2>4. CASE Settles
    <3>1. /\ left' = left
          /\ \/ attachment' = attachment
             \/ attachment' = record.panel /\ record.panel # 0
      BY <2>4 DEF Settles
    <3> QED BY <2>2, <3>1 DEF NamedInv
  <2>5. CASE EndObserved
    <3>1. \/ attachment' = attachment
          \/ attachment # 0 /\ attachment' = 0 /\ CleansUp(attachment, TRUE)
      BY <2>5 DEF EndObserved
    <3>2. attachment' # attachment => Writers' = {}
      BY <2>2, <3>1, CleanedUp DEF RestTypeOK
    <3> QED BY <2>2, <2>5, <3>1, <3>2 DEF EndObserved
  <2>6. CASE LeftSession
    BY <2>2, <2>6, LeftForNone
  <2>7. CASE StopCloses
    <3>1. \/ attachment' = attachment
          \/ attachment # 0 /\ attachment' = 0 /\ CleansUp(attachment, TRUE)
      BY <2>7 DEF StopCloses
    <3>2. attachment' # attachment => Writers' = {}
      BY <2>2, <3>1, CleanedUp DEF RestTypeOK
    <3> QED BY <2>2, <2>7, <3>1, <3>2 DEF StopCloses
  <2>8. CASE Reclaim
    <3>1. \/ attachment' = attachment
          \/ attachment # 0 /\ attachment' = 0 /\ ~Present(attachment)
      BY <2>8 DEF Reclaim
    <3>2. attachment' # attachment => Writers = {}
      <4>1. ASSUME attachment # 0, ~Present(attachment) PROVE attachment \notin Writers
        BY <4>1 DEF Present, Writers, HostInv, Alive
      <4> QED BY <2>2, <3>1, <4>1
    <3> QED BY <2>2, <2>8, <3>1, <3>2 DEF Reclaim
  <2>9. CASE Reclaims
    <3>1. \/ attachment' = attachment
          \/ attachment' = 0 /\ CleansUp(attachment, TRUE)
      BY <2>9 DEF Reclaims
    <3>2. attachment' # attachment => Writers' = {}
      BY <2>2, <3>1, CleanedUp DEF RestTypeOK
    <3> QED BY <2>2, <2>9, <3>1, <3>2 DEF Reclaims
  <2> QED BY <1>3, <2>3, <2>4, <2>5, <2>6, <2>7, <2>8, <2>9, HandleMoves
<1> QED BY <1>1, <1>2, <1>3

(* A stop that succeeds leaves nobody.                                         *)
LEMMA StopsForNone ==
  ASSUME BaseInv, SafeInv, ~Excused', [Next]_leaseVars, StopCloses, Writers' \subseteq Writers
  PROVE  /\ launch' = NoLaunch /\ record'.intent = "stopped" /\ recon'.at # "acting"
         /\ marks' = marks \/ Writers' = {}
<1> USE TypeParts DEF BaseInv, SafeInv
<1>1. op = [kind |-> "stop", at |-> "closing"]
  BY DEF StopCloses, OpType, Idle
<1>2. record.intent = "stopped" /\ recon.at = "done"
  BY <1>1 DEF ControlInv, CallKinds
<1>3. launch = NoLaunch
  <2>1. launch.by \notin {"call", "reconcile"}
    BY <1>1, <1>2 DEF ControlInv
  <2>2. launch.at = "none"
    BY <2>1, NoLaunchFirst
  <2> QED BY <2>2 DEF LaunchType
<1>4. record'.intent = "stopped"
  <2>1. record' \in {record, Finished(record), [record EXCEPT !.running = FALSE]}
    BY DEF StopCloses, Confirms
  <2> QED BY <1>2, <2>1, RecordKeeps DEF RecordType
<1>5. marks' = marks \/ Writers' = {}
  <2>1. CASE attachment # 0
    <3>1. Writers \subseteq {attachment}
      BY <1>3, <2>1 DEF HandleInv, NoLaunch
    <3>2. PICK gone \in BOOLEAN : CleansUp(attachment, gone) /\ (~gone => marks' = marks)
      BY <2>1 DEF StopCloses
    <3>3. CASE gone
      BY <3>1, <3>2, <3>3, CleanedUp DEF RestTypeOK
    <3> QED BY <3>2, <3>3
  <2>2. CASE attachment = 0 /\ marks' # marks
    <3>1. ~Connected /\ proc' = proc /\ Confirms
      BY <2>2 DEF StopCloses
    <3>2. ~Reloading
      BY <3>1 DEF Confirms, Marked, When, Excused, Reloading
    <3>3. CASE left
      BY <1>3, <2>2, <3>3 DEF HandleInv, NoLaunch
    <3>4. CASE ~LockHeld
      BY <1>3, <3>2, <3>4, NobodyWorks DEF NoLaunch
    <3> QED BY <3>1, <3>3, <3>4 DEF Connected
  <2> QED BY <2>1, <2>2
<1> QED BY <1>2, <1>3, <1>4, <1>5 DEF StopCloses

(* Every other step keeps what a stop promised.                                *)
LEMMA StopInvStep ==
  ASSUME BaseInv, SafeInv, ~Excused', [Next]_leaseVars, Writers' \subseteq Writers
  PROVE  StopInv'
<1> USE TypeParts DEF BaseInv, SafeInv
<1> SUFFICES ASSUME "confirmed" \in marks'
    PROVE  /\ Writers' = {} /\ launch' = NoLaunch /\ record'.intent = "stopped"
           /\ recon'.at = "acting" => ~recon'.active
  BY DEF StopInv
<1>1. CASE "confirmed" \notin marks
  <2>1. StopCloses \/ marks' \subseteq marks \cup {"doubt", "crossed", "halted", "unlisted"}
    BY DEF Next, leaseVars, Serves, Reloads, Leaves, ReportsError, Dies, HumanCloses, HearsLeft,
     HearsError, HearsDone, HearsTurn, HostRestarts, ParentEnds, ParentOpens, Notices, Calls,
     ReconStep, Lists, Reads, Acts, Settles, LaunchStep, HostOpens, Connects, TimesOut,
     ChainStep, Adopts, Ended, EndObserved, LeftSession, Send, Stop, Reclaim, Reclaims,
     memory, Outside, Marked, When, Crosses, EndsRuntime
  <2> QED BY <1>1, <2>1, StopsForNone
<1>2. CASE "confirmed" \in marks
  <2>1. /\ Writers = {} /\ launch = NoLaunch /\ record.intent = "stopped"
        /\ recon.at = "acting" => ~recon.active
    BY <1>2 DEF StopInv
  <2>2. ~Send
    BY DEF Send, When
  <2>3. ~LaunchStep
    BY <2>1, LaunchGoesOn DEF NoLaunch
  <2>4. launch' = NoLaunch
    <3>1. CASE Acts
      BY <2>1, <3>1, ActsEither DEF Acts
    <3>2. CASE ~Acts
      BY <2>1, <2>2, <2>3, <3>2, LaunchMoves DEF ParentEnds, ChainStep, Adopts, Ended, EndObserved,
         LeftSession, Stop, StopCloses, Reclaim, Reclaims
    <3> QED BY <3>1, <3>2
  <2>5. record'.intent = "stopped"
    <3>1. CASE Acts
      <4> DEFINE i == IF recon.active THEN "stopped" ELSE Cleared(record).intent
      <4>1. record' = record \/ record' = [Cleared(record) EXCEPT !.intent = i]
        BY <2>1, <2>4, <3>1, ActsEither DEF Opening, NoLaunch
      <4>2. Cleared(record) \in RecordType /\ i = "stopped"
        BY <2>1, RecordEdges, RecordKeeps
      <4> HIDE DEF i
      <4> QED BY <2>1, <4>1, <4>2 DEF RecordType
    <3>2. CASE ChainStep
      <4>1. CASE Adopts
        BY <2>1, <4>1 DEF Adopts
      <4>2. CASE Ended \/ EndObserved
        BY <2>1, <4>2, RecordKeeps DEF Ended, EndsRuntime, EndObserved
      <4>3. CASE LeftSession
        BY <2>1, <4>3 DEF LeftSession
      <4>4. CASE Stop
        BY <4>4 DEF Stop, RecordType
      <4>5. CASE StopCloses
        BY <4>5, StopsForNone
      <4>6. CASE Reclaim \/ Reclaims
        BY <2>1, <4>6, RecordKeeps DEF Reclaim, Reclaims
      <4> QED BY <2>2, <3>2, <4>1, <4>2, <4>3, <4>4, <4>5, <4>6 DEF ChainStep
    <3>3. CASE (\E r \in Runtimes : HearsError(r) \/ HearsDone(r)) \/ HearsTurn
      BY <2>1, <3>3 DEF HearsError, HearsDone, HearsTurn, RecordType
    <3>4. CASE Settles
      BY <2>1, <3>4, RecordKeeps DEF Settles
    <3>5. \/ record' = record
          \/ \E r \in Runtimes : HearsError(r) \/ HearsDone(r)
          \/ HearsTurn \/ ChainStep \/ LaunchStep \/ Acts \/ Settles
      BY DEF Next, leaseVars, Serves, Reloads, Leaves, ReportsError, Dies, HumanCloses, HearsLeft,
         HostRestarts, ParentEnds, ParentOpens, Notices, Calls, ReconStep, Lists, Reads, database,
         memory, world, Outside
    <3> QED BY <2>1, <2>3, <3>1, <3>2, <3>3, <3>4, <3>5
  <2>6. recon'.at = "acting" => ~recon'.active
    <3>1. CASE recon' = recon
      BY <2>1, <3>1
    <3>2. CASE Reads
      <4> DEFINE b == record.intent = "active"
      <4>1. recon' = [recon EXCEPT !.at = "acting", !.panel = record.panel, !.active = b] /\ ~b
        BY <2>1, <3>2 DEF Reads
      <4> HIDE DEF b
      <4> QED BY <4>1 DEF ReconType
    <3>3. CASE Lists
      <4> DEFINE p == {r \in Runtimes : panel[r]}
      <4>1. \/ recon' = [recon EXCEPT !.at = "done"]
            \/ recon' = [recon EXCEPT !.at = "reading", !.generation = generation, !.present = p]
        BY <3>3 DEF Lists
      <4>2. recon'.at \in {"done", "reading"}
        <5> HIDE DEF p
        <5> QED BY <4>1 DEF ReconType
      <4> QED BY <4>2
    <3>4. CASE Acts
      BY <3>4, ActsEither
    <3>5. CASE Settles \/ ParentEnds \/ ParentOpens
      BY <3>5 DEF Settles, ParentEnds, ParentOpens, NoRecon
    <3> QED BY <2>3, <3>1, <3>2, <3>3, <3>4, <3>5, ReconMoves DEF ReconStep
  <2> QED BY <2>1, <2>4, <2>5, <2>6
<1> QED BY <1>1, <1>2

(* Every step for which no exception is made keeps the safe part.              *)
LEMMA SafeStep ==
  ASSUME BaseInv, SafeInv, ~Excused', [Next]_leaseVars
  PROVE  SafeInv'
<1>1. CASE /\ Writers' \subseteq Writers
           /\ \A r \in Runtimes : proc'[r] = "starting" => proc[r] = "starting"
  BY <1>1, StartInvStep, NamedInvStep, HandleInvStep, StopInvStep DEF SafeInv
<1>2. CASE /\ HostOpens /\ launch.at = "opening"
           /\ launch' = [launch EXCEPT !.at = "waiting"]
           /\ Writers' \subseteq Writers \cup {launch.runtime}
  BY <1>2, OpenedIsSafe
<1> QED BY <1>1, <1>2, WritersMove DEF BaseInv

(* The inductive invariant.                                                    *)
LeaseInv == BaseInv /\ (Excused \/ SafeInv)

(* The invariant holds initially.                                              *)
LEMMA InitInv == Init => LeaseInv
<1> SUFFICES ASSUME Init PROVE LeaseInv
  OBVIOUS
<1>1. LeaseTypeOK
  BY InitTypeOK
<1>2. Writers = {} /\ ~Called
  BY DEF Init, Writers, Working, Called
<1>3. /\ launch = Opening(1, "call", FALSE) /\ recon.at = "done" /\ marks = {}
      /\ \A r \in Runtimes : proc[r] = "none"
  BY DEF Init, NoRecon
<1>4. HostInv
  BY <1>3 DEF Init, HostInv, Alive, Working
<1>5. ControlInv /\ LaunchInv
  BY <1>2, <1>3, LeaseAssumption DEF Init, ControlInv, LaunchInv, Opening, Runtimes, CallKinds
<1>6. SafeInv
  BY <1>2, <1>3 DEF SafeInv, StartInv, NamedInv, HandleInv, StopInv, Opening
<1> QED BY <1>1, <1>4, <1>5, <1>6 DEF LeaseInv, BaseInv

(* Every step keeps the invariant.                                             *)
LEMMA InvStep == LeaseInv /\ [Next]_leaseVars => LeaseInv'
<1> SUFFICES ASSUME LeaseInv, [Next]_leaseVars PROVE LeaseInv'
  OBVIOUS
<1> USE DEF LeaseInv
<1>1. BaseInv'
  BY TypeStep, HostInvStep, ControlInvStep, LaunchInvStep DEF BaseInv
<1>2. Excused' \/ SafeInv'
  BY ExcuseStands, SafeStep
<1> QED BY <1>1, <1>2

(* The invariant holds of every behaviour.                                     *)
LEMMA LeaseInvariant == Spec => []LeaseInv
  BY InitInv, InvStep, PTL DEF Spec

(* The variables keep their types, and one process at a time holds the lock    *)
(* that process-lock.ts keeps.                                                 *)
THEOREM LeaseTypes == Spec => []LeaseTypeOK
<1>1. LeaseInv => LeaseTypeOK
  BY DEF LeaseInv, BaseInv
<1> QED BY <1>1, LeaseInvariant, PTL

(* Two processes never work for one child, whatever send, stop, the reclaim and *)
(* the reconciliation of manager.ts do, but after an excused launch or notice. *)
THEOREM OneRuntimeAtATime == Spec => []OneRuntime
<1>1. LeaseInv => OneRuntime
  BY DEF LeaseInv, SafeInv, NamedInv, OneRuntime
<1> QED BY <1>1, LeaseInvariant, PTL

(* A stop that manager.stop confirmed left no process at work, and none comes  *)
(* back before the next send.                                                  *)
THEOREM StopsAreConfirmed == Spec => []StopIsConfirmed
<1>1. LeaseInv => StopIsConfirmed
  BY DEF LeaseInv, SafeInv, StopInv, StopIsConfirmed
<1> QED BY <1>1, LeaseInvariant, PTL

--------------------------------------------------------------------------------
(* The record names the process that serves.  A panel in hand, or a question   *)
(* after one, means that the reconciliation is over but for its last step, so  *)
(* no launch is in hand while an ended runtime is asked for (AskInv).  Who     *)
(* works without a launch in hand is in the record, and while an ended runtime *)
(* is asked for, nobody works (BindInv): the record that is cleared afterwards *)
(* is nobody's.                                                                *)
AskInv ==
  /\ ~up => attachment = 0
  /\ attachment # 0 \/ op.at = "observing" => recon.at \in {"settling", "done"}
  /\ op.at = "reclaiming" => attachment # 0
BindInv ==
  /\ launch.at # "waiting" => \A r \in Writers : record.runtime = r
  /\ op.at = "observing" => Writers = {}

(* An operation of the chain's own leaves no room for a launch.                *)
LEMMA NoLaunchBeside ==
  ASSUME LeaseTypeOK, ControlInv, recon.at # "opening", op.at # "launching"
  PROVE  launch.at = "none"
<1>1. launch.by \notin {"call", "reconcile"}
  BY DEF ControlInv
<1> QED BY <1>1, NoLaunchFirst

(* Which steps take a panel in hand.                                           *)
LEMMA HandsMove ==
  ASSUME [Next]_leaseVars
  PROVE  \/ attachment' \in {attachment, 0} /\ ~LaunchStep /\ ~Settles
         \/ LaunchStep \/ Settles
  BY HandleMoves DEF ParentEnds, EndObserved, LeftSession, StopCloses, Reclaim, Reclaims

(* A panel is reclaimed that is in hand, and stays so until the end of it.     *)
LEMMA ReclaimInHand ==
  ASSUME LeaseTypeOK, ControlInv, AskInv, [Next]_leaseVars, op'.at = "reclaiming"
  PROVE  attachment' # 0
<1> USE TypeParts
<1>1. CASE op' \notin {op, Idle}
  <2>1. Reclaim /\ op' # op
    BY <1>1, OpBegins
  <2> QED BY <2>1 DEF Reclaim
<1>2. CASE op' = op
  <2>1. op.kind = "reclaim" /\ op.at = "reclaiming" /\ attachment # 0
    BY <1>2 DEF AskInv, OpType, Idle
  <2>2. ~ParentEnds /\ ~EndObserved /\ ~StopCloses /\ ~Reclaims /\ ~LeftSession /\ ~Reclaim
    BY <1>2, <2>1 DEF ParentEnds, EndObserved, StopCloses, Reclaims, LeftSession, Reclaim, Takes,
       Next1, Idle
  <2>3. CASE LaunchStep
    <3>1. launch.runtime # 0
      <4>1. launch.runtime \in Runtimes
        BY <2>3, LaunchGoesOn, LaunchFields
      <4> QED BY <4>1, LeaseAssumption DEF Runtimes
    <3>2. attachment' \in {attachment, launch.runtime}
      BY <2>3 DEF LaunchStep, HostOpens, Connects, TimesOut, memory
    <3> QED BY <2>1, <3>1, <3>2
  <2>4. CASE Settles
    BY <2>1, <2>4 DEF Settles
  <2>5. CASE ~LaunchStep /\ ~Settles
    BY <2>1, <2>2, <2>5, HandleMoves
  <2> QED BY <2>3, <2>4, <2>5
<1>3. CASE op' = Idle
  BY <1>3 DEF Idle
<1> QED BY <1>1, <1>2, <1>3

(* Every step keeps what a panel in hand says of the reconciliation.           *)
LEMMA AskInvStep ==
  ASSUME LeaseTypeOK, ControlInv, AskInv, [Next]_leaseVars
  PROVE  AskInv'
<1> USE TypeParts
<1>0. op'.at = "reclaiming" => attachment' # 0
  BY ReclaimInHand
<1>1. ASSUME ~up' PROVE attachment' = 0
  <2>1. CASE ParentEnds
    BY <2>1 DEF ParentEnds
  <2>2. CASE ~ParentEnds
    <3>1. ~up
      BY <1>0, <1>1, <2>2 DEF Next, leaseVars, Serves, Reloads, Leaves, ReportsError, Dies, HumanCloses,
         HearsLeft, HearsError, HearsDone, HearsTurn, HostRestarts, ParentOpens, Notices, Calls,
         ReconStep, Lists, Reads, Acts, Settles, LaunchStep, HostOpens, Connects, TimesOut,
         ChainStep, Adopts, Ended, EndObserved, LeftSession, Send, Stop, StopCloses, Reclaim,
         Reclaims, memory, world, database, Outside
    <3>2. Still /\ attachment = 0
      BY <3>1 DEF ControlInv, Still, AskInv
    <3>3. ~LaunchStep /\ ~Settles
      BY <3>2 DEF Still, NoLaunch, Settles, LaunchStep, HostOpens, Connects, TimesOut
    <3> QED BY <3>2, <3>3, HandsMove
  <2> QED BY <2>1, <2>2
<1>2. CASE ParentEnds
  BY <1>0, <1>1, <1>2 DEF ParentEnds, AskInv, Idle
<1>3. CASE Settles
  BY <1>0, <1>1, <1>3 DEF Settles, NoRecon, AskInv
<1>4. CASE ParentOpens
  <2>1. attachment' = 0 /\ op'.at # "observing"
    BY <1>4 DEF ParentOpens, AskInv, ControlInv, Idle, memory
  <2> QED BY <1>0, <1>1, <2>1 DEF AskInv
<1>5. CASE Lists \/ Reads \/ Acts
  <2>1. attachment' = attachment /\ op' = op /\ recon.at \in {"listing", "reading", "acting"}
    BY <1>5 DEF Lists, Reads, Acts, memory
  <2>2. attachment' = 0 /\ op'.at # "observing"
    BY <2>1 DEF AskInv
  <2> QED BY <1>0, <1>1, <2>2 DEF AskInv
<1>6. CASE LaunchStep
  <2>1. CASE launch.by = "call"
    <3>1. recon.at = "done"
      <4>1. op.at = "launching"
        BY <2>1 DEF ControlInv
      <4>2. op.kind \in {"send", "spawn"}
        BY <4>1 DEF OpType, Idle
      <4> QED BY <4>2 DEF ControlInv, CallKinds
    <3>2. recon' = recon
      BY <1>6, <2>1, LaunchGoesOn
    <3> QED BY <1>0, <1>1, <3>1, <3>2 DEF AskInv
  <2>2. CASE launch.by # "call"
    <3>1. CASE recon'.at \in {"settling", "done"}
      BY <1>0, <1>1, <3>1 DEF AskInv
    <3>2. CASE UNCHANGED <<recon, op, attachment>>
      BY <1>0, <1>1, <3>2 DEF AskInv
    <3> QED BY <1>6, <2>2, <3>1, <3>2, LaunchGoesOn
  <2> QED BY <2>1, <2>2
<1>7. CASE recon' = recon /\ ~ParentEnds /\ ~Settles /\ ~LaunchStep
  <2>1. attachment' \in {attachment, 0}
    BY <1>7, HandsMove
  <2>2. op'.at = "observing" => op' = op \/ (attachment # 0)
    <3>1. CASE op' \in {op, Idle}
      BY <3>1 DEF Idle
    <3>2. CASE op' \notin {op, Idle}
      BY <3>2, OpBegins DEF Ended, EndsRuntime
    <3> QED BY <3>1, <3>2
  <2> QED BY <1>0, <1>1, <1>7, <2>1, <2>2 DEF AskInv
<1> QED BY <1>2, <1>3, <1>4, <1>5, <1>6, <1>7, ReconMoves DEF ReconStep

(* An ended runtime is asked for when nobody works.                            *)
LEMMA AsksForNone ==
  ASSUME BaseInv, SafeInv, ~Excused', AskInv, Ended, op' # op
  PROVE  Writers = {}
<1> USE TypeParts DEF BaseInv, SafeInv
<1>1. ~LockHeld /\ attachment # 0 /\ EndsRuntime
  BY DEF Ended, EndsRuntime
<1>2. ~Reloading
  BY <1>1 DEF EndsRuntime, Crosses, Marked, When, Excused
<1>3. op.kind \in {"none", "spawn"}
  BY DEF Ended, Takes, Next1
<1>4. op.at # "launching"
  BY <1>1, <1>3 DEF ControlInv, OpType, Idle
<1>5. launch.at = "none"
  BY <1>1, <1>4, NoLaunchBeside DEF AskInv
<1> QED BY <1>1, <1>2, <1>5, NobodyWorks

(* Beside a launch and the calls, a step clears the record of nobody.          *)
LEMMA ClearsForNone ==
  ASSUME BaseInv, SafeInv, ~Excused', AskInv, BindInv, [Next]_leaseVars, Writers' \subseteq Writers,
         launch.at # "waiting", record'.runtime # record.runtime, ~LaunchStep, ~Send, ~Acts
  PROVE  Writers' = {}
<1> USE TypeParts DEF BaseInv, SafeInv
<1>1. \/ \E r \in Runtimes : HearsError(r) \/ HearsDone(r)
      \/ HearsTurn \/ ChainStep \/ Settles
  BY DEF Next, leaseVars, Serves, Reloads, Leaves, ReportsError, Dies, HumanCloses, HearsLeft,
     HostRestarts, ParentEnds, ParentOpens, Notices, Calls, ReconStep, Lists, Reads, database,
     memory, world, Outside
<1>2. CASE (\E r \in Runtimes : HearsError(r) \/ HearsDone(r)) \/ HearsTurn \/ Adopts \/ Stop
  <2>1. record'.runtime = record.runtime
    BY <1>2 DEF HearsError, HearsDone, HearsTurn, Adopts, Stop, RecordType
  <2> QED BY <2>1
<1>3. CASE Settles
  <2>1. ~LockHeld /\ ~Reloading
    BY <1>3 DEF Settles, Marked, When, Excused
  <2> QED BY <2>1, NobodyWorks
<1>4. CASE Ended
  <2>1. ~LockHeld /\ EndsRuntime
    BY <1>4 DEF Ended
  <2>2. ~Reloading
    BY <2>1 DEF EndsRuntime, Crosses, Marked, When, Excused
  <2> QED BY <2>1, <2>2, NobodyWorks
<1>5. CASE EndObserved
  BY <1>5 DEF EndObserved, BindInv
<1>6. CASE LeftSession
  <2>1. chain # <<>> /\ Head(chain).kind = "left" /\ record.runtime = Head(chain).runtime
    BY <1>6 DEF LeftSession, Next1
  <2>2. Head(chain).runtime \in Runtimes /\ Gone(Head(chain).runtime)
    BY <2>1, TailOf DEF HostInv
  <2>3. \A r \in Writers : record.runtime = r
    BY DEF BindInv
  <2> QED BY <2>1, <2>2, <2>3 DEF Gone, Writers, Working
<1>7. CASE StopCloses
  <2>1. op = [kind |-> "stop", at |-> "closing"]
    BY <1>7 DEF StopCloses, OpType, Idle
  <2>2. recon.at = "done"
    BY <2>1 DEF ControlInv, CallKinds
  <2>3. launch.at = "none"
    BY <2>1, <2>2, NoLaunchBeside
  <2>4. CASE attachment # 0
    <3>1. PICK gone \in BOOLEAN : /\ CleansUp(attachment, gone)
                                  /\ ~gone => record' = [record EXCEPT !.running = FALSE]
      BY <1>7, <2>4 DEF StopCloses
    <3>2. gone
      BY <3>1 DEF RecordType
    <3>3. Writers \subseteq {attachment}
      BY <2>3, <2>4 DEF HandleInv
    <3> QED BY <3>1, <3>2, <3>3, CleanedUp DEF RestTypeOK
  <2>5. CASE attachment = 0
    <3>1. ~Connected /\ proc' = proc /\ Confirms
      BY <1>7, <2>5 DEF StopCloses
    <3>2. ~Reloading
      BY <3>1 DEF Confirms, Marked, When, Excused, Reloading
    <3>3. CASE left
      BY <2>3, <2>5, <3>3 DEF HandleInv
    <3>4. CASE ~LockHeld
      BY <3>2, <3>4, NobodyWorks
    <3> QED BY <3>1, <3>3, <3>4 DEF Connected
  <2> QED BY <2>4, <2>5
<1>8. CASE Reclaim
  <2>1. attachment # 0 /\ ~Present(attachment) /\ Takes("reclaim")
    BY <1>8 DEF Reclaim
  <2>2. op.at # "launching" /\ recon.at # "opening"
    <3>1. Called /\ op.kind \in {"none", "spawn"}
      BY <2>1, CalledFirst DEF CallKinds
    <3> QED BY <3>1 DEF ControlInv, OpType, Idle
  <2>3. Writers \subseteq {attachment}
    BY <2>1, <2>2, NoLaunchBeside DEF HandleInv
  <2>4. attachment \notin Writers
    BY <2>1 DEF Present, Writers, HostInv, Alive
  <2> QED BY <2>3, <2>4
<1>9. CASE Reclaims
  <2>1. op = [kind |-> "reclaim", at |-> "reclaiming"]
    BY <1>9 DEF Reclaims, OpType, Idle
  <2>2. recon.at = "done"
    BY <2>1 DEF ControlInv, CallKinds
  <2>3. launch.at = "none"
    BY <2>1, <2>2, NoLaunchBeside
  <2>4. CleansUp(attachment, TRUE)
    BY <1>9 DEF Reclaims
  <2>5. \A r \in Writers : attachment \in {0, r}
    BY <2>3 DEF HandleInv
  <2>6. Writers' \subseteq Writers \ {attachment}
    BY <2>4, CleanedUp DEF RestTypeOK
  <2>7. attachment # 0
    BY <2>1 DEF AskInv
  <2> QED BY <2>5, <2>6, <2>7
<1> QED BY <1>1, <1>2, <1>3, <1>4, <1>5, <1>6, <1>7, <1>8, <1>9 DEF ChainStep

(* Every step keeps the binding.                                               *)
LEMMA BindInvStep ==
  ASSUME BaseInv, SafeInv, ~Excused', AskInv, BindInv, [Next]_leaseVars
  PROVE  BindInv'
<1> USE TypeParts DEF BaseInv, SafeInv
<1>1. CASE /\ HostOpens /\ launch.at = "opening" /\ launch'.at = "waiting"
           /\ launch' = [launch EXCEPT !.at = "waiting"]
  <2>1. op' = op
    BY <1>1, LaunchGoesOn DEF LaunchStep, NoLaunch
  <2>2. op.at # "observing"
    BY <1>1, NoLaunchBeside DEF AskInv
  <2> QED BY <1>1, <2>1, <2>2 DEF BindInv
<1>2. CASE Writers' \subseteq Writers
  <2>1. ASSUME op'.at = "observing" PROVE Writers' = {}
    <3>1. CASE op' = op
      BY <1>2, <2>1, <3>1 DEF BindInv
    <3>2. CASE op' # op
      <4>1. Ended
        BY <2>1, <3>2, OpBegins DEF Idle
      <4> QED BY <1>2, <3>2, <4>1, AsksForNone
    <3> QED BY <3>1, <3>2
  <2>2. ASSUME launch'.at # "waiting", NEW r \in Writers' PROVE record'.runtime = r
    <3>1. CASE LaunchStep
      <4>1. launch' = NoLaunch
        BY <2>2, <3>1, LaunchGoesOn, LaunchFields DEF LaunchType, NoLaunch
      <4> QED BY <1>2, <2>2, <3>1, <4>1, LaunchEnds
    <3>2. CASE (Send \/ Acts) /\ launch' # launch
      BY <1>2, <2>2, <3>2, OpensForNone
    <3>3. CASE ~LaunchStep /\ ~((Send \/ Acts) /\ launch' # launch)
      <4>1. launch.at # "waiting"
        <5>1. launch' = launch \/ ParentEnds
          BY <3>3, LaunchMoves DEF ChainStep, Adopts, Ended, EndObserved, LeftSession, Stop,
             StopCloses, Reclaim, Reclaims
        <5> QED BY <2>2, <5>1, ParentEndsQuietly
      <4>2. record.runtime = r
        BY <1>2, <4>1 DEF BindInv
      <4>3. CASE Send
        <5>1. launch.at = "none"
          BY <4>3, NoLaunchFirst
        <5>2. Connected
          BY <3>3, <4>3, <5>1 DEF Send, Opens, Opening
        <5> QED BY <4>2, <4>3, <5>2 DEF Send, RecordType
      <4>4. CASE Acts
        <5>1. recon.at = "acting" /\ launch.at = "none"
          BY <4>4, NoLaunchFirst DEF Acts
        <5>2. ~Missing
          BY <1>2, <5>1 DEF Missing, NamedInv
        <5>3. record' = record
          BY <4>4, <5>2 DEF Acts
        <5> QED BY <4>2, <5>3
      <4>5. CASE ~Send /\ ~Acts
        BY <1>2, <2>2, <3>3, <4>1, <4>2, <4>5, ClearsForNone
      <4> QED BY <4>3, <4>4, <4>5
    <3> QED BY <3>1, <3>2, <3>3
  <2> QED BY <2>1, <2>2 DEF BindInv
<1> QED BY <1>1, <1>2, WritersMove

(* The binding is kept besides the lease.                                      *)
BoundInv == LeaseInv /\ AskInv /\ (Excused \/ BindInv)

(* It holds of every behaviour.                                                *)
LEMMA BoundInvariant == Spec => []BoundInv
<1>1. Init => BoundInv
  <2> SUFFICES ASSUME Init PROVE BoundInv
    OBVIOUS
  <2>1. AskInv
    BY DEF Init, AskInv, NoRecon
  <2>2. BindInv
    BY DEF Init, BindInv, Writers, Working
  <2> QED BY <2>1, <2>2, InitInv DEF BoundInv
<1>2. BoundInv /\ [Next]_leaseVars => BoundInv'
  <2> SUFFICES ASSUME BoundInv, [Next]_leaseVars PROVE BoundInv'
    OBVIOUS
  <2>1. LeaseInv'
    BY InvStep DEF BoundInv
  <2>2. AskInv'
    BY AskInvStep DEF BoundInv, LeaseInv, BaseInv
  <2>3. Excused' \/ BindInv'
    BY ExcuseStands, BindInvStep DEF BoundInv, LeaseInv
  <2> QED BY <2>1, <2>2, <2>3 DEF BoundInv
<1> QED BY <1>1, <1>2, PTL DEF Spec

(* When the manager has nothing left to do, the record names the process that  *)
(* holds the lock, so its reports and notices are accepted (manager.ts).       *)
THEOREM WriterStaysBound == Spec => []BoundToTheWriter
<1>1. BoundInv => BoundToTheWriter
  <2> SUFFICES ASSUME BoundInv, Quiet, NEW r \in Runtimes, proc[r] = "serving", ~Excused
               PROVE  record.runtime = r
    BY DEF BoundToTheWriter
  <2>1. launch.at = "none"
    BY NoLaunchBeside DEF BoundInv, LeaseInv, BaseInv, Quiet, Idle
  <2>2. r \in Writers
    BY DEF Writers, Working
  <2> QED BY <2>1, <2>2 DEF BoundInv, BindInv
<1> QED BY <1>1, BoundInvariant, PTL
=============================================================================
