----------------------------- MODULE PatchExecutor -----------------------------
(* Patches that apply their operations one path after another                *)
(* (pi-apply-patch), with no lock between them and with other programs that  *)
(* write the same files.  A file is the set of edits it holds, or Missing.   *)
(*                                                                           *)
(* Script gives each patch its operations; Foreign are the edits of other    *)
(* programs, each written at most once, MaxRemovals bounds their deletions.  *)
EXTENDS Naturals, Sequences, FiniteSets

CONSTANTS Patches, Paths, Script, Original, Foreign, MaxRemovals, Missing, Nowhere

Edits(f) == IF f = Missing THEN {} ELSE f

(* Every edit there is, and what a file may be.                              *)
AllEdits == Foreign \cup UNION {Edits(Original[f]) : f \in Paths}
                   \cup UNION {{Script[p][i].edit : i \in DOMAIN Script[p]} : p \in Patches}
Content == {Missing} \cup SUBSET AllEdits

Operations == [kind : {"add", "delete", "update"}, path : Paths,
               to : Paths \cup {Nowhere}, edit : AllEdits]

ASSUME PatchAssumption ==
  /\ Script \in [Patches -> Seq(Operations)]
  /\ \A p \in Patches : \A i \in DOMAIN Script[p] :
        Script[p][i].kind # "update" => Script[p][i].to = Nowhere
  /\ Original \in [Paths -> Content]
  /\ MaxRemovals \in Nat /\ Nowhere \notin Paths

VARIABLES
  file,     \* the contents of the files
  temp,     \* the patches whose sibling temporary file exists
  work,     \* each patch: where it is, what it prepared, what stopped it
  row,      \* the status of each operation
  changed,  \* changedPaths of each patch
  unwritten,\* foreign edits still to come
  removals, \* foreign deletions so far
  wrote,    \* history: what each operation did to the files
  late,     \* history: edits that came since a patch last compared its file
  missed    \* history: edits destroyed although they were there to be seen

patchVars == <<file, temp, work, row, changed, unwritten, removals, wrote, late, missed>>

NoWork == [pc |-> "new", at |-> 1, before |-> Missing, after |-> Missing, some |-> FALSE,
           halted |-> FALSE, aborted |-> FALSE, threw |-> FALSE, robbed |-> FALSE]

PatchInit ==
  /\ file = Original /\ temp = {}
  /\ work = [p \in Patches |-> NoWork]
  /\ row = [p \in Patches |-> [i \in DOMAIN Script[p] |-> "pending"]]
  /\ changed = [p \in Patches |-> {}]
  /\ unwritten = Foreign /\ removals = 0
  /\ wrote = [p \in Patches |-> [i \in DOMAIN Script[p] |-> {}]]
  /\ late = [p \in Patches |-> {}] /\ missed = {}

Op(p)     == Script[p][work[p].at]
At(p, pc) == work[p].pc = pc
Moves(p)  == Op(p).to # Nowhere
Target(p) == IF Moves(p) THEN Op(p).to ELSE Op(p).path

(* The operations that share a path are refused before anything runs, unless *)
(* they are one add and one delete, or updates that stay where they are.     *)
Touches(op)    == {op.path, op.to} \ {Nowhere}
Sharing(p, f)  == {i \in DOMAIN Script[p] : f \in Touches(Script[p][i])}
Compatible(p, S) ==
  \/ Cardinality(S) = 1
  \/ Cardinality(S) = 2 /\ {Script[p][i].kind : i \in S} = {"add", "delete"}
  \/ \A i \in S : Script[p][i].kind = "update" /\ Script[p][i].to = Nowhere
Conflicts(p) ==
  {i \in DOMAIN Script[p] :
     \/ Script[p][i].to = Script[p][i].path
     \/ \E f \in Touches(Script[p][i]) : ~Compatible(p, Sharing(p, f))}

(* Nothing of the patch has been published or is in doubt.                   *)
UntouchedAssumed(p) == TRUE   \* mutant: a cancel always throws
Untouched(p) == \A i \in DOMAIN row[p] : row[p][i] \notin {"applied", "partial", "unconfirmed"}

--------------------------------------------------------------------------------
GoesTo(p, pc)  == work' = [work EXCEPT ![p].pc = pc]
Rows(p, s)   == row' = [row EXCEPT ![p][work[p].at] = s]
Onward(p)    == work' = [work EXCEPT ![p].pc = "next", ![p].at = @ + 1]
Halting(p)   == work' = [work EXCEPT ![p].pc = "next", ![p].at = @ + 1, ![p].halted = TRUE]
Quiet        == UNCHANGED <<unwritten, removals>>
Untold       == UNCHANGED <<wrote, late, missed>>

(* An operation that failed before it published anything: thrown when the    *)
(* patch is cancelled and had no effect yet, otherwise a row of its own.     *)
Fails(p) ==
  IF work[p].aborted /\ Untouched(p)
  THEN /\ work' = [work EXCEPT ![p].pc = "done", ![p].threw = TRUE] /\ UNCHANGED row
  ELSE IF work[p].aborted THEN Halting(p) /\ Rows(p, "not_applied")
                         ELSE Onward(p) /\ Rows(p, "rejected")

(* A replace or remove that may have been carried out.                       *)
Doubted(p) ==
  IF work[p].aborted /\ Untouched(p)
  THEN /\ work' = [work EXCEPT ![p].pc = "done", ![p].threw = TRUE] /\ UNCHANGED row
  ELSE Halting(p) /\ Rows(p, "unconfirmed")

(* A write to a file: every other patch that has compared a file with its    *)
(* snapshot does not see it any more.  What it destroys and was there when   *)
(* the writer compared is missed.                                            *)
Puts(p, f, content) ==
  /\ file' = [file EXCEPT ![f] = content]
  /\ late' = [q \in Patches |-> IF q = p THEN late[q]
                                ELSE late[q] \cup (Edits(content) \ Edits(file[f]))]
  /\ missed' = missed \cup ((Edits(file[f]) \ (Edits(content) \cup work[p].before)) \ late[p])
  /\ wrote' = [wrote EXCEPT ![p][work[p].at] = @ \cup {f}]

--------------------------------------------------------------------------------
(* The request starts: it sweeps the temporary files of its directories,     *)
(* whoever made them.                                                        *)
Start(p) ==
  /\ At(p, "new")
  /\ GoesTo(p, "next")
  /\ temp' = {}
  /\ row' = [row EXCEPT ![p] = [i \in DOMAIN @ |-> IF i \in Conflicts(p) THEN "rejected" ELSE @[i]]]
  /\ UNCHANGED <<file, changed>> /\ Quiet /\ Untold

Finish(p) ==
  /\ At(p, "next") /\ work[p].at > Len(Script[p])
  /\ GoesTo(p, "done")
  /\ UNCHANGED <<file, temp, row, changed>> /\ Quiet /\ Untold

Skip(p) ==
  /\ At(p, "next") /\ work[p].at <= Len(Script[p])
  /\ \/ /\ row[p][work[p].at] = "rejected" /\ Onward(p) /\ UNCHANGED row
     \/ /\ row[p][work[p].at] = "pending" /\ work[p].halted
        /\ Onward(p) /\ Rows(p, "not_applied")
     \/ /\ row[p][work[p].at] = "pending" /\ ~work[p].halted /\ work[p].aborted
        /\ Fails(p)
  /\ UNCHANGED <<file, temp, changed>> /\ Quiet /\ Untold

(* The path is inspected and the new content prepared in memory: hunks may   *)
(* match all, some or none of the content.  Any of it may fail.  Hunks that  *)
(* do not match are a rejection of their own even when the patch is          *)
(* cancelled meanwhile: such a cancel comes after the rejection here.        *)
Prepare(p) ==
  /\ At(p, "next") /\ work[p].at <= Len(Script[p])
  /\ row[p][work[p].at] = "pending" /\ ~work[p].halted /\ ~work[p].aborted
  /\ LET op == Op(p)  now == file[op.path]
     IN  \/ Fails(p)
         \/ /\ op.kind = "add" /\ now = Missing
            /\ work' = [work EXCEPT ![p].pc = "write", ![p].before = {}, ![p].after = {op.edit},
                                  ![p].some = FALSE]
            /\ UNCHANGED row
         \/ /\ op.kind = "delete" /\ now # Missing
            /\ work' = [work EXCEPT ![p].pc = "recheck", ![p].before = now, ![p].after = Missing,
                                  ![p].some = FALSE]
            /\ UNCHANGED row
         \/ /\ op.kind = "update" /\ now # Missing
            /\ op.to # Nowhere => file[op.to] = Missing
            /\ \E some \in BOOLEAN :
                  work' = [work EXCEPT ![p].pc = "write", ![p].before = now,
                                     ![p].after = now \cup {op.edit}, ![p].some = some]
            /\ UNCHANGED row
  /\ UNCHANGED <<file, temp, changed>> /\ Quiet /\ Untold

(* The sibling temporary file.  A failure, a cancel included, removes it.    *)
Write(p) ==
  /\ At(p, "write")
  /\ \/ /\ ~work[p].aborted
        /\ GoesTo(p, IF Op(p).kind = "update" THEN "check" ELSE "publish")
        /\ temp' = temp \cup {p} /\ UNCHANGED row
     \/ Fails(p) /\ temp' = temp \ {p}
  /\ UNCHANGED <<file, changed>> /\ Quiet /\ Untold

(* The source is compared with what was prepared from.                       *)
ComparedUnlessReplaced(p) ==   \* mutant: the baseline of a replace is not revalidated
  (Op(p).kind = "update" /\ ~Moves(p)) \/ file[Op(p).path] = work[p].before
Compared(p) == file[Op(p).path] = work[p].before

Check(p) ==
  /\ At(p, "check")
  /\ \/ /\ ~work[p].aborted /\ Compared(p)
        /\ GoesTo(p, "publish") /\ late' = [late EXCEPT ![p] = {}]
        /\ UNCHANGED <<row, temp, wrote, missed>>
     \/ Fails(p) /\ temp' = temp \ {p} /\ Untold
  /\ UNCHANGED <<file, changed>> /\ Quiet

(* An add and a move link the temporary file to a name that must be free; an *)
(* update renames it over its file.                                          *)
Landed(p) == IF work[p].some THEN "partial" ELSE "applied"
Linked(p) == Op(p).kind = "add" \/ Moves(p)

Publish(p) ==
  /\ At(p, "publish") /\ p \in temp
  /\ Linked(p) => file[Target(p)] = Missing
  /\ ~Linked(p) => ~work[p].aborted
  /\ Puts(p, Target(p), work[p].after)
  /\ temp' = temp \ {p}
  /\ changed' = [changed EXCEPT ![p] = @ \cup {Target(p)}]
  /\ IF Moves(p) THEN GoesTo(p, "recheck") /\ UNCHANGED row
                 ELSE Onward(p) /\ Rows(p, Landed(p))
  /\ Quiet

PublishFails(p) ==
  /\ At(p, "publish")
  /\ \/ ~Linked(p) /\ work[p].aborted /\ Doubted(p) /\ UNCHANGED temp  \* "cancelled before replace"
     \/ (Linked(p) \/ ~work[p].aborted) /\ Fails(p) /\ temp' = temp \ {p}
  /\ p \in temp \/ work[p].aborted
  /\ UNCHANGED <<file, changed>> /\ Quiet /\ Untold

(* Its temporary file was swept away by the start of another patch.          *)
Robbed(p) ==
  /\ At(p, "publish") /\ p \notin temp /\ ~work[p].aborted
  /\ work' = [work EXCEPT ![p].pc = "next", ![p].at = @ + 1, ![p].robbed = TRUE]
  /\ Rows(p, "rejected")
  /\ UNCHANGED <<file, temp, changed>> /\ Quiet /\ Untold

--------------------------------------------------------------------------------
(* The source of a delete or of a move is compared once more and removed.  A *)
(* move whose target is published is not taken back: its row says partial,   *)
(* or unconfirmed when the removal may have happened.                        *)
Recheck(p) ==
  /\ At(p, "recheck")
  /\ \/ /\ ~work[p].aborted /\ Compared(p)
        /\ GoesTo(p, "remove") /\ late' = [late EXCEPT ![p] = {}]
        /\ UNCHANGED <<row, wrote, missed>>
     \/ /\ IF Moves(p) THEN Onward(p) /\ Rows(p, "partial") ELSE Fails(p)
        /\ Untold
  /\ UNCHANGED <<file, temp, changed>> /\ Quiet

Remove(p) ==
  /\ At(p, "remove") /\ ~work[p].aborted /\ file[Op(p).path] # Missing
  /\ Puts(p, Op(p).path, Missing)
  /\ changed' = [changed EXCEPT ![p] = @ \cup {Op(p).path}]
  /\ Onward(p) /\ Rows(p, IF Moves(p) THEN Landed(p) ELSE "applied")
  /\ UNCHANGED temp /\ Quiet

RemoveFails(p) ==
  /\ At(p, "remove")
  /\ IF work[p].aborted THEN (IF Moves(p) THEN Halting(p) /\ Rows(p, "unconfirmed") ELSE Doubted(p))
     ELSE IF Moves(p) THEN Onward(p) /\ Rows(p, "partial")
     ELSE Fails(p)
  /\ UNCHANGED <<file, temp, changed>> /\ Quiet /\ Untold

(* The user cancels.  A call that is cancelled before it starts just throws. *)
Abort(p) ==
  /\ work[p].pc \notin {"new", "done"} /\ ~work[p].aborted
  /\ work' = [work EXCEPT ![p].aborted = TRUE]
  /\ UNCHANGED <<file, temp, row, changed, wrote, late, missed>> /\ Quiet

(* Another program adds an edit of its own to a file, or deletes one.        *)
Elsewhere(f, content) ==
  /\ file' = [file EXCEPT ![f] = content]
  /\ late' = [p \in Patches |-> late[p] \cup (Edits(content) \ Edits(file[f]))]
  /\ UNCHANGED <<temp, work, row, changed, wrote, missed>>

ForeignWrite(f) ==
  \E e \in unwritten : /\ Elsewhere(f, Edits(file[f]) \cup {e})
                       /\ unwritten' = unwritten \ {e} /\ UNCHANGED removals

ForeignRemove(f) ==
  /\ file[f] # Missing /\ removals < MaxRemovals
  /\ Elsewhere(f, Missing)
  /\ removals' = removals + 1 /\ UNCHANGED unwritten

PatchNext ==
  \/ \E p \in Patches :
       \/ Start(p) \/ Skip(p) \/ Prepare(p) \/ Write(p) \/ Check(p) \/ Publish(p)
       \/ PublishFails(p) \/ Robbed(p) \/ Recheck(p) \/ Remove(p) \/ RemoveFails(p) \/ Finish(p) \/ Abort(p)
  \/ \E f \in Paths : ForeignWrite(f) \/ ForeignRemove(f)

PatchSpec == PatchInit /\ [][PatchNext]_patchVars

--------------------------------------------------------------------------------
(* What an operation does when it is carried out in full.                    *)
Whole(op) == IF op.to = Nowhere THEN {op.path} ELSE {op.path, op.to}

(* The report is true of the files.  A row that says rejected or not applied *)
(* wrote nothing, one that says applied did all of it, one that says partial *)
(* published its target; a call that threw had no effect; the changed paths  *)
(* are those that were written; and nothing is written after a doubt.        *)
ReportIsTrue ==
  \A p \in Patches :
    /\ \A i \in DOMAIN Script[p] :
         LET op == Script[p][i]
         IN  /\ row[p][i] \in {"rejected", "not_applied"} => wrote[p][i] = {}
             /\ row[p][i] = "applied" => wrote[p][i] = Whole(op)
             /\ row[p][i] = "partial" => (IF op.to = Nowhere THEN op.path ELSE op.to) \in wrote[p][i]
             /\ row[p][i] = "unconfirmed" => \A j \in (i + 1)..Len(Script[p]) : wrote[p][j] = {}
    /\ work[p].threw => \A i \in DOMAIN Script[p] : wrote[p][i] = {}
    /\ changed[p] = UNION {wrote[p][i] : i \in DOMAIN Script[p]}

(* A patch destroys an edit of another writer only when that edit came after *)
(* the patch had compared the file with its snapshot.                        *)
OnlyLateEditsAreLost == missed = {}

(* Patches that run at the same time publish independently: none fails       *)
(* because another one took its temporary file.                              *)
PublishesAlone == \A p \in Patches : ~work[p].robbed
=============================================================================
