----------------------------- MODULE MCDocuments -----------------------------
(* What the extensions write: the memory of a session file that is resumed,  *)
(* and the files of two patches.  They share no state: the initial state     *)
(* chooses one, and the other stays as it is.                                *)
EXTENDS Consolidation, PatchExecutor, TLC

CONSTANTS o1, r1, r2, p1, p2, a, b, c, e1, e2, f1, base

VARIABLE part
documentVars == <<part, memoryVars, patchVars>>

MCPast == << [Blank EXCEPT !.branch = {1}],
             [Blank EXCEPT !.kind = "observed", !.branch = {1, 2}, !.ids = {o1},
                           !.covers = 1, !.shown = {1}],
             [Blank EXCEPT !.kind = "reflected", !.branch = {1, 2, 3}, !.ids = {r1}] >>

Update(f, e)  == [kind |-> "update", path |-> f, to |-> Nowhere, edit |-> e]
Move(f, g, e) == [kind |-> "update", path |-> f, to |-> g, edit |-> e]
Add(f, e)     == [kind |-> "add", path |-> f, to |-> Nowhere, edit |-> e]
Delete(f)     == [kind |-> "delete", path |-> f, to |-> Nowhere, edit |-> Nowhere]

MCPatches  == {p1, p2}
MCPaths    == {a, b, c}
MCScript   == p1 :> <<Update(c, e1), Delete(c), Move(a, b, e1)>>   \* the first two conflict
           @@ p2 :> <<Delete(a), Add(a, e2), Update(b, e2)>>
MCOriginal == [f \in MCPaths |-> IF f = a THEN {base} ELSE Missing]
MCForeign  == {f1}

DocumentsInit == MemoryInit /\ PatchInit /\ part \in {"memory", "patch"}
DocumentsNext == \/ part = "memory" /\ MemoryNext /\ UNCHANGED <<part, patchVars>>
                 \/ part = "patch"  /\ PatchNext  /\ UNCHANGED <<part, memoryVars>>
DocumentsSpec == DocumentsInit /\ [][DocumentsNext]_documentVars
=============================================================================
