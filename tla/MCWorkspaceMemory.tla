--------------------------- MODULE MCWorkspaceMemory ---------------------------
(***************************************************************************)
(* Instances of WorkspaceMemory for TLC.                                   *)
(***************************************************************************)
EXTENDS WorkspaceMemory, TLC

CONSTANTS case, caseLaw

(* Two slugs, the first a prefix of the second; seconds 0 and 1 on one day *)
(* and any later second on the next.                                       *)
MCPrefixOf == {<<s, t>> \in Slug \X Slug : s = t \/ (s = case /\ t = caseLaw)}

MCDayOf == [t \in Second |-> IF t <= 1 THEN 1 ELSE 2]

(* Scripts that run at once are all start_session.py.                      *)
OnlyStartsOverlap ==
    \A p, q \in Proc :
        pc[p] # "idle" /\ pc[q] # "idle" /\ p # q => job[p].cmd = "start"

ProcSymmetry == Permutations(Proc)

=============================================================================
