------------------------------ MODULE MCSafetyScan ------------------------------
EXTENDS SafetyScan, TLC

CONSTANTS note, log, lab, fork

At(head, index, tree) == [head |-> head, index |-> index, tree |-> tree]

\* A path is ignored or new, or differs in the worktree.
MCEntries == {At(Absent, Absent, "opaque"), At("plain", "plain", "marked")}

To(repo) == [repo |-> repo, plain |-> TRUE]

\* Two URLs of one repository, one of each, and one with credentials.
MCOrigins ==
    {[fetch |-> {To(lab)}, push |-> {To(lab)}],
     [fetch |-> {To(lab)}, push |-> {To(fork)}],
     [fetch |-> {[repo |-> lab, plain |-> FALSE]}, push |-> {To(lab)}]}

Lab(visibility) == [repo |-> lab, visibility |-> visibility]

\* The lab is public, private or has become the fork.
MCHosts ==
    {(lab :> Lab("PUBLIC")) @@ (fork :> Absent),
     (lab :> Lab("PRIVATE")) @@ (fork :> Absent),
     [r \in Repo |-> [repo |-> fork, visibility |-> "PUBLIC"]]}
=============================================================================
