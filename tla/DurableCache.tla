---------------------------- MODULE DurableCache ----------------------------
(***************************************************************************)
(* What the SSD tier of the prefix cache promises about the blocks it      *)
(* offers, whatever its threads do: a block is offered only by the process *)
(* that wrote it or by one that found it saved, it may be withdrawn at any *)
(* moment, and saving never leaves out a block that is offered.            *)
(***************************************************************************)
CONSTANT Block

VARIABLES
    offered,   \* blocks a lookup may resume through
    writing,   \* blocks this process is writing
    saved      \* blocks the manifest on the SSD lists

avars == <<offered, writing, saved>>

Init == offered = {} /\ writing = {} /\ saved = {}

Write(h) == writing' = writing \cup {h} /\ UNCHANGED <<offered, saved>>

\* One write of h ends, well or badly, offering h or withdrawing it; h may have
\* been dropped meanwhile, and another write of it may remain.
Finish(h) ==
    /\ h \in writing
    /\ writing' = writing \/ writing' = writing \ {h}
    /\ offered' \in {offered, offered \cup {h}, offered \ {h}}
    /\ UNCHANGED saved

Withdraw(S) == offered' = offered \ S /\ UNCHANGED <<writing, saved>>

\* Saving never leaves out a block that is offered.
Save ==
    /\ offered \subseteq saved' /\ saved' \subseteq Block
    /\ UNCHANGED <<offered, writing>>

\* A new process, after a crash or a close, starts from what was saved ...
Recover == offered' \subseteq saved /\ writing' = {} /\ UNCHANGED saved

\* ... or from nothing, when what was saved no longer fits the model.
Discard == offered' = {} /\ writing' = {} /\ saved' = {}

Next ==
    \/ \E h \in Block : Write(h) \/ Finish(h)
    \/ \E S \in SUBSET Block : Withdraw(S)
    \/ Save \/ Recover \/ Discard

Spec == Init /\ [][Next]_avars

\* A block that stays offered is eventually saved.
EventuallySaved == \A h \in Block : h \in offered ~> (h \in saved \/ h \notin offered)

=============================================================================
