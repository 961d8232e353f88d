----------------------------- MODULE MCJobQueue -----------------------------
(* Small instances of JobQueue: one organization, two slots in two           *)
(* processes, three jobs; either two rows of one logical job beside a job of *)
(* the collection, or three unrelated jobs.                                  *)
EXTENDS JobQueue, TLC

CONSTANTS j1, j2, j3, j4, s1, s2, w1, w2, o1, k1

VARIABLE missing \* the job that is never enqueued

\* j1 and j2 are two rows of one periodic job, j3 is a job of the collection, j4 another.
MCOrgOf    == [j \in Jobs |-> o1]
MCWorkerOf == [s \in Slots |-> IF s = s1 THEN w1 ELSE w2]
MCKeyOf    == [j \in Jobs |-> IF j \in {j1, j2} THEN k1 ELSE NoKey]
MCPriority == [j \in Jobs |-> IF j \in {j1, j2} THEN 20 ELSE 100]

\* Without j4 two rows share a key; without j1 or j2 no two jobs have to do with each other.
MCInit == Init /\ missing \in Jobs \ {j3}
MCNext == Next /\ job'[missing].status = "absent" /\ UNCHANGED missing
MCSpec == MCInit /\ [][MCNext]_<<missing, vars>>

\* The slots with their processes can be exchanged, and so can the rows of one job.
SlotSwap   == [x \in {s1, s2, w1, w2} |-> CASE x = s1 -> s2 [] x = s2 -> s1
                                            [] x = w1 -> w2 [] x = w2 -> w1]
SlotPerms  == {[x \in {s1, s2, w1, w2} |-> x], SlotSwap}
MCSymmetry == {p @@ q : p \in Permutations({j1, j2}), q \in SlotPerms}
=============================================================================
