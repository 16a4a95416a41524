----------------------------- MODULE BlockStore -----------------------------
(***************************************************************************)
(* What bread(), brelse() and the buffer cache promise their callers: one  *)
(* copy of every block, which a thread reads and changes only while it     *)
(* alone holds the block, and which nothing else ever changes.             *)
(***************************************************************************)
CONSTANTS Threads, Blocks, Data, NoOne

VARIABLES content, holder

Init == content \in [Blocks -> Data] /\ holder = [k \in Blocks |-> NoOne]

Take(t, k) ==
    /\ holder[k] = NoOne
    /\ holder' = [holder EXCEPT ![k] = t]
    /\ UNCHANGED content

Change(t, k) ==
    /\ holder[k] = t
    /\ \E v \in Data : content' = [content EXCEPT ![k] = v]
    /\ UNCHANGED holder

Give(t, k) ==
    /\ holder[k] = t
    /\ holder' = [holder EXCEPT ![k] = NoOne]
    /\ UNCHANGED content

Next == \E t \in Threads, k \in Blocks : Take(t, k) \/ Change(t, k) \/ Give(t, k)

Spec == Init /\ [][Next]_<<content, holder>>
=============================================================================
