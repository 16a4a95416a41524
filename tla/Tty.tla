-------------------------------- MODULE Tty --------------------------------
(***************************************************************************)
(* What the console promises a program that reads it: typed characters     *)
(* form a line that can be edited until it is entered, and entered lines   *)
(* are read in order, each character once, at most one line at a time.     *)
(***************************************************************************)
EXTENDS Naturals, Sequences

CONSTANTS Size, Letters

VARIABLES entered, edit

Init == entered = <<>> /\ edit = <<>>

Type(c) ==
    /\ Len(entered) + Len(edit) < Size
    /\ IF c \in Letters /\ Len(entered) + Len(edit) + 1 < Size
       THEN edit' = Append(edit, c) /\ UNCHANGED entered
       ELSE entered' = Append(entered \o edit, c) /\ edit' = <<>>

Erase == edit # <<>> /\ edit' = SubSeq(edit, 1, Len(edit) - 1) /\ UNCHANGED entered

Kill == edit' = <<>> /\ UNCHANGED entered

\* a newline ends what one read takes, an end-of-file is taken alone
Take(k) ==
    /\ \A i \in 1 .. k : /\ entered[i] = "nl" => i = k
                         /\ entered[i] = "eof" => k = 1
    /\ entered' = SubSeq(entered, k + 1, Len(entered))
    /\ UNCHANGED edit

Next == \/ \E c \in Letters \cup {"nl", "eof"} : Type(c)
        \/ Erase
        \/ Kill
        \/ \E k \in 1 .. Len(entered) : Take(k)

Spec == Init /\ [][Next]_<<entered, edit>>
=============================================================================
