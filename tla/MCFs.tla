-------------------------------- MODULE MCFs --------------------------------
(***************************************************************************)
(* Fs with two threads, three inodes and few blocks.                       *)
(***************************************************************************)
EXTENDS Fs

Call(op, path) == [op |-> op, path |-> path, new |-> <<>>]

CONSTANTS t1, t2

SmallCalls == [t \in {t1, t2} |->
    {Call("unlink", <<"b">>)} \cup
    (IF t = t1
     THEN {Call("create", <<"b">>),
           Call("open", <<"/", "b">>),
           Call(T_DIR, <<"/", "a">>),
           Call("chdir", <<"a">>),
           Call("chdir", <<"..">>),
           Call("open", <<"/">>),
           [op |-> "link", path |-> <<"/", "b">>, new |-> <<"/", "a">>]}
     ELSE {Call("create", <<"/", "a", "b">>),
           Call("unlink", <<"/", "a">>),
           Call("unlink", <<"/", "a", "b">>),
           Call("unlink", <<"/">>),
           Call(T_DEVICE, <<"b">>)})]
=============================================================================
