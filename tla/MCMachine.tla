----------------------------- MODULE MCMachine -----------------------------
(***************************************************************************)
(* Every driver takes over two units, each with a wait that may run out.   *)
(* Rings of two and three entries, so that every index wraps; two or three *)
(* calls with up to two timeouts and an error of the device.  Two          *)
(* processes, one with a thread; two spaces of futexes; three services; a   *)
(* screen that holds one window and half of the next.                      *)
(***************************************************************************)
EXTENDS Machine

TheBlkBudget == [calls |-> 3, timeouts |-> 2, errors |-> 1]
TheNetBudget == [sends |-> 3, arrivals |-> 4, timeouts |-> 2]
TheP9Budget == [calls |-> 3, timeouts |-> 2, errors |-> 1]
ThePaths == {<<>>, <<"a">>, <<"x">>, <<"a", "b", "c">>, <<"a", "x">>}
ThePieces == <<<<"dot", "first">>, <<"second">>>>
TheSpaceOf == [t \in {"s1", "s2", "s3"} |-> IF t = "s3" THEN "c2" ELSE "c1"]
TheLeaders == [t \in {"r1", "r2"} |-> "r1"]
TheServices == <<[name |-> "gui", restart |-> TRUE], [name |-> "httpd", restart |-> TRUE],
                 [name |-> "shell", restart |-> FALSE]>>
TheExtents == {<<0, 6>>, <<1, 2>>, <<4, 5>>, <<3, 7>>}
=============================================================================
