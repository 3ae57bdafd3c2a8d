------------------------------- MODULE MCCoro -------------------------------
(* Two workers, one path-finding coroutine, and another job of the type of *)
(* the path-finding job (newOrderBookDB posts one), which runs one at a    *)
(* time.                                                                   *)
EXTENDS Coro

CONSTANTS c1, first, path, again, a

MCTypeOf == [j \in {first, path, again, a} |-> IF j \in {path, a} THEN 1 ELSE 2]
MCLimit == [t \in {1, 2} |-> t]
MCFirst == [c \in {c1} |-> first]
MCPath == [c \in {c1} |-> path]
MCAgain == [c \in {c1} |-> again]
=============================================================================
