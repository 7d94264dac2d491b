----------------------------- MODULE MCThreads ------------------------------
(* Instances of Threads: one thread with every call, and two threads.      *)
EXTENDS Threads

CONSTANTS t1, t2

Rec(key, val) == [key |-> key, val |-> val]

\* A node with a key and a value, one without a key whose value ends in a
\* zero byte, and one with neither.
MCPayloads == {Rec(<<1>>, <<2>>), Rec(<<>>, <<2, 0>>), Rec(<<>>, <<>>)}
MCOnePayload == {Rec(<<1>>, <<2>>)}
MCKeyOnly == {Rec(<<1>>, <<>>)}

MCAlone == {t1} \X {"write", "read", "delete"}
MCWriters == {t1, t2} \X {"write"}
MCReaders == {<<t1, "write">>} \cup {t1, t2} \X {"read"}
=============================================================================
