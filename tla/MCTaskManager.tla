--------------------------- MODULE MCTaskManager ---------------------------
(* TLC instance of TaskManager: two buffers, one of them with two cells, so  *)
(* that regions overlap only in part and a task can depend on another one    *)
(* through either buffer.                                                    *)
EXTENDS TaskManager

MCBuffer == {"a", "b"}
MCCell == {<<"a", 1>>, <<"a", 2>>, <<"b", 1>>}
MCBufferOf == [c \in MCCell |-> c[1]]

\* Accesses with the given cells in the given modes, nothing in the others.
Access(m1, s1, m2, s2) ==
    [m \in Mode |-> (IF m = m1 THEN s1 ELSE {}) \cup (IF m = m2 THEN s2 ELSE {})]

MCCommandGroup ==
    LET a1 == {<<"a", 1>>}
        a2 == {<<"a", 2>>}
        b  == {<<"b", 1>>}
    IN  {Access("read", r, "read", r) : r \in {a1, a1 \cup a2, a2 \cup b}}
        \cup {Access("discard_write", w, "discard_write", w) : w \in {a1, a1 \cup a2, b}}
        \cup {Access("read_write", a1, "read", b), Access("read_write", a1 \cup a2, "write", b),
              Access("discard_write", a1, "read", a2), Access("discard_write", b, "read", a1),
              Access("discard_write", a2, "read", a2)}
=============================================================================
