---------------------------- MODULE MCLoadedTable ----------------------------
(* Two registers of two bits.  One set of files is right: an item of one bit  *)
(* and one of the whole register, included at three places, one of them two   *)
(* files deep and past the last address.  The others have one fault each.     *)
EXTENDS LoadedTable

MCPart  == {"a", "b", "c", "run", "A", "B", "C", "RUN"}
MCUpper == [p \in MCPart |-> CASE p = "a" -> "A" [] p = "b" -> "B" [] p = "c" -> "C"
                               [] p = "run" -> "RUN" [] OTHER -> p]

Short(n)       == [kind |-> "short", name |-> n, addr |-> 0, mask |-> {}, mode |-> {},
                   malformed |-> FALSE, file |-> "top", long |-> FALSE]
ItemLine(n, a, m)  == [Short(n) EXCEPT !.kind = "item", !.addr = a, !.mask = m, !.mode = {"r", "w"}]
InclLine(n, a, f)  == [Short(n) EXCEPT !.kind = "include", !.addr = a, !.file = f]

Blank == [Short(<<>>) EXCEPT !.kind = "blank"]
Good == [top  |-> <<Blank, Short(<<"c">>), InclLine(<<"a">>, 0, "fe"),
                    InclLine(<<"b">>, 1, "fe"), InclLine(<<"c">>, 1, "deep")>>,
         fe   |-> <<ItemLine(<<"run">>, 0, {1}), ItemLine(<<>>, 0, Bit)>>,
         deep |-> <<InclLine(<<"b">>, 1, "fe")>>]
Put(f, l) == [Good EXCEPT ![f] = Append(@, l)]

MCDisks == {Good,
            Put("fe", [ItemLine(<<"b">>, 1, Bit) EXCEPT !.long = TRUE]),
            Put("fe", [ItemLine(<<"b">>, 1, Bit) EXCEPT !.malformed = TRUE]),
            Put("fe", [ItemLine(<<"b">>, 1, Bit) EXCEPT !.mode = {"r", "w", "a"}]),
            Put("fe", ItemLine(<<"RUN">>, 1, {2})),
            Put("top", Short(<<>>)),
            Put("top", ItemLine(<<"A", "RUN">>, 1, {2})),
            Put("deep", InclLine(<<"c">>, 0, "deep")),
            Put("deep", InclLine(<<"c">>, 0, "gone")),
            [fe |-> <<>>]}

NameOp(k, n, vs) == [kind |-> k, name |-> n, vals |-> vs]
MCRequests == {NameOp("read", <<"A", "RUN">>, <<>>), NameOp("write", <<"A", "RUN">>, <<{2}>>),
            NameOp("block", <<"B", "RUN">>, <<{1}>>), NameOp("block", <<"B">>, <<{1}, {2}>>),
            NameOp("read", <<"a", "RUN">>, <<>>)}
MCOps == {[kind |-> c.kind, addr |-> a, mask |-> m, vals |-> c.vals] :
            c \in MCRequests, a \in {0, 1}, m \in SUBSET {1, 2}}
=============================================================================
