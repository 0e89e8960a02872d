--------------------------- MODULE MCStockStrategy ---------------------------
(* Small runs of StockStrategy. *)
EXTENDS StockStrategy

CONSTANTS A, B

\* A bonus share per two and a dividend: paid on a day without a session, listed after
\* the delisting.
Mixed == [symbol |-> A, record |-> 1, ex |-> 2, pay |-> 3, listing |-> 6, bonus |-> 1, per |-> 2, cash |-> 1]
\* Registered on the other's ex-date, distributed after the delisting on a day without a
\* session; the dividend may use up the last price.
Late  == [symbol |-> A, record |-> 2, ex |-> 5, pay |-> 5, listing |-> 9, bonus |-> 1, per |-> 2, cash |-> 4]

Distributions == {Mixed, Late}

Moving == {[open |-> o, close |-> c, up |-> FALSE, down |-> FALSE] : o \in {4, 6}, c \in {4, 6}}
            \union {[open |-> 6, close |-> 6, up |-> TRUE, down |-> FALSE], [open |-> 4, close |-> 4, up |-> FALSE, down |-> TRUE]}
Still  == {[open |-> 4, close |-> 4, up |-> FALSE, down |-> FALSE]}

ADelisted == [s \in Symbols |-> IF s = A THEN 4 ELSE 99]

LotOrders == {[symbol |-> s, qty |-> q] : s \in Symbols, q \in {2, -2, -3}}
UnitOrders == {[symbol |-> s, qty |-> q] : s \in Symbols, q \in {1, -1}}
=============================================================================
