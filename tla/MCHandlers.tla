----------------------------- MODULE MCHandlers -----------------------------
(***************************************************************************)
(* Model values for Handlers: two requests, so that every writer and every *)
(* result can change hands; queries with at most one thing wrong; stations *)
(* whose lowest price comes first, last, twice, never, or is 0.            *)
(***************************************************************************)
EXTENDS Handlers, TLC

Symmetry == Permutations(Requests) \cup Permutations(Writers)

AllTypes == {"", "json", "html", "png"}
TextTypes == {"json", "html"}

Number(n) == [is |-> "number", at |-> n]
Odd(kind) == [is |-> kind]
Query(lat, lng, radius, fuel) ==
    [kind |-> "search", lat |-> lat, lng |-> lng, radius |-> radius, fuel |-> fuel]

Queries ==
    {Query(Number(2), Number(7), 0, fuel) : fuel \in {0, 1, 2}} \cup
    {Query(lat, Number(6), 5, 1) : lat \in {Odd("nan"), Odd("absent"), Number(1)}} \cup
    {Query(Number(3), lng, 5, 1) : lng \in {Odd("inf"), Odd("garbage"), Number(8)}} \cup
    {Query(Number(3), Number(6), 51, 1)}

Offer(fuel, price, name) == [fuel |-> fuel, price |-> price, name |-> name]
SomeOffers ==
    {<<>>,
     <<Offer(1, 2, "a"), Offer(1, 1, "b"), Offer(2, 1, "c")>>,
     <<Offer(2, 1, "c"), Offer(1, 1, "a"), Offer(1, 1, "b")>>,
     <<Offer(1, 1, "a"), Offer(1, 0, "b"), Offer(1, 2, "c")>>}
=============================================================================
