------------------------------ MODULE HashChain ------------------------------
(***************************************************************************)
(* The hash chain of an asset's events: hashchain.py and the two           *)
(* algorithms of event_stream.py that depend on it, finding the tail to    *)
(* append to and ordering rows that came without an order.                 *)
(*                                                                         *)
(* SHA-256 is taken to be injective, so the hash of an event is the        *)
(* sequence of payloads that went into it; equal payloads after equal      *)
(* hashes give equal hashes, as in the code.  e maps the ids of events to  *)
(* their rows, of which only prev and self matter here.                    *)
(***************************************************************************)
EXTENDS Naturals, Sequences, FiniteSets

ZeroHash == <<>>
SelfHash(prev, payload) == Append(prev, payload)

\* What the next event may be chained to, given the rows read in some order:
\* the last row that is nobody's predecessor.
\* Faulty variant: the latest row by time, which does not tell the rows of one
\* transaction apart.
LatestHashes(e, rows) ==
    IF rows = {} THEN {ZeroHash}
    ELSE {e[n].self : n \in {m \in rows : \A k \in rows : e[k].ts <= e[m].ts}}
TailHashes(e, rows) ==
    IF rows = {} THEN {ZeroHash}
    ELSE {e[n].self : n \in rows} \ {e[n].prev : n \in rows}

\* The row by_prev has for a hash: of rows with the same prev the last one read;
\* 0 if there is none.
ByPrev(e, rows, hash) ==
    LET next == {i \in DOMAIN rows : e[rows[i]].prev = hash}
    IN IF next = {} THEN 0 ELSE rows[CHOOSE i \in next : \A j \in next : j <= i]

\* The first row whose predecessor was not read.
\* Faulty variant: simply the first row.
FirstRow(e, rows) == rows[1]
ChainStart(e, rows) ==
    LET heads == {i \in DOMAIN rows : \A j \in DOMAIN rows : e[rows[i]].prev # e[rows[j]].self}
    IN IF heads = {} THEN rows[1] ELSE rows[CHOOSE i \in heads : \A j \in heads : i <= j]

\* Following the links from the start; 0 once there is none.
Walk(e, rows) ==
    LET walk[k \in DOMAIN rows] ==
            IF k = 1 THEN ChainStart(e, rows)
            ELSE IF walk[k - 1] = 0 THEN 0
            ELSE ByPrev(e, rows, e[walk[k - 1]].self)
    IN walk

\* What is at the given places, from the first to the last of them.
AtPlaces(rows, places) ==
    [k \in 1..Cardinality(places) |->
        rows[CHOOSE i \in places : Cardinality({j \in places : j < i}) = k - 1]]

\* _chain_order: follow the links from the start, then the rows that were not
\* reached in the order they were read.  Hashes grow along the links, so no row
\* is met twice.
ChainOrder(e, rows) ==
    LET walk == Walk(e, rows)
        reached == {k \in DOMAIN rows : walk[k] # 0}
        others == {i \in DOMAIN rows : \A k \in reached : rows[i] # walk[k]}
    IN IF Len(rows) < 2 THEN rows
       ELSE AtPlaces(walk, reached) \o AtPlaces(rows, others)

\* The order the rows were chained in.
Linked(e, rows) ==
    \A i \in 1..(Len(rows) - 1) : e[rows[i + 1]].prev = e[rows[i]].self

=============================================================================
