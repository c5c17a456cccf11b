------------------------------ MODULE RestApi ------------------------------
(***************************************************************************)
(* apps/indexer/src/api.ts as a page meets it.  A list is served in steps, *)
(* between which the indexer writes and other requests are served.  What   *)
(* look-ups by UID and by address fill in on the way is modelled in        *)
(* Indexer, or left out; to a page they are one answer or an error.        *)
(***************************************************************************)
EXTENDS Integers

VARIABLES rows,    \* rows of the table that is listed, numbered by createdAt
          flights  \* requests, from the fetch to the answer

Lists == {"/schemas", "/attestations", "/authorities"}

\* What becomes of request number n of a view.  found is Unread until findMany ends.
Unread == -1
Flight(v, request, n) ==
    [view |-> v, request |-> request, number |-> n, top |-> Unread, total |-> Unread]

\* The limit of the query string: 50 if there is none, and between 1 and 200.
Limit(limit) == IF limit = 0 THEN 50 ELSE IF limit < 1 THEN 1
                ELSE IF limit > 200 THEN 200 ELSE limit

\* orderBy createdAt desc, skip offset, take limit: the rows from number top downwards.
Page(top, limit) == {n \in 1 .. top : n > top - Limit(limit)}

Advance(f, g) == flights' = (flights \ {f}) \cup {g}

\* findMany and count are both started, and see the table at two moments.
FindMany(f) == /\ f.request.route \in Lists /\ f.top = Unread
               /\ Advance(f, [f EXCEPT !.top = IF rows > f.request.offset
                                               THEN rows - f.request.offset ELSE 0])
               /\ UNCHANGED rows

Count(f) == /\ f.request.route \in Lists /\ f.total = Unread
            /\ Advance(f, [f EXCEPT !.total = rows])
            /\ UNCHANGED rows

\* Promise.all
Served(f) == f.request.route \in Lists => f.top # Unread /\ f.total # Unread

\* The indexer adds a row.
Indexed == rows' = rows + 1 /\ UNCHANGED flights
============================================================================
