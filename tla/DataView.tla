------------------------------ MODULE DataView ------------------------------
(***************************************************************************)
(* How the pages fetch: the hooks useIndexer and usePaginatedIndexer, and  *)
(* the effects that some pages write themselves, whose answers are not     *)
(* cancelled.  A view of a page is one use of either.                      *)
(***************************************************************************)
EXTENDS RestApi, FiniteSets

VARIABLES view  \* the state of each view

Nothing == [route |-> "nothing", of |-> "nothing", offset |-> 0]

\* Before the first effect.  Only the hooks start with loading.
Mounted(hook) == [asked |-> Nothing, number |-> 0,
                  loading |-> hook \in {"single", "paginated"},
                  error |-> FALSE, shown |-> [request |-> Nothing, number |-> 0],
                  top |-> Unread, total |-> Unread]

\* The effects of some views, for a request each: what ran before is cancelled by the
\* change of number.
Fetch(vs, request) ==
    /\ view' = [v \in DOMAIN view |->
                  IF v \in vs THEN [view[v] EXCEPT !.asked = request[v], !.number = @ + 1,
                                                   !.loading = TRUE, !.error = FALSE]
                  ELSE view[v]]
    /\ flights' = flights \cup {Flight(v, request[v], view[v].number + 1) : v \in vs}
    /\ UNCHANGED rows

Cancelled(f) == f.number # view[f.view].number

\* setData, and setPagination where there is one
Shows(f, w) == [w EXCEPT !.shown = [request |-> f.request, number |-> f.number],
                         !.top = f.top, !.total = f.total]

\* A fault for the runs to find: the hook does not look at cancelled.
UseIndexer_Uncancelled(f, ok) ==
    /\ flights' = flights \ {f}
    /\ view' = [view EXCEPT ![f.view] =
                  [(IF ok THEN Shows(f, @) ELSE @) EXCEPT !.loading = FALSE, !.error = ~ok]]
    /\ UNCHANGED rows

\* A fault for the runs to find: loading is only reset after a success.
UseIndexer_NoFinally(f, ok) ==
    /\ flights' = flights \ {f}
    /\ view' = IF Cancelled(f) THEN view
               ELSE [view EXCEPT ![f.view] =
                       [(IF ok THEN Shows(f, @) ELSE @) EXCEPT !.loading = ~ok, !.error = ~ok]]
    /\ UNCHANGED rows

\* The answer to a hook: then, catch and finally.
UseIndexer(f, ok) ==
    /\ flights' = flights \ {f}
    /\ view' = IF Cancelled(f) THEN view
               ELSE [view EXCEPT ![f.view] =
                       [(IF ok THEN Shows(f, @) ELSE @) EXCEPT !.loading = FALSE, !.error = ~ok]]
    /\ UNCHANGED rows

\* The answer to a function of the page: after an error nothing changes but loading, or
\* nothing is shown any more.
OwnFetch(f, ok, clears) ==
    /\ flights' = flights \ {f}
    /\ view' = [view EXCEPT ![f.view] =
                  [(IF ok THEN Shows(f, @)
                    ELSE IF clears THEN [@ EXCEPT !.shown = Mounted("effect").shown]
                    ELSE @) EXCEPT !.loading = FALSE]]
    /\ UNCHANGED rows
=============================================================================
