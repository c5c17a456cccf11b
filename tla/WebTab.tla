------------------------------- MODULE WebTab -------------------------------
(***************************************************************************)
(* A tab of the browser on one page: its views of the indexer, its form,   *)
(* the wallet, and a visitor who clicks.  The page is chosen in Init.      *)
(***************************************************************************)
EXTENDS DataView, WebForms, FiniteSetsExt

CONSTANTS Pages,      \* the pages tried
          WalletPages, \* those tried with a wallet that changes
          MaxClicks,  \* how often the visitor of each clicks
          PageSize,   \* rows of a page of a list
          Search,     \* what is typed into the search bar
          Selected,   \* topics of the audit log
          InitialRows, MaxRows,
          Faults      \* whether requests may fail

ASSUME WebAssumption ==
    /\ PageSize \in 1 .. 200
    /\ InitialRows \in Nat /\ MaxRows \in Nat /\ MaxClicks \in [Pages -> Nat]
    /\ "" \in Search /\ "" \notin Input /\ "" \notin Selected /\ Faults \in BOOLEAN

\* A list that can be searched is the first view of its page, and uses the hook.
ViewsAreInOrder(p) ==
    /\ p.views # <<>> => 1 \in DOMAIN p.views
    /\ \A v \in DOMAIN p.views :
          p.views[v].key = "search" =>
              v = 1 /\ p.views[v].hook = "paginated" /\ p.views[v].route \in Lists

\* A form sends from the step before its last, and loads at most one thing before that.
FormIsInOrder(p) ==
    LET handlers == p.form.handlers
        Of(kind) == {h \in DOMAIN handlers : handlers[h].does = kind}
    IN /\ p.form.last \in Nat
       /\ \A h \in Of("transact") : handlers[h].flag = "status" /\ handlers[h].at + 1 = p.form.last
       /\ \A h \in Of("query") \cup Of("advance") : handlers[h].flag # "status"
       /\ \A h \in Of("advance") : handlers[h].at = 0 /\ handlers[h].flag # "none"
       /\ Of("advance") # {} => p.form.last > 1
       /\ \A g, h \in Of("advance") : g = h

ASSUME PagesAssumption == \A p \in Pages : ViewsAreInOrder(p) /\ FormIsInOrder(p)

VARIABLES offset, search,  \* of a list
          topic,           \* of the audit log
          known, seen      \* rows when this walk through it began, and rows shown since

listVars == <<offset, search, topic, known, seen>>
viewVars == <<rows, flights, view>>
vars     == <<formVars, walletVars, listVars, viewVars>>

Views == DOMAIN page.views
Listed == page.views # <<>> /\ page.views[1].key = "search"

UsesWallet == page \in WalletPages

Init ==
    /\ page \in Pages
    /\ FormInit
    /\ IF UsesWallet THEN WalletInit ELSE Connected
    /\ clicks = 0
    /\ rows = InitialRows /\ flights = {}
    /\ view = [v \in Views |-> Mounted(page.views[v].hook)]
    /\ offset = 0 /\ search = "" /\ topic = ""
    /\ known = rows /\ seen = {}

-----------------------------------------------------------------------------
(* Views *)

\* The dependencies of an effect: [offset, search], [uid], [address], [selectedTopic], ...
Key(v) ==
    LET key == page.views[v].key
    IN CASE key = "search"  -> search
         [] key = "address" -> IF address = None THEN "" ELSE address
         [] key = "topic"   -> topic
         [] key = "input"   -> input
         [] key = "schemaUid" -> IF view[1].shown.request = Nothing THEN "" ELSE "schema"
         [] OTHER -> key

\* fetcher(), with the page's query
Wanted(v) == [route |-> page.views[v].route, of |-> Key(v),
              offset |-> IF page.views[v].key = "search" THEN offset ELSE 0]
Requests == [v \in Views |-> Wanted(v)]

\* The effects whose dependencies changed.  loadMessages returns at once when no topic is
\* selected.
Due == {v \in Views : /\ page.views[v].hook # "click"
                      /\ Wanted(v) # view[v].asked
                      /\ page.views[v].route = "/hcs/messages/:topicId" => topic # ""}

Effects == /\ Due # {}
           /\ Fetch(Due, Requests)
           /\ UNCHANGED <<formVars, walletVars, listVars>>

\* Without an address, or a first answer, the promise of a hook is resolved on the spot.
Immediate(f) ==
    /\ page.views[f.view].hook \in {"single", "paginated"}
    /\ page.views[f.view].key \in {"address", "schemaUid"} /\ f.request.of = ""

\* What the visitor has seen of a list; an answer to the search before does not count.
Follow(f) == seen' = IF \/ Cancelled(f) \/ page.views[f.view].key # "search"
                        \/ f.request # Wanted(f.view)
                     THEN seen ELSE seen \cup Page(f.top, PageSize)

Arrives(f) ==
    /\ f \in flights
    /\ \E ok \in BOOLEAN :
        /\ IF Immediate(f) THEN ok = (page.views[f.view].hook = "paginated")
           ELSE (ok /\ Listed => Served(f)) /\ (Faults \/ ok)
        /\ IF page.views[f.view].hook \in {"single", "paginated"} THEN UseIndexer(f, ok)
           ELSE OwnFetch(f, ok, page.views[f.view].hook = "click")
        /\ IF ok THEN Follow(f) ELSE seen' = seen
        /\ IF ok /\ f.request.route = "/hcs/topics" /\ f.request.of = ""
           THEN topic' \in Selected ELSE topic' = topic
    /\ UNCHANGED <<formVars, walletVars, offset, search, known>>

\* Of other lists than the one that is walked through the steps are left out.
Serve(f) == /\ f \in flights /\ Listed
            /\ FindMany(f) \/ Count(f)
            /\ UNCHANGED <<formVars, walletVars, listVars, view>>

-----------------------------------------------------------------------------
(* The visitor at a list *)

\* React runs the effects of one click before it handles the next.
Clicks == Due = {} /\ clicks < MaxClicks[page] /\ clicks' = clicks + 1
UnchangedForm == UNCHANGED <<page, formState, busy, result, jobs, ledger>>

\* The table and its Pagination are shown when the view is not loading or in error.
IsShown(v) == ~view[v].loading /\ ~view[v].error /\ view[v].total # Unread
HasNext == offset + PageSize < view[1].total

Turn == /\ Listed /\ IsShown(1) /\ Clicks
        /\ \/ HasNext /\ offset' = offset + PageSize
           \/ offset > 0 /\ offset' = IF offset > PageSize THEN offset - PageSize ELSE 0
        /\ UnchangedForm
        /\ UNCHANGED <<walletVars, viewVars, search, topic, known, seen>>

\* A fault for the runs to find: a new search keeps the offset.
HandleSearch_KeepsOffset(query) ==
    /\ Listed /\ Clicks
    /\ search' = query /\ offset' = offset
    /\ IF query # search THEN known' = rows /\ seen' = {} ELSE UNCHANGED <<known, seen>>
    /\ UnchangedForm
    /\ UNCHANGED <<walletVars, viewVars, topic>>

\* A new search starts a new walk; submitting the same one again turns to the first page.
HandleSearch(query) ==
    /\ Listed /\ Clicks
    /\ search' = query /\ offset' = 0
    /\ IF query # search THEN known' = rows /\ seen' = {} ELSE UNCHANGED <<known, seen>>
    /\ UnchangedForm
    /\ UNCHANGED <<walletVars, viewVars, topic>>

\* The first view of a page offers to try again when it is in error; functions of a page
\* have a button that is disabled while they load.
Refetch(v) ==
    /\ Clicks
    /\ \/ page.kind = "explorer" /\ v = 1 /\ page.views[v].hook # "effect" /\ view[v].error
       \/ page.views[v].route = "/hcs/messages/:topicId" /\ topic # "" /\ ~view[v].loading
       \/ page.kind = "sandbox" /\ Visible /\ step = 0 /\ ~view[v].loading /\ Key(v) # ""
    /\ Fetch({v}, Requests)
    /\ UnchangedForm
    /\ UNCHANGED <<walletVars, listVars>>

SelectTopic(t) ==
    /\ topic # "" /\ t # topic /\ Clicks
    /\ topic' = t
    /\ UnchangedForm
    /\ UNCHANGED <<walletVars, viewVars, offset, search, known, seen>>

-----------------------------------------------------------------------------
(* The rest of the page *)

\* A form that has shown something loads it again after its transaction.
Reload == IF Views = {} \/ status' = "error" THEN UNCHANGED viewVars ELSE Fetch({1}, Requests)

UseForm == /\ Clicks
           /\ \/ \E x \in Input : Edit(x)
              \/ Forward \/ Back \/ Reset
              \/ \E h \in Handlers : Click(h)
           /\ UNCHANGED <<page, walletVars, listVars, viewVars>>

Handle(j) == /\ \/ (Asked(j) \/ Sign(j)) /\ UNCHANGED viewVars
                \/ Receipt(j) /\ Reload
             /\ UNCHANGED <<page, clicks, walletVars, listVars>>

Decides(t) == Consensus(t) /\ UNCHANGED <<page, clicks, walletVars, listVars, viewVars>>

UseWallet == /\ UsesWallet /\ Clicks
             /\ \/ Connect \/ Switch
                \/ page.kind # "profile" /\ Disconnect
                \/ \E next \in [account : WalletAccount \cup {None}, chain : Chain] :
                      SwitchedByUser(next)
             /\ UnchangedForm
             /\ UNCHANGED <<listVars, viewVars>>

WalletStep == /\ UsesWallet
              /\ Deliver \/ \E r \in requests : WalletAnswers(r)
              /\ UNCHANGED <<formVars, listVars, viewVars>>

NewRow == /\ Listed /\ rows < MaxRows /\ Indexed
          /\ UNCHANGED <<formVars, walletVars, listVars, view>>

\* Nothing comes between a promise that is resolved on the spot and its handlers.
Urgent == {f \in flights : Immediate(f)}

Next == \/ \E f \in flights : (f \in Urgent \/ Urgent = {}) /\ (Arrives(f) \/ Serve(f))
        \/ /\ Urgent = {}
           /\ \/ Effects \/ \E v \in Views : Refetch(v)
              \/ Turn \/ \E q \in Search : HandleSearch(q)
              \/ \E t \in Selected : SelectTopic(t)
              \/ UseForm \/ \E j \in jobs : Handle(j)
              \/ \E t \in ledger : Decides(t)
              \/ UseWallet \/ WalletStep \/ NewRow

\* Requests end, and visitors answer their wallet; they click when they like.  A form's
\* status also rests on tx.wait(), which has no timeout: that the receipt comes is assumed.
Fairness == /\ WF_vars(Effects)
            /\ WF_vars(\E f \in flights : Arrives(f) \/ Serve(f))
            /\ WF_vars(\E j \in jobs : Handle(j))
            /\ WF_vars(\E t \in ledger : Decides(t))
            /\ WF_vars(WalletStep)

Spec == Init /\ [][Next]_vars /\ Fairness

-----------------------------------------------------------------------------
\* The types of the variables; no flag is set without a handler that will reset it.
WebTypeOK ==
    /\ step \in 0 .. form.last /\ input \in Input \cup {""}
    /\ status \in {"idle", "loading", "success", "error"}
    /\ status = "loading" => \E j \in jobs : j.stage \in {"signer", "receipt"}
    /\ \A flag \in busy : \E j \in jobs : form.handlers[j.handler].flag = flag
    /\ \A j \in jobs : j.stage = "receipt" => \E t \in ledger : t.number = j.number
    /\ \A f \in flights : f.view \in Views /\ f.number <= view[f.view].number
    /\ \A v \in Views : view[v].loading /\ view[v].number > 0 => \E f \in flights : f.view = v
    /\ address \in WalletAccount \cup {None} /\ chainId \in Chain \cup {None}
    /\ seen \subseteq 1 .. rows /\ known \in 0 .. rows

\* Whatever the visitor asks for while answers are under way, a view that is fetched with
\* a hook shows the answer to its latest request when it is not busy.
Hooked == {v \in Views : page.views[v].hook \in {"single", "paginated"}}
Phase(v) == IF view[v].loading THEN "busy" ELSE IF view[v].error THEN "error" ELSE "done"

Latest == INSTANCE LatestAnswer WITH
    views <- Hooked,
    asked <- [v \in Hooked |-> [request |-> view[v].asked, number |-> view[v].number]],
    phase <- [v \in Hooked |-> Phase(v)],
    shown <- [v \in Hooked |-> view[v].shown]

ImplementsLatestAnswer == Latest!Spec

\* Who turns the pages of a list until Next is disabled has seen every row that was there
\* at the start, although rows are added meanwhile and push others to later pages.  A
\* last page whose rows are newer than its total does not count.
WalkMissesNothing ==
    (/\ Listed /\ IsShown(1) /\ view[1].asked = Wanted(1) /\ ~HasNext
     /\ view[1].top = 0 \/ view[1].top + offset <= view[1].total)
        => 1 .. known \subseteq seen

\* Nothing on a page is busy for ever.
SpinnersStop ==
    <>[](/\ \A v \in Views : ~view[v].loading
         /\ status # "loading" /\ busy = {} /\ ~connecting)
=============================================================================
