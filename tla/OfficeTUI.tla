------------------------------ MODULE OfficeTUI ------------------------------
(***************************************************************************)
(* The model of the terminal UI (cmd/office): what Update does with a key  *)
(* and with an answer, for the list, its table, its toolbar and the detail *)
(* pane, with the requests that are under way.                             *)
(*                                                                         *)
(* Bubble Tea runs Update for one message at a time, but every command runs*)
(* in a goroutine of its own, so answers arrive in any order.  A panic in  *)
(* Update ends the program (crashed).                                      *)
(***************************************************************************)
EXTENDS Integers, Sequences, FiniteSets, SequencesExt, TLC

CONSTANTS
    Ids,          \* records of the portal
    None,         \* no record
    Sections,     \* what the navigation can open
    Mail,         \* the sections that are mail folders
    Content,      \* Content[s]: the records of section s, in the portal's order
    Arriving,     \* mail that may still arrive, Arriving[id] is its folder
    Editable,     \* records whose detail pane offers Save
    Deletable,    \* records whose actions include Delete
    Matching,     \* records the filter's query matches
    Rank,         \* Rank[id]: place of id by the sort column's text
    PageSize,     \* mailMessagesPageSize, MailListPageSize
    Threshold,    \* mailListLoadThreshold
    Keys,         \* what the user may press
    MayFail,      \* may requests fail?
    MaxInFlight   \* bound: no key while so many requests are under way

ASSUME OfficeAssumption ==
    /\ None \notin Ids
    /\ Mail \subseteq Sections
    /\ Content \in [Sections -> Seq(Ids)]
    /\ \A s \in Sections : IsInjective(Content[s])
    /\ Rank \in [Ids -> Nat]
    /\ Editable \cup Deletable \subseteq Ids
    /\ PageSize \in Nat \ {0}
    /\ Threshold \in Nat
    /\ MayFail \in BOOLEAN
    /\ Arriving \in [DOMAIN Arriving -> Mail] /\ DOMAIN Arriving \subseteq Ids
    /\ \A s \in Sections, id \in DOMAIN Arriving : id \notin Range(Content[s])

VARIABLES
    focus,        \* the pane with the focus
    zone,         \* listToolbar.zone
    query,        \* is there a filter query?
    hasList,      \* is a list loaded?
    listSpec,     \* the section of the list, None before the first
    items,        \* Model.items: the records and their Selected flags
    hasMore,      \* listHasMore
    loadingMore,  \* listLoadingMore
    loading,      \* the status bar says Loading
    table,        \* DataTable: ready, rows, order, cursor, sort
    tableMore,    \* DataTable.loadingMore
    open,         \* detail.item: the record in the detail pane
    text,         \* detail.form: whose fields the form holds
    wire,         \* the commands under way, in the order they were issued
    crashed,      \* Update has panicked
    portal,       \* the portal's records of each section
    arrived,      \* the mail of Arriving that is there
    saved         \* history: saved[id]: whose fields were last saved to id

toolbarVars == <<focus, zone, query>>
listVars    == <<hasList, listSpec, items, hasMore, table>>
flagVars    == <<loading, loadingMore, tableMore>>
detailVars  == <<open, text>>
portalVars  == <<portal, arrived, saved>>
vars == <<toolbarVars, listVars, flagVars, detailVars, wire, crashed, portalVars>>

Panes  == {"menu", "list", "preview"}
Zones  == {"table", "filter", "actions"}
Sorts  == {"none", "up", "down"}
Item   == [id : Ids, sel : BOOLEAN]

IdsOf(s)   == {s[i].id : i \in DOMAIN s}
Fresh(ids) == [i \in DOMAIN ids |-> [id |-> ids[i], sel |-> FALSE]]

\* The increasing enumeration of a set of positions, and the part of a sequence
\* at these positions.
Enumerations(K) ==
    {f \in [1 .. Cardinality(K) -> K] : \A i, j \in DOMAIN f : i < j => f[i] < f[j]}

At(s, K) ==
    IF K = DOMAIN s THEN {s} ELSE {[i \in DOMAIN f |-> s[f[i]]] : f \in Enumerations(K)}

EmptyTable == [ready |-> FALSE, rows |-> <<>>, order |-> <<>>, cursor |-> 1, sort |-> "none"]

Init ==
    /\ focus = "menu" /\ zone = "table" /\ query = FALSE
    /\ hasList = FALSE /\ listSpec = None /\ items = <<>> /\ hasMore = FALSE
    /\ table = EmptyTable
    /\ loading = FALSE /\ loadingMore = FALSE /\ tableMore = FALSE
    /\ open = None /\ text = None
    /\ wire = <<>> /\ crashed = FALSE
    /\ portal = Content /\ arrived = {}
    /\ saved = [id \in Ids |-> id]

-----------------------------------------------------------------------------
(* The table                                                               *)

Before(sort, a, b) ==
    \/ sort = "up"   /\ Rank[a.id] < Rank[b.id]
    \/ sort = "down" /\ Rank[a.id] > Rank[b.id]

\* applySort: a stable sort of the display order.
Sorted(t) ==
    IF t.sort = "none" THEN {t} ELSE
    {[t EXCEPT !.order = [i \in DOMAIN t.order |-> t.order[p[i]]]] :
        p \in {q \in Bijection(DOMAIN t.order, DOMAIN t.order) :
                 \A i, j \in DOMAIN t.order :
                    i < j => LET a == t.rows[t.order[q[i]]]
                                 b == t.rows[t.order[q[j]]]
                             IN  /\ ~Before(t.sort, b, a)
                                 /\ Before(t.sort, a, b) \/ q[i] < q[j]}}

\* SetData: the order starts afresh, the sort column stays.
WithData(t, s) ==
    Sorted([t EXCEPT !.ready = TRUE, !.rows = s,
                     !.order = [i \in DOMAIN s |-> i], !.cursor = 1])

\* Clear
Cleared(t) == [t EXCEPT !.ready = FALSE, !.rows = <<>>, !.order = <<>>, !.cursor = 1]

\* UpdateItems: the rows change, the order does not.
WithRows(t, s) == [t EXCEPT !.rows = s]

\* AppendItems skips records the table has.
IsNew(t, it) == it.id \notin IdsOf(t.rows)

\* Mutant of NextIndex: off by one.
NextIndexLow(t, i) == Len(t.rows) + i - 1

\* The index of the i-th new row.
NextIndex(t, i) == Len(t.rows) + i

\* AppendItems on the rows that are new.
WithMore(t, new) ==
    Sorted([t EXCEPT !.rows = @ \o new,
                     !.order = @ \o [i \in DOMAIN new |-> NextIndex(t, i)]])

\* MoveRow
Moved(t, d) ==
    IF t.ready /\ t.order # <<>>
      THEN [t EXCEPT !.cursor = IF @ + d \in DOMAIN t.order THEN @ + d ELSE @]
      ELSE t

\* NearEnd
NearEnd(t) == t.ready /\ t.order # <<>> /\ t.cursor > Len(t.order) - Threshold

\* renderRow indexes the rows with the order: past their end, it panics.
Undrawable(t) ==
    t.ready /\ \E i \in DOMAIN t.order : t.order[i] \notin DOMAIN t.rows

\* model.FilterItems under the toolbar's query: the positions that are left.
Matches(q, s) == IF q THEN {i \in DOMAIN s : s[i].id \in Matching} ELSE DOMAIN s

\* listTableItem: the table's index, taken as an index into the filtered items.
CursorRow(t, q, s) ==
    LET K    == Matches(q, s)
        hits == {i \in K : Cardinality({k \in K : k <= i}) = t.order[t.cursor]}
    IN  IF t.cursor \in DOMAIN t.order /\ hits # {}
          THEN s[CHOOSE i \in hits : TRUE].id ELSE None

\* syncListTable with the items s, then the table is drawn.
Sync(t, has, q, s) ==
    /\ IF has THEN \E f \in At(s, Matches(q, s)) : table' = WithRows(t, f)
              ELSE table' = Cleared(t)
    /\ crashed' = Undrawable(table')

-----------------------------------------------------------------------------
(* Commands                                                                *)

\* A command remembers what the portal held when it was issued: its answer
\* may be as old as that.
ListCmd(s)       == [kind |-> "list", spec |-> s, seen |-> portal'[s]]
MoreCmd(s, from) == [kind |-> "more", spec |-> s, start |-> from, seen |-> portal'[s]]
DetailCmd(id)    == [kind |-> "detail", id |-> id]
SaveCmd          == [kind |-> "save", id |-> open, text |-> text]
DeleteCmd(id)    == [kind |-> "delete", id |-> id]

\* maybeLoadMoreList and onListRowChanged after a change of the list: at most
\* one further page and the details of the row under the cursor.  w, busy and
\* more are the commands and the flags so far.
RowChanged(w, busy, more) ==
    LET due == hasList' /\ ~more /\ hasMore' /\ listSpec' \in Mail /\ NearEnd(table')
        row == IF hasList' THEN CursorRow(table', query', items') ELSE None
        get == row # None /\ row # open
    IN  /\ loadingMore' = (more \/ due)
        /\ tableMore' = (tableMore \/ due)
        /\ loading' = (busy \/ get)
        /\ wire' = w \o (IF due THEN <<MoreCmd(listSpec', Len(items'))>> ELSE <<>>)
                     \o (IF get THEN <<DetailCmd(row)>> ELSE <<>>)
        /\ IF row = None THEN open' = None /\ text' = None
                         ELSE UNCHANGED detailVars

-----------------------------------------------------------------------------
(* Keys                                                                    *)

Press(key) ==
    /\ ~crashed
    /\ key \in Keys
    /\ Len(wire) < MaxInFlight
    /\ UNCHANGED portalVars

InTable == focus = "list" /\ zone = "table"

\* Tab and Shift+Tab.  Entering the list from the menu resets its zone.
SwitchPane ==
    /\ Press("tab")
    /\ \E p \in Panes \ {focus} :
         /\ focus' = p
         /\ zone' = IF p = "list" /\ focus = "menu" THEN "table" ELSE zone
    /\ UNCHANGED <<query, listVars, flagVars, detailVars, wire, crashed>>

\* withList: the old items and the table stay until the answer.
OpenSection(s) ==
    /\ Press("open")
    /\ focus = "menu"
    /\ focus' = "list"
    /\ listSpec' = s /\ hasList' = FALSE /\ hasMore' = FALSE
    /\ loadingMore' = FALSE /\ loading' = TRUE
    /\ open' = None /\ text' = None
    /\ wire' = Append(wire, ListCmd(s))
    /\ UNCHANGED <<zone, query, items, table, tableMore, crashed>>

MoveCursor(d) ==
    /\ Press("move")
    /\ InTable
    /\ UNCHANGED <<toolbarVars, hasList, listSpec, items, hasMore>>
    /\ Sync(IF hasList THEN Moved(table, d) ELSE table, hasList, query, items)
    /\ RowChanged(wire, loading, loadingMore)

\* ToggleSort: up, then down, then up again.
ToggleSort ==
    /\ Press("sort")
    /\ InTable /\ hasList /\ table.ready /\ table.order # <<>>
    /\ table' \in Sorted([table EXCEPT !.sort = IF @ = "up" THEN "down" ELSE "up"])
    /\ crashed' = Undrawable(table')
    /\ UNCHANGED <<toolbarVars, hasList, listSpec, items, hasMore, flagVars,
                   detailVars, wire>>

ToggleSelect ==
    /\ Press("select")
    /\ InTable /\ hasList
    /\ CursorRow(table, query, items) # None
    /\ items' = [i \in DOMAIN items |->
                   IF items[i].id = CursorRow(table, query, items)
                     THEN [items[i] EXCEPT !.sel = ~@] ELSE items[i]]
    /\ Sync(table, hasList, query, items')
    /\ UNCHANGED <<toolbarVars, hasList, listSpec, hasMore, flagVars, detailVars, wire>>

FocusDetail ==
    /\ Press("view")
    /\ InTable /\ hasList
    /\ focus' = "preview"
    /\ UNCHANGED <<zone, query, listVars, crashed>>
    /\ RowChanged(wire, loading, loadingMore)

FocusFilter ==
    /\ Press("filter")
    /\ hasList
    /\ focus = "menu" \/ InTable
    /\ focus' = "list" /\ zone' = "filter"
    /\ UNCHANGED <<query, listVars, flagVars, detailVars, wire, crashed>>

\* A key in the filter's input, Enter included: the query is applied.
TypeQuery ==
    /\ Press("filter")
    /\ focus = "list" /\ zone = "filter"
    /\ \/ query' = ~query /\ UNCHANGED zone
       \/ UNCHANGED query /\ zone' = "actions"
    /\ Sync(table, hasList, query', items)
    /\ UNCHANGED <<focus, hasList, listSpec, items, hasMore, flagVars, detailVars, wire>>

LeaveZone ==
    /\ Press("esc")
    /\ focus = "list" /\ zone # "table"
    /\ zone' = "table"
    /\ UNCHANGED <<focus, query, listVars, flagVars, detailVars, wire, crashed>>

ClearFilter ==
    /\ Press("esc")
    /\ InTable /\ query
    /\ query' = FALSE
    /\ Sync(table, hasList, FALSE, items)
    /\ UNCHANGED <<focus, zone, hasList, listSpec, items, hasMore, flagVars, detailVars, wire>>

Refresh ==
    /\ Press("refresh")
    /\ hasList
    /\ \/ focus = "menu" \/ InTable
       \/ focus = "preview" /\ open \in Editable \cup Deletable
    /\ loading' = TRUE
    /\ wire' = Append(wire, ListCmd(listSpec))
    /\ UNCHANGED <<toolbarVars, listVars, loadingMore, tableMore, detailVars, crashed>>

\* A resized window or a toggled pane renders everything anew.
Redraw ==
    /\ Press("resize")
    /\ Sync(table, hasList, query, items)
    /\ UNCHANGED <<toolbarVars, hasList, listSpec, items, hasMore, flagVars, detailVars, wire>>

\* Commands that write: each captures its record when the key is pressed.
Write(cmds) ==
    /\ loading' = TRUE
    /\ wire' = wire \o cmds
    /\ UNCHANGED <<toolbarVars, listVars, loadingMore, tableMore, detailVars, crashed>>

\* selectedItems, canSaveFromList, canDeleteFromList
SelectedIds == {items[i].id : i \in {j \in DOMAIN items : items[j].sel}}

SaveFromList ==
    /\ Press("save")
    /\ focus = "list" /\ zone = "actions"
    /\ SelectedIds = {open} /\ open \in Editable
    /\ Write(<<SaveCmd>>)

DeleteFromList ==
    /\ Press("delete")
    /\ focus = "list" /\ zone = "actions"
    /\ SelectedIds # {} /\ SelectedIds \subseteq Deletable
    /\ \E chosen \in At(items, {i \in DOMAIN items : items[i].sel}) :
         Write([i \in DOMAIN chosen |-> DeleteCmd(chosen[i].id)])

\* Ctrl+S, Save and Close of the detail pane; Ctrl+S works on an empty pane too.
SaveDetail ==
    /\ Press("save")
    /\ focus = "preview"
    /\ Write(<<SaveCmd>>)

DeleteDetail ==
    /\ Press("delete")
    /\ focus = "preview" /\ open \in Deletable
    /\ Write(<<DeleteCmd(open)>>)

-----------------------------------------------------------------------------
(* Answers                                                                 *)

Answers(i, kind) ==
    /\ ~crashed
    /\ i \in DOMAIN wire
    /\ wire[i].kind = kind

Rest(i) == RemoveAt(wire, i)

Upto(s, n) == SubSeq(s, 1, IF n < Len(s) THEN n ELSE Len(s))

\* Loader.List: a mail folder gives its first page, any other section all.
FirstPage(spec, ids) == IF spec \in Mail THEN Upto(ids, PageSize) ELSE ids

\* ListMailMessages from start on: the page that holds start is fetched and its
\* beginning cut off; what is left is shorter than a page and ends the loop.
NextPage(ids, start) ==
    LET page == Upto(ids, PageSize * (start \div PageSize + 1))
    IN  SubSeq(page, start + 1, Len(page))

ListLoaded(i) ==
    /\ Answers(i, "list")
    /\ UNCHANGED <<toolbarVars, portalVars>>
    /\ listSpec' = wire[i].spec
    /\ hasList' = TRUE
    /\ \E ids \in {wire[i].seen, portal[wire[i].spec]} :
         items' = Fresh(FirstPage(wire[i].spec, ids))
    /\ hasMore' = (listSpec' \in Mail /\ Len(items') >= PageSize)
    /\ \E t \in WithData(table, items') : Sync(t, TRUE, query, items')
    /\ RowChanged(Rest(i), FALSE, FALSE)

ListFailed(i) ==
    /\ Answers(i, "list")
    /\ MayFail
    /\ UNCHANGED <<toolbarVars, portalVars, listSpec, crashed>>
    /\ hasList' = FALSE /\ items' = <<>> /\ hasMore' = FALSE
    /\ table' = Cleared(table)
    /\ RowChanged(Rest(i), FALSE, FALSE)

EndMore(i) ==
    /\ Answers(i, "more")
    /\ loadingMore' = FALSE /\ tableMore' = FALSE
    /\ wire' = Rest(i)
    /\ UNCHANGED <<toolbarVars, portalVars, hasList, listSpec, loading, detailVars>>

\* Mutant of ItemsAfterMore: the model keeps its own.
ItemsAfterMoreStale(t) == items

\* After a page that added rows, the model takes the table's.
ItemsAfterMore(t) == t.rows

\* The page goes to the list that is shown now.
MoreLoaded(i) ==
    /\ EndMore(i)
    /\ \E ids \in {wire[i].seen, portal[wire[i].spec]} :
         LET page == Fresh(NextPage(ids, wire[i].start)) IN
         /\ \E new \in At(page, {k \in DOMAIN page : IsNew(table, page[k])}) :
              IF table.ready /\ new # <<>>
                THEN table' \in WithMore(table, new) /\ items' = ItemsAfterMore(table')
                ELSE UNCHANGED <<table, items>>
         /\ hasMore' = (Len(page) >= PageSize)
    /\ crashed' = Undrawable(table')

MoreFailed(i) ==
    /\ EndMore(i)
    /\ MayFail
    /\ UNCHANGED <<items, table, hasMore, crashed>>

LoadForm(id) == open' = id /\ text' = id

\* Mutant of DetailLoaded: a failure is retried at once.
DetailLoadedRetries(i) ==
    /\ Answers(i, "detail")
    /\ \/ LoadForm(wire[i].id) /\ wire' = Rest(i)
       \/ MayFail /\ open' = None /\ text' = None
            /\ wire' = Append(Rest(i), DetailCmd(wire[i].id))
    /\ loading' = FALSE
    /\ UNCHANGED <<toolbarVars, listVars, loadingMore, tableMore, crashed, portalVars>>

DetailLoaded(i) ==
    /\ Answers(i, "detail")
    /\ \/ LoadForm(wire[i].id)
       \/ MayFail /\ open' = None /\ text' = None
    /\ loading' = FALSE
    /\ wire' = Rest(i)
    /\ UNCHANGED <<toolbarVars, listVars, loadingMore, tableMore, crashed, portalVars>>

\* Mutant of Store: the form is read when the command runs.
StoreFormOfNow(cmd) == saved' = [saved EXCEPT ![cmd.id] = text]

\* SaveItem on the portal.
Store(cmd) == saved' = [saved EXCEPT ![cmd.id] = cmd.text]

\* The saved record is loaded into the form, whatever was open.
SaveDone(i) ==
    /\ Answers(i, "save")
    /\ wire[i].id \in Editable
    /\ Store(wire[i])
    /\ LoadForm(wire[i].id)
    /\ loading' = FALSE
    /\ wire' = Rest(i)
    /\ IF wire[i].id \in IdsOf(items)
         THEN Sync(table, hasList, query, items) ELSE UNCHANGED <<table, crashed>>
    /\ UNCHANGED <<toolbarVars, hasList, listSpec, items, hasMore, loadingMore,
                   tableMore, portal, arrived>>

\* Not saved, or saved and not answered.
SaveFailed(i) ==
    /\ Answers(i, "save")
    /\ \/ wire[i].id \notin Editable /\ UNCHANGED saved
       \/ wire[i].id \in Editable /\ MayFail /\ (UNCHANGED saved \/ Store(wire[i]))
    /\ loading' = FALSE
    /\ wire' = Rest(i)
    /\ UNCHANGED <<toolbarVars, listVars, loadingMore, tableMore, detailVars,
                   crashed, portal, arrived>>

Removed(id) ==
    [s \in Sections |->
        IF id \in Range(portal[s])
          THEN RemoveAt(portal[s], CHOOSE i \in DOMAIN portal[s] : portal[s][i] = id)
          ELSE portal[s]]

\* actionDoneMsg: the list is loaded again.
DeleteDone(i) ==
    /\ Answers(i, "delete")
    /\ portal' = Removed(wire[i].id)
    /\ loading' = hasList
    /\ wire' = Rest(i) \o (IF hasList THEN <<ListCmd(listSpec)>> ELSE <<>>)
    /\ UNCHANGED <<toolbarVars, listVars, loadingMore, tableMore, detailVars,
                   crashed, arrived, saved>>

DeleteFailed(i) ==
    /\ Answers(i, "delete")
    /\ MayFail
    /\ UNCHANGED portal \/ portal' = Removed(wire[i].id)
    /\ loading' = FALSE
    /\ wire' = Rest(i)
    /\ UNCHANGED <<toolbarVars, listVars, loadingMore, tableMore, detailVars,
                   crashed, arrived, saved>>

\* New mail at the top of its folder.
Arrive ==
    /\ \E id \in DOMAIN Arriving \ arrived :
         /\ arrived' = arrived \cup {id}
         /\ portal' = [portal EXCEPT ![Arriving[id]] = <<id>> \o @]
    /\ UNCHANGED <<toolbarVars, listVars, flagVars, detailVars, wire, crashed, saved>>

-----------------------------------------------------------------------------

Key ==
    \/ SwitchPane \/ ToggleSort \/ ToggleSelect \/ FocusDetail
    \/ FocusFilter \/ TypeQuery \/ LeaveZone \/ ClearFilter
    \/ Refresh \/ Redraw
    \/ SaveFromList \/ DeleteFromList \/ SaveDetail \/ DeleteDetail
    \/ \E s \in Sections : OpenSection(s)
    \/ \E d \in {-1, 1} : MoveCursor(d)

Answer ==
    \E i \in DOMAIN wire :
        \/ ListLoaded(i) \/ ListFailed(i)
        \/ MoreLoaded(i) \/ MoreFailed(i)
        \/ DetailLoaded(i)
        \/ SaveDone(i) \/ SaveFailed(i)
        \/ DeleteDone(i) \/ DeleteFailed(i)

Next == Key \/ Answer \/ Arrive

Spec == Init /\ [][Next]_vars

FairSpec == Spec /\ WF_vars(Answer)
-----------------------------------------------------------------------------
(* Properties                                                              *)

Requests ==
    [kind : {"list"}, spec : Sections, seen : Seq(Ids)]
      \cup [kind : {"more"}, spec : Sections, start : Nat, seen : Seq(Ids)]
      \cup [kind : {"detail", "delete"}, id : Ids]
      \cup [kind : {"save"}, id : Ids \cup {None}, text : Ids \cup {None}]

\* The type of every variable; a drawn table has an order as long as its rows.
TypeOK ==
    /\ focus \in Panes /\ zone \in Zones /\ query \in BOOLEAN
    /\ hasList \in BOOLEAN /\ hasMore \in BOOLEAN
    /\ listSpec \in Sections \cup {None}
    /\ items \in Seq(Item)
    /\ table \in [ready : BOOLEAN, rows : Seq(Item), order : Seq(Nat \ {0}),
                  cursor : Nat \ {0}, sort : Sorts]
    /\ loading \in BOOLEAN /\ loadingMore \in BOOLEAN /\ tableMore \in BOOLEAN
    /\ open \in Ids \cup {None} /\ text \in Ids \cup {None}
    /\ wire \in Seq(Requests)
    /\ crashed \in BOOLEAN
    /\ portal \in [Sections -> Seq(Ids)]
    /\ arrived \subseteq Ids
    /\ saved \in [Ids -> Ids \cup {None}]

IsPermutation(order, n) ==
    /\ Len(order) = n
    /\ \A k \in 1 .. n : order[k] \in 1 .. n
    /\ \A j, k \in 1 .. n : order[j] = order[k] => j = k

\* As long as the program runs, the display order of the table (table.go:94-231)
\* names every row exactly once, whatever is sorted, appended, filtered,
\* reloaded or cleared in between.
OrderIsPermutation ==
    ~crashed => IsPermutation(table.order, Len(table.rows))

\* The rows drawn are the records the keys act on, with the same selection
\* flags: otherwise Space and the toolbar's Delete would act on records other
\* than those that are highlighted (app.go:252-264, 332-349, 757-770).
RowsAreItems ==
    hasList /\ ~crashed => table.ready /\ table.rows = items

\* What is saved to a record was typed into that record's form, although other
\* details and other sections may be opened before the request runs
\* (app.go:372-388, 991-1011).
SavesLandOnTheirRecord ==
    \A id \in Ids : saved[id] = id

\* With nothing under way the UI shows no "Loading" and does not wait for a page
\* that nobody fetches: otherwise infinite scroll would be dead
\* (app.go:311-405, 943-958).
IdleIsNotLoading ==
    wire = <<>> => ~loading /\ ~loadingMore /\ ~tableMore

\* An answer may issue further requests (reload, details, next page), but when
\* the user pauses, that comes to an end (app.go:311-405, 924-958).
SettlesWhenLeftAlone ==
    <>[][Answer]_vars => <>[](wire = <<>> \/ crashed)
=============================================================================
