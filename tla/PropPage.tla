------------------------------ MODULE PropPage ------------------------------
(***************************************************************************)
(* FragShx.Dll/PropPage.cpp: the page with the fragments of one or more    *)
(* files, in a virtual list view.  A table of files (a file's streams come *)
(* after it) holds an open context per row; a table of items translates a  *)
(* row of the list to a file and one of its fragments, or to one of the    *)
(* three rows of its heading.  Refreshing replaces one table or both,      *)
(* sorting permutes the items, and the list keeps only numbers of rows.    *)
(*                                                                         *)
(* Everything runs in the thread of the page.  A handler is one action,    *)
(* but for the one that tracks a menu, which lets messages in meanwhile.   *)
(***************************************************************************)
EXTENDS Integers, Sequences, FiniteSets, SequencesExt

CONSTANTS
    MaxFiles,       \* bound: how many files the page is opened on
    StreamLists,    \* the streams a file may be found to have
    FileLayouts,    \* what a context may hold: sequences of fragments
    Columns,        \* the columns that can be shown besides the sequence
    PerPage,        \* how many rows the list shows
    None            \* no stream, no context, no row, no menu

\* The columns, in their order.
MapIdSequence == 0
MapIdSize == 1
MapIdPercentage == 2
MapIdClusters == 3
MapIdExtents == 4

ASSUME PageAssumption ==
    /\ MaxFiles \in Nat \ {0} /\ PerPage \in Nat \ {0}
    /\ Columns \subseteq MapIdSize .. MapIdExtents
    /\ FileLayouts \subseteq Seq([clusters : Nat, extents : Nat, virtual : BOOLEAN])
    /\ None \notin FileLayouts /\ StreamLists \subseteq Seq(STRING)

VARIABLES
    page,               \* "none", "loaded", "shown" or "gone"
    _bShowFileStreams,
    _rgFileInfo,        \* the table of files
    _rgItemInfo,        \* the table of items
    _bColMap,           \* the columns as shown
    _wSortCol,          \* the place, from 0, of the column last sorted on
    _bSortASC,
    _iCurSel,           \* the row last selected
    selected,           \* the row the list shows as selected
    menu,               \* the row whose menu is up
    open,               \* how many contexts the engine has open
    built,              \* history: the items are those of the files
    refreshed           \* history: the data were, since _iCurSel was selected

tableVars == <<_rgFileInfo, _rgItemInfo, open, built>>
sortVars == <<_wSortCol, _bSortASC>>
selVars == <<_iCurSel, selected, refreshed>>
pageVars == <<page, _bShowFileStreams, tableVars, _bColMap, sortVars, selVars, menu>>

-----------------------------------------------------------------------------
(* The tables.  Rows are numbered from 0 as the list does.                 *)

CGROUPITEMSEXTRA == 3
INVALIDFRAGINDEX == 0

Rows == 0 .. Len(_rgItemInfo) - 1
Item(i) == _rgItemInfo[i + 1]
IsFileInfoItem(i) == Item(i).frag = INVALIDFRAGINDEX
IsFragInfoItem(i) == ~IsFileInfoItem(i)

NewFile(stream) ==
    [stream |-> stream, show |-> TRUE, ctx |-> None, cFragments |-> 0, itemBase |-> 0]

WithContext(files) == {f \in DOMAIN files : files[f].ctx # None}

\* _ResetData, but for the files, which callers replace.
ClearItems == _rgItemInfo' = <<>> /\ _wSortCol' = 0 /\ _bSortASC' = TRUE

Base(files) ==
    FlattenSeq([f \in DOMAIN files |->
        IF files[f].stream = None THEN <<files[f]>> ELSE <<>>])

\* Mutant: the old table keeps the contexts of the files it is copied from.
RebuiltTwice(found) ==
    [files |-> FlattenSeq([b \in DOMAIN found |->
        <<Base(_rgFileInfo)[b]>> \o [k \in DOMAIN found[b] |-> NewFile(found[b][k])]]),
     closed |-> WithContext(_rgFileInfo)]

\* The files, each with the streams just found for it.  The contexts of the
\* files go with them; those of the former streams are closed.
Rebuilt(found) ==
    [files |-> FlattenSeq([b \in DOMAIN found |->
        <<Base(_rgFileInfo)[b]>> \o [k \in DOMAIN found[b] |-> NewFile(found[b][k])]]),
     closed |-> {f \in WithContext(_rgFileInfo) : _rgFileInfo[f].stream # None}]

\* Streams that are not found again stay in the table and are not to be shown.
Disabled ==
    [files |-> [f \in DOMAIN _rgFileInfo |->
        [_rgFileInfo[f] EXCEPT !.show = @ /\ _rgFileInfo[f].stream = None]],
     closed |-> {}]

\* _UpdateFileFragmentInfo: a new context for a file, or none if it cannot be read.
FragmentInfo(file, layout) ==
    [file EXCEPT !.ctx = layout, !.cFragments = IF layout = None THEN 0 ELSE Len(layout)]

\* _BuildItemInfoTable: the rows of one file, and where they begin.
FileItems(files, f) ==
    [k \in 1 .. CGROUPITEMSEXTRA + files[f].cFragments |->
        [file |-> f, frag |-> IF k <= CGROUPITEMSEXTRA THEN INVALIDFRAGINDEX
                              ELSE k - CGROUPITEMSEXTRA]]
ItemsOf(files) == FlattenSeq([f \in DOMAIN files |-> FileItems(files, f)])
ItemBase(files, f) ==
    Len(FlattenSeq([g \in 1 .. f - 1 |-> FileItems(files, g)]))

\* Memory may run out before the items are replaced.
BuildItemInfoTable(files, memory) ==
    /\ built' = memory
    /\ _rgFileInfo' = IF memory
          THEN [f \in DOMAIN files |-> [files[f] EXCEPT !.itemBase = ItemBase(files, f)]]
          ELSE files

-----------------------------------------------------------------------------
(* Starting and ending.                                                    *)

PageInit ==
    /\ page = "none" /\ _bShowFileStreams \in BOOLEAN
    /\ _rgFileInfo = <<>> /\ _rgItemInfo = <<>> /\ open = 0 /\ built = FALSE
    /\ _bColMap = <<>> /\ _wSortCol = 0 /\ _bSortASC = FALSE
    /\ _iCurSel = None /\ selected = None /\ refreshed = FALSE
    /\ menu = None

\* Without a data object there are no files; if the data are not usable, the page is
\* not added.
Initialize ==
    /\ page = "none" /\ ClearItems
    /\ \/ /\ page' = "loaded"
          /\ \E n \in 0 .. MaxFiles : _rgFileInfo' = [f \in 1 .. n |-> NewFile(None)]
       \/ page' = "gone" /\ UNCHANGED _rgFileInfo
    /\ UNCHANGED <<_bShowFileStreams, open, built, _bColMap, selVars, menu>>

\* _UpdateControl, told to refresh the data.
RefreshData ==
    \E found \in [DOMAIN Base(_rgFileInfo) -> StreamLists], memory \in BOOLEAN :
        LET rebuild == _bShowFileStreams /\ \E b \in DOMAIN found : found[b] # <<>>
        IN  \E t \in IF rebuild THEN {Rebuilt(found), Disabled} ELSE {Disabled} :
            \E layout \in [DOMAIN t.files -> FileLayouts \union {None}] :
                LET files == [f \in DOMAIN t.files |-> FragmentInfo(t.files[f], layout[f])]
                IN  /\ BuildItemInfoTable(files, memory)
                    /\ open' = open - Cardinality(t.closed) - Cardinality(WithContext(t.files))
                                    + Cardinality(WithContext(files))
                    /\ IF t = Disabled
                       THEN /\ _rgItemInfo' = IF memory THEN ItemsOf(files) ELSE _rgItemInfo
                            /\ UNCHANGED sortVars
                       ELSE /\ _rgItemInfo' = IF memory THEN ItemsOf(files) ELSE <<>>
                            /\ _wSortCol' = 0 /\ _bSortASC' = TRUE

\* The columns that are shown are kept, in the order they have; others are added.
UpdateColumns(visible) ==
    _bColMap' = SelectSeq(_bColMap, LAMBDA c : c \in visible)
                \o SetToSortSeq(visible \ ToSet(_bColMap), <)

OnInitDialog ==
    /\ page = "loaded" /\ page' = "shown"
    /\ \E s \in SUBSET Columns : UpdateColumns({MapIdSequence} \union s)
    /\ RefreshData
    /\ UNCHANGED <<_bShowFileStreams, selVars, menu>>

FinalRelease ==
    /\ page \in {"loaded", "shown"} /\ menu = None /\ page' = "gone"
    /\ _rgFileInfo' = <<>> /\ ClearItems
    /\ open' = open - Cardinality(WithContext(_rgFileInfo)) /\ built' = FALSE
    /\ _iCurSel' = None /\ selected' = None /\ refreshed' = FALSE
    /\ UNCHANGED <<_bShowFileStreams, _bColMap, menu>>

-----------------------------------------------------------------------------
(* Refreshing.                                                             *)

\* OnUpdateControl, posted by OnSettingChange among others: as any program may
\* tell of a change of settings at any time, the message may come at any time.
\* The list forgets its selection, the page does not.
OnUpdateControl ==
    /\ page = "shown"
    /\ RefreshData
    /\ selected' = None /\ refreshed' = TRUE
    /\ UNCHANGED <<page, _bShowFileStreams, _bColMap, _iCurSel, menu>>

-----------------------------------------------------------------------------
(* Sorting.                                                                *)

\* What the engine says of a fragment; nothing, if it has none of that number.
Info(item) ==
    LET ctx == _rgFileInfo[item.file].ctx
    IN  IF ctx # None /\ item.frag \in 1 .. Len(ctx) THEN ctx[item.frag]
        ELSE [clusters |-> 0, extents |-> 0, virtual |-> FALSE]

Sign(greater) == IF greater THEN 1 ELSE -1

\* Mutant: the rows of the heading are not kept in front when the order is reversed.
CompareSequenceAlways(a, b, asc) ==
    IF a.frag = INVALIDFRAGINDEX /\ b.frag = INVALIDFRAGINDEX THEN 0
    ELSE IF a.frag = INVALIDFRAGINDEX THEN -1
    ELSE IF b.frag = INVALIDFRAGINDEX THEN 1
    ELSE Sign(a.frag > b.frag)

CompareSequence(a, b, asc) ==
    IF a.frag = INVALIDFRAGINDEX /\ b.frag = INVALIDFRAGINDEX THEN 0
    ELSE IF a.frag = INVALIDFRAGINDEX THEN Sign(~asc)
    ELSE IF b.frag = INVALIDFRAGINDEX THEN Sign(asc)
    ELSE Sign(a.frag > b.frag)

CompareSize(a, b, asc) ==
    IF Info(a).clusters = Info(b).clusters THEN CompareSequence(a, b, asc)
    ELSE Sign(Info(a).clusters > Info(b).clusters)

\* A fragment without storage has no part of the file.
ComparePercentage(a, b, asc) ==
    IF Info(a).virtual = Info(b).virtual THEN CompareSize(a, b, asc)
    ELSE Sign(Info(b).virtual)

CompareExtents(a, b, asc) ==
    IF Info(a).extents = Info(b).extents THEN CompareSize(a, b, asc)
    ELSE Sign(Info(a).extents > Info(b).extents)

CompareItemInfo(a, b, column, asc) ==
    IF a.file # b.file THEN Sign(a.file > b.file)
    ELSE (IF asc THEN 1 ELSE -1) *
         (IF column = MapIdSequence \/ INVALIDFRAGINDEX \in {a.frag, b.frag}
          THEN CompareSequence(a, b, asc)
          ELSE IF column = MapIdPercentage THEN ComparePercentage(a, b, asc)
          ELSE IF column = MapIdExtents THEN CompareExtents(a, b, asc)
          ELSE CompareSize(a, b, asc))

\* _SortItemInfoTable: qsort.  Items of which neither is less are rows of one heading.
Precedes(items, i, j, column, asc) ==
    LET c == CompareItemInfo(items[i], items[j], column, asc)
    IN  i # j /\ (c < 0 \/ (c = 0 /\ i < j))

Sorted(items, column, asc) ==
    LET rank == [j \in DOMAIN items |->
                    Cardinality({i \in DOMAIN items : Precedes(items, i, j, column, asc)})]
    IN  [k \in DOMAIN items |-> items[CHOOSE i \in DOMAIN items : rank[i] = k - 1]]

\* OnListViewColumnClick: another place is sorted in ascending order, the same
\* place in the other order.
OnColumnClick(place) ==
    /\ page = "shown" /\ menu = None
    /\ _wSortCol' = place
    /\ _bSortASC' = (place # _wSortCol \/ ~_bSortASC)
    /\ UNCHANGED <<page, _bShowFileStreams, _rgFileInfo, open, built, _bColMap, selVars,
                   menu>>
    /\ _rgItemInfo' = Sorted(_rgItemInfo, _bColMap[place + 1], _bSortASC')

\* OnColumnMenuClick: a column is shown or hidden; what was sorted on stays a place.
OnColumnMenuClick(c) ==
    /\ page = "shown" /\ menu = None
    /\ UpdateColumns(IF c \in ToSet(_bColMap) THEN ToSet(_bColMap) \ {c}
                     ELSE ToSet(_bColMap) \union {c})
    /\ UNCHANGED <<page, _bShowFileStreams, tableVars, sortVars, selVars, menu>>

-----------------------------------------------------------------------------
(* Selecting.                                                              *)

\* The list selects a row it has, and tells (OnListViewItemChanged).
Select(i) ==
    IF i \in Rows THEN _iCurSel' = i /\ selected' = i /\ refreshed' = FALSE
    ELSE UNCHANGED <<_iCurSel, refreshed>> /\ selected' = None

\* A key first shows the row again that was selected last.
Restored == IF _iCurSel \in Rows THEN _iCurSel ELSE selected
Keep == selected' = Restored /\ UNCHANGED <<_iCurSel, refreshed>>
Clear == selected' = None /\ UNCHANGED <<_iCurSel, refreshed>>

\* _GetNextListViewItem: the next fragment below a row, or above it.
Below(i) == {j \in Rows : j > i /\ IsFragInfoItem(j)}
Above(i) == {j \in Rows : j < i /\ IsFragInfoItem(j)}
SelectFirst(js) == IF js = {} THEN Keep ELSE Select(Min(js))
SelectLast(js) == IF js = {} THEN Keep ELSE Select(Max(js))

\* The row at the top of the list, after any scrolling.
Tops == 0 .. Max({0, Len(_rgItemInfo) - 1})

\* The row a page away is looked at without asking whether there is one.
KeyPrior ==
    LET i == IF _iCurSel = None THEN 0 ELSE _iCurSel - PerPage
        Search == \E top \in Tops :
            LET from == IF top = 0 THEN 0 ELSE top - 1
            IN  IF \E j \in Below(from) : j <= from + PerPage THEN SelectFirst(Below(from)) ELSE Keep
    IN  IF i <= 0 \/ (i \in Rows /\ IsFileInfoItem(i)) THEN Search
        ELSE IF i \in Rows THEN Select(i)
        ELSE Keep \/ Search

\* Mutant: the row a page away is selected, whatever it is.
KeyNextAny ==
    LET i == IF _iCurSel = None THEN PerPage - 1 ELSE _iCurSel + PerPage
    IN  IF i \in Rows THEN Select(i)
        ELSE \E top \in Tops : SelectLast({j \in Above(top + PerPage + 1) : j >= top})

KeyNext ==
    LET i == IF _iCurSel = None THEN PerPage - 1 ELSE _iCurSel + PerPage
    IN  IF i > 0 /\ i \in Rows /\ IsFragInfoItem(i) THEN Select(i)
        ELSE \E top \in Tops : SelectLast({j \in Above(top + PerPage + 1) : j >= top})

KeyHome ==
    LET js == Below(CGROUPITEMSEXTRA - 1)
    IN  IF js # {} /\ Min(js) < PerPage THEN Select(Min(js)) ELSE Clear

KeyEnd ==
    LET js == Above(Len(_rgItemInfo))
    IN  IF js # {} /\ Max(js) > Len(_rgItemInfo) - Min({PerPage, Len(_rgItemInfo)})
        THEN Select(Max(js)) ELSE Clear

KeyUp ==
    IF Restored = None \/ Restored <= CGROUPITEMSEXTRA THEN Keep
    ELSE SelectLast(Above(Restored))

KeyDown ==
    \E from \in IF Restored = None THEN Tops ELSE {Restored} : SelectFirst(Below(from))

OnKeyDown ==
    /\ page = "shown" /\ menu = None
    /\ KeyPrior \/ KeyNext \/ KeyHome \/ KeyEnd \/ KeyUp \/ KeyDown
    /\ UNCHANGED <<page, _bShowFileStreams, tableVars, _bColMap, sortVars, menu>>

\* A click on the heading of a file clears the selection.
OnButtonDown(i) ==
    /\ page = "shown" /\ menu = None
    /\ IF IsFileInfoItem(i)
       THEN selected' = (IF _iCurSel = selected THEN None ELSE selected)
            /\ UNCHANGED <<_iCurSel, refreshed>>
       ELSE Select(i)
    /\ UNCHANGED <<page, _bShowFileStreams, tableVars, _bColMap, sortVars>>

OnLButtonDown == \E i \in Rows : OnButtonDown(i) /\ UNCHANGED menu

\* The right button also brings up the menu, for either kind of row.
OnRightClick == \E i \in Rows : OnButtonDown(i) /\ menu' = i

-----------------------------------------------------------------------------
(* The menu of a row.  It is tracked in a message loop of its own, and the *)
(* row is looked up when it returns.                                       *)

MenuEnds ==
    /\ menu # None /\ menu' = None
    /\ UNCHANGED <<page, _bShowFileStreams, _rgFileInfo, _rgItemInfo, open, built,
                   _bColMap, selVars>>

\* Dismissed; or defragment, report, properties, which read the file's row, and
\* show compressed, with which contexts are made in another way from then on.
UseFile == MenuEnds /\ UNCHANGED sortVars

RefreshFile == MenuEnds /\ _wSortCol' = 0 /\ _bSortASC' = TRUE

-----------------------------------------------------------------------------
Gone == page = "gone" /\ UNCHANGED pageVars

PageNext ==
    \/ Initialize \/ OnInitDialog \/ FinalRelease \/ Gone
    \/ OnUpdateControl
    \/ \E place \in 0 .. Len(_bColMap) - 1 : OnColumnClick(place)
    \/ \E c \in Columns : OnColumnMenuClick(c)
    \/ OnKeyDown \/ OnLButtonDown \/ OnRightClick
    \/ UseFile \/ RefreshFile

PageSpec == PageInit /\ [][PageNext]_pageVars

-----------------------------------------------------------------------------
(* Properties                                                              *)

\* Each context the engine has open belongs to one row of the table of files, and
\* none is left when the page goes: rows and their contexts move between two
\* tables while streams come and go and memory runs out
\* (_UpdateFileInfoTable, _UpdateFileFragmentInfo, _ResetData).
ContextsOwned == open = Cardinality(WithContext(_rgFileInfo))

\* What a column shows of a fragment (OnListViewGetDispInfo).
Shown(item, column) ==
    CASE column = MapIdSequence -> item.frag
      [] column = MapIdPercentage -> IF Info(item).virtual THEN 0 ELSE Info(item).clusters
      [] column = MapIdExtents -> Info(item).extents
      [] OTHER -> Info(item).clusters

\* A row of the heading is where the file's heading is drawn, whatever is sorted.
InPlace ==
    \A i \in Rows :
        LET first == _rgFileInfo[Item(i).file].itemBase
        IN  IsFileInfoItem(i) <=> i \in first .. first + CGROUPITEMSEXTRA - 1

InOrder(column, asc) ==
    \A i \in Rows : i + 1 \in Rows
        /\ Item(i).file = Item(i + 1).file /\ IsFragInfoItem(i) /\ IsFragInfoItem(i + 1)
        => IF asc THEN Shown(Item(i), column) <= Shown(Item(i + 1), column)
           ELSE Shown(Item(i), column) >= Shown(Item(i + 1), column)

\* Clicking a column puts what it shows in order, within each file and below the
\* file's heading, in both directions and on any column (_CompareItemInfo falls
\* back from one column to another and treats the rows of a heading apart).  The premise
\* built: items and contexts are of one refresh, so that what is sorted is what is shown.
SortShown ==
    [][\A place \in 0 .. Len(_bColMap) - 1 :
        OnColumnClick(place) /\ built => (InPlace /\ InOrder(_bColMap[place + 1], _bSortASC))']_pageVars

\* Keys and clicks select fragments and never the heading of a file, however the
\* items were sorted; a row selected before the data were refreshed may by now be
\* anything (OnScListViewKeyDown, _GetNextListViewItem).
SelectionOnFragments ==
    selected # None /\ ~refreshed => IsFragInfoItem(selected)
=============================================================================
