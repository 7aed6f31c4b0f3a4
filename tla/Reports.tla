------------------------------- MODULE Reports -------------------------------
(***************************************************************************)
(* The way of an update from the page of the queue to the user: the table  *)
(* in the page (plugins/qmon/qmonreport.c), the filters, the XML document  *)
(* of the details, the popup, the click, the document read again           *)
(* (liboul/msg.c), the window with the table (beasy/gtkntf.c), and the     *)
(* browser opened for a link.                                              *)
(*                                                                         *)
(* Severity and status go the way of the subject and are left out.  Names  *)
(* are compared without regard to case: one value stands for all           *)
(* spellings.                                                              *)
(***************************************************************************)
EXTENDS Naturals, FiniteSets, SequencesExt

CONSTANTS
    TableColumns,   \* QMON_HTMLTABLE_COLUMN_NUM
    ColumnIndex,    \* INDEX_SR_*, of "number", "analyst" and "subject"
    QueuePage,      \* what a poll may bring: the cells of its table, a row at least; <<>> without one
    ReportOptions,  \* [target, analyst, srlist], the options of the monitor
    OtherDetails,   \* what another plugin has as its details: <<>> or a document
    Browser,        \* values of the preference, with "gnome" for a session of GNOME
    BrowserPlace,   \* values of the preference for the place: "default", "current", ...
    MaxReportPopups \* bound on the popups on the screen

ASSUME ReportsAssumption ==
    /\ TableColumns \in Nat \ {0}
    /\ ColumnIndex \in [{"number", "analyst", "subject"} -> 0..(TableColumns - 1)]
    /\ \A cells \in QueuePage : cells \in Seq(ToSet(cells))
    /\ \A options \in ReportOptions : options.srlist \in Seq(ToSet(options.srlist))
    /\ MaxReportPopups \in Nat

VARIABLES
    reportExtra,    \* source -> plugin->extra: <<>> or the document of its last report
    reportPopups,   \* popups on the screen: [source, title], oldest first
    reportWindow,   \* the window opened last: [source, title, columns, rows], or NoWindow
    reportFound,    \* what the last report was about: rows of the page
    linkOutcome     \* what came of the last link: <<opened, told>>

reportVars == <<reportExtra, reportPopups, reportWindow, reportFound, linkOutcome>>

NoWindow == [source |-> "none", title |-> "none", columns |-> <<>>, rows |-> <<>>]

-----------------------------------------------------------------------------
(* From the page to a document.                                            *)

\* sr_count: cells at the end that are no whole row are left.
RowCount(cells) == Len(cells) \div TableColumns
Cell(cells, row, index) == cells[(row - 1) * TableColumns + index + 1]

\* report_htmltable_parse: the cells of the table, one after the other, make SRs.
SrList(cells) ==
    [row \in 1..RowCount(cells) |-> [f \in DOMAIN ColumnIndex |-> Cell(cells, row, ColumnIndex[f])]]

\* A new list of the SRs of a list, the i-th of them times[i] times.
Filtered(srs, times) ==
    LET upTo[i \in 0..Len(srs)] == IF i = 0 THEN <<>> ELSE upTo[i - 1] \o [k \in 1..times[i] |-> srs[i]]
    IN upTo[Len(srs)]

\* sr_filter_by_analyst: nobody without a name.
ByAnalyst(srs, analyst) ==
    Filtered(srs, [i \in DOMAIN srs |-> IF analyst # <<>> /\ srs[i].analyst = analyst THEN 1 ELSE 0])

\* sr_filter_by_srlist: as often as the number is in the list.
ByNumbers(srs, numbers) ==
    Filtered(srs, [i \in DOMAIN srs |-> Cardinality({n \in DOMAIN numbers : numbers[n] = srs[i].number})])

\* qmon_report up to report_common
Relevant(cells, options) ==
    IF options.target = "analyst" THEN ByAnalyst(SrList(cells), options.analyst)
    ELSE IF options.target = "srlist" THEN ByNumbers(SrList(cells), options.srlist)
    ELSE SrList(cells)
ReportTitle(options) ==
    IF options.target = "analyst" THEN "Analyst Notification Details"
    ELSE IF options.target = "srlist" THEN "SRList Notification Details"
    ELSE "CTC Notification Details"

\* xmlNewChild takes its content for XML and stops at an ampersand that begins no entity.
XmlContent(text) ==
    IF "&" \notin ToSet(text) THEN text
    ELSE SubSeq(text, 1, (CHOOSE k \in DOMAIN text : text[k] = "&" /\ \A j \in 1..(k - 1) : text[j] # "&") - 1)

Heading == [number |-> "Number", analyst |-> "Analyst", subject |-> "Subject"]
HeaderNames == <<Heading.number, Heading.analyst, Heading.subject>>
\* srlist_to_srdetails: nothing of an empty list.  Each cell names its column.
SrDetails(srs) ==
    IF srs = <<>> THEN <<>>
    ELSE <<[type |-> "table", header |-> HeaderNames,
            rows |-> [i \in DOMAIN srs |->
                << [col |-> 0, url |-> <<srs[i].number>>, content |-> XmlContent(srs[i].number)],
                   [col |-> 1, url |-> <<>>, content |-> XmlContent(srs[i].analyst)],
                   [col |-> 2, url |-> <<>>, content |-> XmlContent(srs[i].subject)] >>]]>>

-----------------------------------------------------------------------------
(* From a document to a window.                                            *)

\* oul_msg_content_get_table
MsgTable(doc) ==
    [ctype |-> "table", headers |-> doc.header,
     rows |-> [i \in DOMAIN doc.rows |-> [j \in DOMAIN doc.rows[i] |->
                  [col |-> doc.rows[i][j].col, content |-> doc.rows[i][j].content]]]]

\* xmlmsg_to_oulmsg: a document of no type is no message.
OulMsgOf(doc) ==
    IF doc.type = "table" THEN <<MsgTable(doc)>>
    ELSE IF doc.type \in {"text", "markup"} THEN <<[ctype |-> doc.type, text |-> doc.text]>>
    ELSE <<>>

\* table_list_view_new: a row of the store starts empty, a cell goes to its column, where
\* it replaces one that was there.
ListRow(msg, cells) ==
    [i \in DOMAIN msg.headers |->
        LET here == {j \in DOMAIN cells : cells[j].col + 1 = i}
        IN IF here = {} THEN <<>> ELSE cells[CHOOSE j \in here : \A l \in here : l <= j].content]
TableWindow(popup, msg) ==
    [source |-> popup.source, title |-> popup.title, columns |-> msg.headers,
     rows |-> [i \in DOMAIN msg.rows |-> ListRow(msg, msg.rows[i])]]

\* beasy_notify_formatted
FormattedWindow(popup, msg) ==
    [source |-> popup.source, title |-> popup.title, columns |-> <<"text">>, rows |-> << <<msg.text>> >>]

-----------------------------------------------------------------------------
\* Mutant: details that nobody has looked at are kept
QmonReport_KeepsOld(cells, options) ==
    /\ Len(reportPopups) < MaxReportPopups
    /\ SrDetails(Relevant(cells, options)) # <<>>
    /\ reportPopups' = Append(reportPopups, [source |-> "qmon", title |-> ReportTitle(options)])
    /\ reportExtra' = [reportExtra EXCEPT !["qmon"] = IF @ = <<>> THEN SrDetails(Relevant(cells, options)) ELSE @]
    /\ reportFound' = [cells |-> cells, options |-> options]
    /\ UNCHANGED <<reportWindow, linkOutcome>>

\* qmon_report of a page, with report_common: the signal opens a popup before the
\* details are stored, and the details replace those of an earlier report.
QmonReport(cells, options) ==
    /\ Len(reportPopups) < MaxReportPopups
    /\ SrDetails(Relevant(cells, options)) # <<>>
    /\ reportPopups' = Append(reportPopups, [source |-> "qmon", title |-> ReportTitle(options)])
    /\ reportExtra' = [reportExtra EXCEPT !["qmon"] = SrDetails(Relevant(cells, options))]
    /\ reportFound' = [cells |-> cells, options |-> options]
    /\ UNCHANGED <<reportWindow, linkOutcome>>

\* A report in which nothing is found changes nothing.
NothingToReport(cells, options) == SrDetails(Relevant(cells, options)) = <<>> /\ UNCHANGED reportVars

\* gtkntf_action_execute_info: the details of the plugin of the popup are shown once, and
\* kept when they are no message.
ExecuteInfo(k) ==
    /\ k \in DOMAIN reportPopups
    /\ LET popup == reportPopups[k]
       IN \E doc \in ToSet(reportExtra[popup.source]) : \E msg \in ToSet(OulMsgOf(doc)) :
          /\ reportWindow' = IF msg.ctype = "table" THEN TableWindow(popup, msg) ELSE FormattedWindow(popup, msg)
          /\ reportExtra' = [reportExtra EXCEPT ![popup.source] = <<>>]
    /\ UNCHANGED <<reportPopups, reportFound, linkOutcome>>

\* gtkntf_action_execute_close, or the popup's time is over.
PopupGone(k) ==
    /\ k \in DOMAIN reportPopups
    /\ reportPopups' = RemoveAt(reportPopups, k)
    /\ UNCHANGED <<reportExtra, reportWindow, reportFound, linkOutcome>>

\* Another plugin has details of its own, or none, and emits the signal.
OtherPlugin(details) ==
    /\ Len(reportPopups) < MaxReportPopups
    /\ reportPopups' = Append(reportPopups, [source |-> "other", title |-> "other"])
    /\ reportExtra' = [reportExtra EXCEPT !["other"] = details]
    /\ UNCHANGED <<reportWindow, reportFound, linkOutcome>>

-----------------------------------------------------------------------------
(* A link.                                                                 *)

\* What beasy_notify_uri runs: a command that asks a browser that is running, and one
\* that starts it; <<>> for none.
HasRemote(browser, place) ==
    \/ browser \in {"mozilla", "firefox"} /\ place \in {"current", "new window", "new tab"}
    \/ browser = "netscape" /\ place \in {"current", "new window"}
    \/ browser = "opera" /\ place = "current"
HasCommand(browser) == browser # "unknown"

\* uri_command: what it returns, and whether a browser shows the page or the user is told
\* that none does.  A command may be invalid, fail to start, or, when it is waited for,
\* end with a status.
UriCommand(known, sync) ==
    {[ret |-> 0, opened |-> 0, told |-> 1]}
    \cup (IF known THEN {[ret |-> 0, opened |-> 1, told |-> 0]} ELSE {})
    \cup (IF known /\ sync THEN {[ret |-> 2, opened |-> 0, told |-> 0]} ELSE {})

Outcome(first, second) == <<first.opened + second.opened, first.told + second.told>>
NoSecond == [ret |-> 0, opened |-> 0, told |-> 0]
\* beasy_notify_uri: the command itself only when the remote one returned a status.  A
\* custom browser without a command is told at once.
NotifyUri(browser, place) ==
    /\ IF browser = "custom, empty" THEN linkOutcome' = <<0, 1>>
       ELSE IF HasRemote(browser, place)
       THEN \E first \in UriCommand(TRUE, TRUE) :
                \E second \in IF first.ret # 0 THEN UriCommand(HasCommand(browser), FALSE) ELSE {NoSecond} :
                    linkOutcome' = Outcome(first, second)
       ELSE \E only \in UriCommand(HasCommand(browser), FALSE) : linkOutcome' = Outcome(NoSecond, only)
    /\ UNCHANGED <<reportExtra, reportPopups, reportWindow, reportFound>>

ReportsInit ==
    /\ reportExtra = [source \in {"qmon", "other"} |-> <<>>] /\ reportPopups = <<>> /\ reportWindow = NoWindow
    /\ reportFound = [cells |-> <<>>, options |-> [target |-> "none"]] /\ linkOutcome = <<1, 0>>

ReportsNext ==
    \/ \E cells \in QueuePage, options \in ReportOptions :
            QmonReport(cells, options) \/ NothingToReport(cells, options)
    \/ \E details \in OtherDetails : OtherPlugin(details)
    \/ \E k \in 1..MaxReportPopups : ExecuteInfo(k) \/ PopupGone(k)
    \/ \E browser \in Browser, place \in BrowserPlace : NotifyUri(browser, place)

ReportsSpec == ReportsInit /\ [][ReportsNext]_reportVars

-----------------------------------------------------------------------------
\* The rows of a page as they should be shown, and those the options ask for: of the
\* analyst, in the list, or all.
PageRows(cells) ==
    [row \in 1..(Len(cells) \div TableColumns) |->
        SubSeq(cells, (row - 1) * TableColumns + 1, row * TableColumns)]
FieldsOf(row) == [f \in DOMAIN ColumnIndex |-> row[ColumnIndex[f] + 1]]
AskedFor(rows, options) ==
    {i \in DOMAIN rows :
        /\ options.target = "analyst" => FieldsOf(rows[i]).analyst = options.analyst
        /\ options.target = "srlist" => FieldsOf(rows[i]).number \in ToSet(options.srlist)}

\* After a click on the popup of an update, the window shows the rows of the page that the
\* options ask for: each field under its heading, none missing, none of others, in the order
\* of the page (report_htmltable_parse to table_list_view_new).  Texts are compared as far
\* as their first ampersand, where xmlNewChild cuts them.
WindowShowsReport ==
    (reportExtra["qmon"] = <<>> /\ reportWindow.source = "qmon") =>
        LET page == PageRows(reportFound.cells)
            asked == AskedFor(page, reportFound.options)
            from == [i \in DOMAIN reportWindow.rows |->
                {n \in asked : \A f \in DOMAIN ColumnIndex : \A c \in DOMAIN HeaderNames :
                    HeaderNames[c] = Heading[f] =>
                        reportWindow.rows[i][c] = XmlContent(FieldsOf(page[n])[f])}]
        IN  /\ UNION {from[i] : i \in DOMAIN from} = asked
            /\ \A i \in DOMAIN from : from[i] # {}
            /\ \A i, j \in DOMAIN from : i < j => \E a \in from[i], b \in from[j] : a <= b

\* A link that is clicked is opened by one browser, or the user is told once that none
\* could be started (beasy_notify_uri).
LinkOpenedOrTold == linkOutcome[1] + linkOutcome[2] = 1

\* What was found in the queue reaches the user as it stands there.
ReportsAreTrue == WindowShowsReport /\ LinkOpenedOrTold
=============================================================================
