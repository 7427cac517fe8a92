------------------------------- MODULE LiveLogs -------------------------------
(***************************************************************************)
(* The page of request logs that updates itself, live_logs_entrypoint.py.   *)
(*                                                                         *)
(* A middleware keeps a row in ActiveRequests while a chat request is under *)
(* way; the request writes a row of Logs when it ends.  A page asks every   *)
(* second for the rows after the last it knows, and for the running         *)
(* requests; the two tables are read one after the other, in between which  *)
(* requests come and go.  Rows of Logs are numbers, their ids.              *)
(***************************************************************************)
EXTENDS Integers, Sequences, SequencesExt

CONSTANTS
    Slots,      \* requests at a time
    Pages,      \* open pages
    Recent,     \* the rows list_logs looks at, and the rows a page keeps: 200
    Limit,      \* the rows of one answer: 100
    ArrivalCap, \* bound: requests
    FaultCap    \* bound: restarts, and polls without an answer

None == [none |-> TRUE]

Ids == 1..ArrivalCap

ASSUME LiveLogsAssumption ==
    Recent \in Nat \ {0} /\ Limit \in 1..Recent /\ ArrivalCap \in Nat /\ FaultCap \in Nat

VARIABLES
    logs,       \* rows in Logs
    markers,    \* the ids in ActiveRequests
    requests,   \* chat requests under way
    pages,      \* what each page shows and knows, and the answer it waits for
    arrivals,   \* requests so far
    faults,
    orphans,    \* history: markers whose request ended without finish_active_request
    flooded     \* history: pages that one answer told of fewer rows than there were

logsVars == <<logs, markers, requests, pages, arrivals, faults, orphans, flooded>>

\* The newest n rows, the newest first.
Newest(n) == [i \in 1..(IF logs < n THEN logs ELSE n) |-> logs - i + 1]

\* The page as admin_logs renders it: the newest rows, and none that are running.
Rendered == [rows |-> Newest(Recent), running |-> {}, latest |-> logs, answer |-> None]

LogsInit ==
    /\ logs = 0 /\ markers = {}
    /\ requests = [s \in Slots |-> None]
    /\ pages = [p \in Pages |-> Rendered]
    /\ arrivals = 0 /\ faults = 0
    /\ orphans = {} /\ flooded = {}

-----------------------------------------------------------------------------
(* Requests: track_running_requests around the handler *)

\* Background requests, other paths and bodies that cannot be read have no marker.
Arrive(s) ==
    /\ requests[s] = None
    /\ arrivals < ArrivalCap
    /\ arrivals' = arrivals + 1
    /\ \E tracked \in BOOLEAN :
         /\ requests' = [requests EXCEPT ![s] =
                [id |-> arrivals + 1, tracked |-> tracked, logged |-> FALSE]]
         /\ markers' = IF tracked THEN markers \cup {arrivals + 1} ELSE markers
    /\ UNCHANGED <<logs, pages, faults, orphans, flooded>>

\* insert_log: at the end of a stream, or before the response is returned.
Log(s) ==
    /\ requests[s] # None
    /\ ~requests[s].logged
    /\ logs' = logs + 1
    /\ requests' = [requests EXCEPT ![s].logged = TRUE]
    /\ UNCHANGED <<markers, pages, arrivals, faults, orphans, flooded>>

\* finish_active_request
Removed(id) == markers \ {id}

\* Mutant: the marker is only removed at the end of a response.
AfterRaiseKept(id) == markers

AfterRaise(id) == Removed(id)

Gone(s) ==
    /\ requests[s] # None
    /\ requests' = [requests EXCEPT ![s] = None]
    /\ UNCHANGED <<logs, pages, arrivals>>

\* The body has been sent, or its sending has been broken off; a request that was
\* refused has logged nothing.
Finish(s) ==
    /\ Gone(s)
    /\ markers' = Removed(requests[s].id)
    /\ UNCHANGED <<faults, orphans, flooded>>

\* The handler raises what no exception handler takes.
Raise(s) ==
    /\ Gone(s)
    /\ markers' = AfterRaise(requests[s].id)
    /\ UNCHANGED <<faults, orphans, flooded>>

\* The client is gone before the body is begun: CancelledError is no Exception,
\* and a generator that was never started has no finally.
Abandon(s) ==
    /\ Gone(s)
    /\ faults < FaultCap
    /\ faults' = faults + 1
    /\ orphans' = IF requests[s].tracked THEN orphans \cup {requests[s].id} ELSE orphans
    /\ UNCHANGED <<markers, flooded>>

\* The tables stay.
Restart ==
    /\ faults < FaultCap
    /\ faults' = faults + 1
    /\ requests' = [s \in Slots |-> None]
    /\ orphans' = markers
    /\ UNCHANGED <<logs, markers, pages, arrivals, flooded>>

-----------------------------------------------------------------------------
(* Pages *)

\* The last row that is known, or that is too old for list_logs to look at.
Before(id) == IF logs - Recent > id THEN logs - Recent ELSE id

\* list_logs_after_id, first half: of the recent rows the oldest that are new,
\* "newest-first" reversed.
NewRows(id) ==
    LET new == logs - Before(id) IN
    [i \in 1..(IF new < Limit THEN new ELSE Limit) |-> Before(id) + i]

Ask(p) ==
    /\ pages[p].answer = None
    /\ LET known == pages[p].latest IN
         /\ pages' = [pages EXCEPT ![p].answer =
                [rows |-> NewRows(known), latest |-> logs, running |-> None]]
         /\ flooded' = IF logs - known > Limit THEN flooded \cup {p} ELSE flooded
    /\ UNCHANGED <<logs, markers, requests, arrivals, faults, orphans>>

\* The second half: list_active_requests.
ReadRunning(p) ==
    /\ pages[p].answer # None
    /\ pages[p].answer.running = None
    /\ pages' = [pages EXCEPT ![p].answer.running = [ids |-> markers]]
    /\ UNCHANGED <<logs, markers, requests, arrivals, faults, orphans, flooded>>

\* addLog: a new row goes on top, and the last goes if there are too many.
AddLog(rows, row) ==
    IF Contains(rows, row) THEN rows
    ELSE LET more == <<row>> \o rows IN
         SubSeq(more, 1, IF Len(more) < Recent THEN Len(more) ELSE Recent)

\* The rows after addLog for each of the rows of an answer.
Shown(rows, new) ==
    LET shown[n \in 0..Len(new)] == IF n = 0 THEN rows ELSE AddLog(shown[n - 1], new[n])
    IN  shown[Len(new)]

\* Mutant: the page goes on from the rows it has seen the server have since.
LatestOfNow(p) == logs

\* The latest of the answer, though the answer may not hold all rows up to it.
LatestOf(p) ==
    IF pages[p].latest > pages[p].answer.latest THEN pages[p].latest
    ELSE pages[p].answer.latest

\* poll, from the answer on: addLog for each row, syncRunning.
Show(p) ==
    /\ pages[p].answer # None
    /\ pages[p].answer.running # None
    /\ pages' = [pages EXCEPT ![p] =
           [rows |-> Shown(pages[p].rows, pages[p].answer.rows),
            running |-> pages[p].answer.running.ids,
            latest |-> LatestOf(p),
            answer |-> None]]
    /\ UNCHANGED <<logs, markers, requests, arrivals, faults, orphans, flooded>>

\* The page asks again later, for the same rows.
PollFails(p) ==
    /\ pages[p].answer # None
    /\ faults < FaultCap
    /\ faults' = faults + 1
    /\ pages' = [pages EXCEPT ![p].answer = None]
    /\ UNCHANGED <<logs, markers, requests, arrivals, orphans, flooded>>

Reload(p) ==
    /\ pages' = [pages EXCEPT ![p] = Rendered]
    /\ flooded' = flooded \ {p}
    /\ UNCHANGED <<logs, markers, requests, arrivals, faults, orphans>>

PollStep(p) == Ask(p) \/ ReadRunning(p) \/ Show(p)

LogsNext ==
    \/ \E s \in Slots : Arrive(s) \/ Log(s) \/ Finish(s) \/ Raise(s) \/ Abandon(s)
    \/ Restart
    \/ \E p \in Pages : PollStep(p) \/ PollFails(p) \/ Reload(p)

\* A page that is shown polls on and on; a request ends, at last by a timeout.
FairSpec ==
    /\ LogsInit /\ [][LogsNext]_logsVars
    /\ \A p \in Pages : WF_logsVars(PollStep(p))
    /\ \A s \in Slots : WF_logsVars(Finish(s) \/ Raise(s))

-----------------------------------------------------------------------------
(* Properties *)

\* A page shows the newest rows up to the last it was told of, all of them, each
\* once and the newest first, whatever is logged between and during the polls,
\* and when polls fail: "without losing the database order".  After more than
\* Limit new rows in one answer some are missing.
RowsComplete ==
    \A p \in Pages :
        LET rows == pages[p].rows IN
        /\ \A i \in 1..(Len(rows) - 1) : rows[i] > rows[i + 1]
        /\ p \notin flooded =>
               /\ \A i \in DOMAIN rows : rows[i] = pages[p].latest - i + 1
               /\ Len(rows) = IF pages[p].latest < Recent THEN pages[p].latest ELSE Recent

\* In the end each page knows of the last row, and the requests it shows as
\* running are those that never got to finish_active_request.
PagesSettle ==
    <>[](\A p \in Pages : pages[p].latest = logs /\ pages[p].running \subseteq orphans)
=============================================================================
