--------------------------- MODULE RequestHistory ---------------------------
(***************************************************************************)
(* The request history table of internal/storage/request_history.go, its   *)
(* retention (internal/httpserver/history_worker.go, retentionPass) and a  *)
(* client of GET /admin/v1/requests that pages through it.                 *)
(*                                                                         *)
(* Every SQL statement is one step.  listRequests runs its statements      *)
(* outside a transaction, so inserts and retention may come between them.  *)
(* The cursor is sealed: a client holds one that the gateway gave it, and  *)
(* may send it with another filter.  Columns that are only copied (status, *)
(* bytes, tokens, timings) are left out.                                   *)
(***************************************************************************)
EXTENDS Integers, Sequences, FiniteSets, SequencesExt

CONSTANTS
    Arrivals,        \* what is persisted: [id, key, finished, bodies] records;
                     \* an ID is an integer, as SQLite compares IDs
    HistoryKeys,     \* API keys of the api_keys table
    Cutoffs,         \* the times retentionPass derives from its clock
    PageLimit,       \* the client's limit
    RetentionLimit,  \* rows one retention statement removes
    MaxInserts,      \* bound on the rows ever inserted
    MaxTraversals    \* bound on the traversals of the client

\* listRequests refuses a limit that is not positive; IDs are not empty.
ASSUME HistoryAssumption ==
    /\ PageLimit \in Nat \ {0}
    /\ \A record \in Arrivals :
          record.id \in Nat \ {0} /\ record.finished \in Nat /\ record.bodies \in BOOLEAN

VARIABLES
    requests,     \* the requests table: a set of rows
    nextSequence, \* traversal_sequences.next_value
    deletionSeq,  \* traversal_sequences.deletion_seq
    retention,    \* retentionPass: the cutoffs between its two statements
    lister        \* the client and the listRequests call it is in

historyVars == <<requests, nextSequence, deletionSeq, retention, lister>>

Unknown == 0   \* finished_at IS NULL; SQLite sorts NULL below every value

NoKey == 0     \* the list filter without key_id

Filters == HistoryKeys \cup {NoKey}

NoCursor == [snapshot |-> 0, finished |-> Unknown, id |-> 0, filter |-> NoKey, deletion |-> 0]

(* population: the rows the first page saw at its fence, and atFence: the  *)
(* rows present when the fence was last read (history variables).          *)
FreshLister ==
    [at |-> "idle", cursor |-> NoCursor, filter |-> NoKey, snapshot |-> 0,
     deletion |-> 0, listed |-> <<>>, population |-> {}, atFence |-> {}, count |-> 0]

HistoryInit ==
    /\ requests = {}
    /\ nextSequence = 1
    /\ deletionSeq = 0
    /\ retention = [at |-> "idle", cutoff |-> 0]
    /\ lister = FreshLister

\* A row is identified by its insertion number: an ID may come back.
Numbers(rows) == {r.seq : r \in rows}

-----------------------------------------------------------------------------
(* Persist.  A duplicate ID or an unknown key rolls the transaction back;  *)
(* the insertion trigger numbers the row in the same transaction.          *)
Persist(record) ==
    /\ nextSequence <= MaxInserts
    /\ \A r \in requests : r.id # record.id
    /\ record.key \in Filters
    /\ requests' = requests \cup {[id |-> record.id, key |-> record.key,
                                   finished |-> record.finished,
                                   bodies |-> record.bodies, seq |-> nextSequence]}
    /\ nextSequence' = nextSequence + 1
    /\ UNCHANGED <<deletionSeq, retention, lister>>

Older(r, s) == r.finished < s.finished \/ (r.finished = s.finished /\ r.id < s.id)

(* The LIMIT oldest rows of a set, by (finished_at, request_id).           *)
OldestOf(rows, limit) ==
    {r \in rows : Cardinality({s \in rows : Older(s, r)}) < limit}

Before(cutoff) == {r \in requests : r.finished # Unknown /\ r.finished < cutoff}

(* retentionPass takes its cutoffs once; body and request rows are deleted *)
(* by two statements.  bodyRetention <= requestRetention is not required,  *)
(* so the two cutoffs are independent.                                     *)
DeleteBodiesBefore(bodyCutoff, cutoff) ==
    /\ retention.at = "idle"
    /\ LET due == OldestOf({r \in Before(bodyCutoff) : r.bodies}, RetentionLimit)
       IN  requests' = {IF r \in due THEN [r EXCEPT !.bodies = FALSE] ELSE r : r \in requests}
    /\ retention' = [at |-> "metadata", cutoff |-> cutoff]
    /\ UNCHANGED <<nextSequence, deletionSeq, lister>>

(* The deletion trigger counts every row; bodies go with their row.        *)
DeleteMetadataBefore ==
    /\ retention.at = "metadata"
    /\ LET due == OldestOf(Before(retention.cutoff), RetentionLimit)
       IN  /\ requests' = requests \ due
           /\ deletionSeq' = deletionSeq + Cardinality(due)
    /\ retention' = [at |-> "idle", cutoff |-> 0]
    /\ UNCHANGED <<nextSequence, lister>>

-----------------------------------------------------------------------------
(* listRequests                                                            *)

MaxSequence == Max({0} \cup Numbers(requests))

Selects(filter, snapshot, r) == r.seq <= snapshot /\ (filter = NoKey \/ r.key = filter)

Selected(filter, snapshot) == {r \in requests : Selects(filter, snapshot, r)}

(* The first page reads the insertion high-water mark, then the fence.     *)
BeginTraversal(filter) ==
    /\ lister.at = "idle"
    /\ lister.count < MaxTraversals
    /\ lister' = [FreshLister EXCEPT !.at = "fence", !.filter = filter,
                      !.snapshot = MaxSequence, !.count = lister.count + 1]
    /\ UNCHANGED <<requests, nextSequence, deletionSeq, retention>>

ReadFence ==
    /\ lister.at = "fence"
    /\ LET rows == Numbers(Selected(lister.filter, lister.snapshot))
       IN  lister' = [lister EXCEPT !.at = "query", !.deletion = deletionSeq,
                          !.population = rows, !.atFence = rows]
    /\ UNCHANGED <<requests, nextSequence, deletionSeq, retention>>

\* Mutant of FenceHolds: a row removed since the last page is not noticed.
FenceIgnored == TRUE

FenceHolds == deletionSeq = lister.cursor.deletion

(* A later page: the filter must be that of the cursor (else it is an      *)
(* invalid cursor and the client may send the right one), and no row may   *)
(* have gone since the first page (else the cursor has expired).           *)
Continue(filter) ==
    /\ lister.at = "more"
    /\ lister' = IF filter # lister.cursor.filter THEN lister
                 ELSE IF ~FenceHolds THEN [lister EXCEPT !.at = "expired"]
                 ELSE [lister EXCEPT !.at = "bookmark", !.snapshot = lister.cursor.snapshot,
                           !.deletion = deletionSeq,
                           !.atFence = Numbers(Selected(filter, lister.cursor.snapshot))]
    /\ UNCHANGED <<requests, nextSequence, deletionSeq, retention>>

(* The row of the cursor must still be there, with the same time.          *)
CheckBookmark ==
    /\ lister.at = "bookmark"
    /\ LET c == lister.cursor
           present == \E r \in requests : r.id = c.id /\ r.seq <= c.snapshot
                                          /\ r.finished = c.finished
       IN  lister' = [lister EXCEPT !.at = IF present THEN "query" ELSE "expired"]
    /\ UNCHANGED <<requests, nextSequence, deletionSeq, retention>>

AfterBookmark(r) ==
    LET c == lister.cursor IN
    c.id # 0 =>
        IF c.finished # Unknown
        THEN \/ r.finished = Unknown
             \/ r.finished < c.finished
             \/ r.finished = c.finished /\ r.id < c.id
        ELSE r.finished = Unknown /\ r.id < c.id

Remaining == {r \in Selected(lister.filter, lister.snapshot) : AfterBookmark(r)}

\* ORDER BY finished_at DESC, request_id DESC.
Place(r, rows) == 1 + Cardinality({s \in rows : Older(r, s)})
NewestFirst(rows) == [i \in 1 .. Cardinality(rows) |-> CHOOSE r \in rows : Place(r, rows) = i]

(* limit + 1 rows are read: one row more than the page tells whether a     *)
(* cursor follows, and the last row of the page is its bookmark.           *)
Query ==
    /\ lister.at = "query"
    /\ LET rows == NewestFirst(Remaining)
           last == rows[PageLimit]
       IN  lister' =
             IF Len(rows) <= PageLimit
             THEN [lister EXCEPT !.at = "complete", !.cursor = NoCursor, !.listed = @ \o rows]
             ELSE [lister EXCEPT !.at = "more", !.listed = @ \o SubSeq(rows, 1, PageLimit),
                      !.cursor = [snapshot |-> lister.snapshot, finished |-> last.finished,
                                  id |-> last.id, filter |-> lister.filter,
                                  deletion |-> lister.deletion]]
    /\ UNCHANGED <<requests, nextSequence, deletionSeq, retention>>

(* The client starts over, after the last page or an expired cursor.       *)
EndTraversal ==
    /\ lister.at \in {"complete", "expired"}
    /\ lister' = [FreshLister EXCEPT !.count = lister.count]
    /\ UNCHANGED <<requests, nextSequence, deletionSeq, retention>>

HistoryNext ==
    \/ \E record \in Arrivals : Persist(record)
    \/ \E b, c \in Cutoffs : DeleteBodiesBefore(b, c)
    \/ DeleteMetadataBefore
    \/ \E f \in Filters : BeginTraversal(f) \/ Continue(f)
    \/ ReadFence
    \/ CheckBookmark
    \/ Query
    \/ EndTraversal

HistorySpec == HistoryInit /\ [][HistoryNext]_historyVars

-----------------------------------------------------------------------------
(* Properties                                                              *)

Listed == Numbers(Range(lister.listed))

(***************************************************************************)
(* Whatever is inserted or removed while a client pages through the        *)
(* history, its pages are strictly newest first with no row twice and only *)
(* rows of the population its first page saw; and a traversal that ends    *)
(* without an expired cursor has missed no row of that population, except  *)
(* one removed between the fence check and the query of its last page.     *)
(***************************************************************************)
TraversalExact ==
    /\ \A i, j \in DOMAIN lister.listed :
            i < j => Older(lister.listed[j], lister.listed[i])
    /\ Listed \subseteq lister.population
    /\ lister.at = "complete" =>
            /\ lister.population = lister.atFence
            /\ lister.population \ Listed \subseteq lister.atFence \ Numbers(requests)
=============================================================================
