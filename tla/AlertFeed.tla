------------------------------ MODULE AlertFeed ------------------------------
(***************************************************************************)
(* The alerts table and its endpoints (app/api/alerts.py, list_alerts and  *)
(* update_alert_status in app/db/repositories.py): a list with filters and *)
(* pages, and a patch of an alert's status. Both are several statements;   *)
(* each sees what was committed before it.                                 *)
(***************************************************************************)
EXTENDS ProfileUpdates, SequencesExt

CONSTANTS
  Users,
  Filters,   \* the filters readers use
  PageSize,  \* their limit
  Readers,   \* bound: clients that read the feed from its first page to its last
  Patches    \* bound: the PATCH requests

ASSUME FeedAssumption ==
  /\ PageSize \in Nat \ {0}
  /\ NULL \notin Users \cup Filters

VARIABLES
  feed,    \* rows of the alerts table, numbered in commit order
  reader,  \* client -> how far it has read
  patch    \* PATCH request -> where it stands

feedVars == <<feed, reader, patch>>

AlertStatuses == {"open", "ack", "resolved"}

AlertRow ==
  [user : Users, at : Time, score : Stored, threshold : Stored,
   dominant : Techniques, status : AlertStatuses]

(* before is history: the alerts there were when the client began.         *)
ReaderState ==
  [stage : {"new", "asking", "counted", "done"}, filter : Maybe(Filters),
   offset : Nat, total : Nat, page : SUBSET Nat, seen : SUBSET Nat,
   before : SUBSET Nat]

(* after is history: the patches of this alert answered before this one    *)
(* came in.                                                                *)
PatchRequest ==
  [stage : {"new", "loaded", "flushed", "committed", "answered",
            "unanswered", "lost"},
   alert : Nat, loaded : Maybe(AlertStatuses), asked : Maybe(AlertStatuses),
   answer : Maybe(AlertStatuses), after : SUBSET Patches]

FeedInit ==
  /\ feed = <<>>
  /\ reader = [r \in Readers |->
       [stage |-> "new", filter |-> NULL, offset |-> 0, total |-> 0,
        page |-> {}, seen |-> {}, before |-> {}]]
  /\ patch = [p \in Patches |->
       [stage |-> "new", alert |-> 0, loaded |-> NULL, asked |-> NULL,
        answer |-> NULL, after |-> {}]]

-----------------------------------------------------------------------------
(* create_alert; the status is the column's default.                       *)
CreateAlert(rows, u, now, alert, threshold) ==
  Append(rows, [user |-> u, at |-> now, score |-> alert.score,
                threshold |-> Rounded(threshold),
                dominant |-> alert.dominant, status |-> "open"])

Passes(filter, row) ==
  /\ filter.status # NULL => row.status = filter.status
  /\ filter.user # NULL => row.user = filter.user
  /\ filter.since # NULL => row.at >= filter.since

Matching(filter) == {i \in DOMAIN feed : Passes(filter, feed[i])}

(* Newest first; equal times in any order.                                 *)
Orders(rows) ==
  {s \in SetToSeqs(rows) :
     \A j, k \in DOMAIN s : j < k => feed[s[j]].at >= feed[s[k]].at}

PageSwapped(s, limit, offset) ==  \* mutant: limit and offset changed places
  {s[k] : k \in DOMAIN s \cap (limit + 1 .. limit + offset)}

Page(s, limit, offset) == {s[k] : k \in DOMAIN s \cap (offset + 1 .. offset + limit)}

-----------------------------------------------------------------------------
(* A client asks for one page after the other until a page is not full.    *)
BeginListing(r, filter) ==
  /\ reader[r].stage = "new"
  /\ reader' = [reader EXCEPT ![r].stage = "asking", ![r].filter = filter,
                              ![r].before = Matching(filter)]
  /\ UNCHANGED <<feed, patch>>

CountEverything(r) ==  \* mutant: the count without the filters
  /\ reader[r].stage = "asking"
  /\ reader' = [reader EXCEPT ![r].stage = "counted", ![r].total = Len(feed)]
  /\ UNCHANGED <<feed, patch>>

(* list_alerts counts with one statement and reads the page with another.  *)
CountAlerts(r) ==
  /\ reader[r].stage = "asking"
  /\ reader' = [reader EXCEPT ![r].stage = "counted",
                              ![r].total = Cardinality(Matching(reader[r].filter))]
  /\ UNCHANGED <<feed, patch>>

ReadPage(r) ==
  LET q == reader[r] IN
  /\ q.stage = "counted"
  /\ \E s \in Orders(Matching(q.filter)) :
       LET items == Page(s, PageSize, q.offset)
           short == Cardinality(items) < PageSize
       IN  reader' = [reader EXCEPT ![r] =
             [q EXCEPT !.stage = IF short THEN "done" ELSE "asking",
                       !.offset = IF short THEN @ ELSE @ + PageSize,
                       !.page = items, !.seen = @ \cup items]]
  /\ UNCHANGED <<feed, patch>>

-----------------------------------------------------------------------------
(* update_alert_status: the row is selected, the attribute assigned.       *)
LoadAlert(p, i, status) ==
  /\ patch[p].stage = "new"
  /\ patch' = [patch EXCEPT ![p] =
       [stage |-> "loaded", alert |-> i, loaded |-> feed[i].status,
        asked |-> status, answer |-> NULL,
        after |-> {q \in Patches : patch[q].stage = "answered" /\ patch[q].alert = i}]]
  /\ UNCHANGED <<feed, reader>>

(* SQLAlchemy sends no UPDATE for an attribute that is what it was.        *)
Updates(p) == patch[p].asked # patch[p].loaded

(* An UPDATE waits for the row while another transaction has changed it.   *)
FlushPatch(p) ==
  /\ patch[p].stage = "loaded"
  /\ Updates(p) =>
       ~\E q \in Patches : /\ patch[q].stage = "flushed"
                           /\ patch[q].alert = patch[p].alert
                           /\ Updates(q)
  /\ patch' = [patch EXCEPT ![p].stage = "flushed"]
  /\ UNCHANGED <<feed, reader>>

CommitNothing(p) ==  \* mutant: the handler answers without a commit
  /\ patch[p].stage = "flushed"
  /\ patch' = [patch EXCEPT ![p].stage = "committed"]
  /\ UNCHANGED <<feed, reader>>

CommitPatch(p) ==
  /\ patch[p].stage = "flushed"
  /\ feed' = IF Updates(p)
               THEN [feed EXCEPT ![patch[p].alert].status = patch[p].asked]
               ELSE feed
  /\ patch' = [patch EXCEPT ![p].stage = "committed"]
  /\ UNCHANGED reader

AnswerAsLoaded(p) ==  \* mutant: answers with the row read before the change
  /\ patch[p].stage = "committed"
  /\ patch' = [patch EXCEPT ![p].stage = "answered", ![p].answer = patch[p].loaded]
  /\ UNCHANGED <<feed, reader>>

(* The commit expired the row: the answer reads it again.                  *)
AnswerPatch(p) ==
  /\ patch[p].stage = "committed"
  /\ patch' = [patch EXCEPT ![p].stage = "answered",
                            ![p].answer = feed[patch[p].alert].status]
  /\ UNCHANGED <<feed, reader>>

(* The process dies: what is not committed is rolled back. Clients keep    *)
(* what they have read and ask again.                                      *)
DropRequests ==
  /\ patch' = [p \in Patches |->
       CASE patch[p].stage = "committed" -> [patch[p] EXCEPT !.stage = "unanswered"]
         [] patch[p].stage \in {"loaded", "flushed"} -> [patch[p] EXCEPT !.stage = "lost"]
         [] OTHER -> patch[p]]
  /\ reader' = [r \in Readers |->
       IF reader[r].stage = "counted" THEN [reader[r] EXCEPT !.stage = "asking"]
                                      ELSE reader[r]]
  /\ UNCHANGED feed

FeedStep ==
  \/ \E r \in Readers : CountAlerts(r) \/ ReadPage(r)
  \/ \E p \in Patches : FlushPatch(p) \/ CommitPatch(p) \/ AnswerPatch(p)
=============================================================================
