------------------------------ MODULE LogBuffer ------------------------------
(***************************************************************************)
(* The log lines that the server keeps in memory and the admin page that     *)
(* follows them: a ring whose ids never repeat while the server runs, a      *)
(* query that gives a window and the newest id, and a page whose full loads  *)
(* and polls overlap and whose answers arrive in any order.                  *)
(***************************************************************************)
EXTENDS Naturals, SequencesExt, Subsequences, NoneValue

CONSTANTS
  MaxEntries,   \* InMemoryLogBuffer.max_entries
  Limit,        \* the limit that the page asks for
  Flights,      \* requests that can be under way at once
  MaxLines,     \* bound: lines logged in one life of the server
  MaxLoads,     \* bound: full loads
  MaxStarts     \* bound: restarts

ASSUME LogBufferAssumption ==
  /\ MaxEntries \in Nat \ {0} /\ Limit \in Nat \ {0}
  /\ MaxLines \in Nat /\ MaxLoads \in Nat /\ MaxStarts \in Nat

VARIABLES
  lines,      \* the ring, oldest first
  newest,     \* the last id that _seq gave
  flights,    \* each request under way, with its reply once answered, or None
  form,       \* the filter in the page's form
  shown,      \* ids of the page's lines, from the top
  lastMaxId,  \* where the next poll starts, 0 for everything
  loads, starts,
  log,        \* history: the levels of the lines of this life of the server
  since,      \* history: the id from which the page follows the log
  filter,     \* history: the filter of the last full load
  torn        \* history: a gap that the page cannot know of

server == <<lines, newest, log>>
page == <<form, shown, lastMaxId, since, filter, torn>>
logVars == <<server, flights, page, loads, starts>>

Levels == {"info", "error"}
Filters == {"info", "error"}   \* min_level: every line, or the errors
Matches(level, f) == f = "info" \/ level = "error"

PageInit ==
  /\ lines = <<>> /\ newest = 0 /\ log = <<>>
  /\ flights = [n \in Flights |-> None]
  /\ form = "info" /\ shown = <<>> /\ lastMaxId = 0
  /\ since = 1 /\ filter = "info" /\ torn = TRUE
  /\ loads = 0 /\ starts = 0

-----------------------------------------------------------------------------
(* The server.                                                               *)

(* deque(maxlen): the oldest line makes room.                                *)
Ring(s) == IF Len(s) > MaxEntries THEN Tail(s) ELSE s

PushLine(level) ==
  /\ newest < MaxLines
  /\ newest' = newest + 1 /\ log' = Append(log, level)
  /\ lines' = Ring(Append(lines, [id |-> newest + 1, level |-> level]))

(* Any part of the program logs a line.                                      *)
Emit ==
  /\ \E level \in Levels : PushLine(level)
  /\ UNCHANGED <<flights, page, loads, starts>>

FirstId == IF lines = <<>> THEN newest + 1 ELSE lines[1].id

Filtered(after, f) ==
  Selected(lines, {line \in Range(lines) : line.id > after /\ Matches(line.level, f)})

(* The first of the lines after an id, but the last of all of them.          *)
Window(after, f) ==
  LET found == Filtered(after, f) IN
  IF Len(found) <= Limit THEN found
  ELSE IF after = 0 THEN SubSeq(found, Len(found) - Limit + 1, Len(found))
  ELSE SubSeq(found, 1, Limit)

(* The answer; and, for the properties, the first id it accounts for and     *)
(* whether it has every matching line from there on.                         *)
Reply(request, max) ==
  LET after == request.after
      cut == Len(Filtered(after, request.filter)) > Limit
      window == Window(after, request.filter)
  IN [ids |-> [n \in 1 .. Len(window) |-> window[n].id], max |-> max,
      from |-> IF after > 0 THEN after + 1 ELSE IF cut THEN window[1].id ELSE FirstId,
      whole |-> after = 0 \/ (FirstId <= after + 1 /\ ~ cut)]

(* A faulty variant: the newest id is read after the query has logged itself. *)
QueryLate(request) == Reply(request, newest + 1)

(* The newest id is that of the snapshot, whatever the filters leave of it.  *)
Query(request) == Reply(request, IF lines = <<>> THEN 0 ELSE newest)

Waits(n) == flights[n] # None /\ flights[n].reply = None
Answered(n) == flights[n] # None /\ flights[n].reply # None

(* api_logs: a query, and a line about the query.                            *)
Answer(n) ==
  /\ Waits(n) /\ flights' = [flights EXCEPT ![n].reply = Query(flights[n])]
  /\ PushLine("info") /\ UNCHANGED <<page, loads, starts>>

(* The process ends and another begins: the ids start again, and the page's  *)
(* requests fail.                                                            *)
RestartLog ==
  /\ starts < MaxStarts /\ starts' = starts + 1
  /\ lines' = <<>> /\ newest' = 0 /\ log' = <<>>
  /\ flights' = [n \in Flights |-> None] /\ torn' = TRUE
  /\ UNCHANGED <<form, shown, lastMaxId, since, filter, loads>>

-----------------------------------------------------------------------------
(* The page.                                                                 *)

Free == {n \in Flights : flights[n] = None}
Send(full, after) ==
  /\ Free # {}
  /\ flights' = [flights EXCEPT ![CHOOSE n \in Free : TRUE] =
                   [full |-> full, after |-> after, filter |-> form, reply |-> None]]

(* loadFull, as the page opens or its filters are applied.                   *)
LoadFull ==
  /\ loads < MaxLoads /\ loads' = loads + 1
  /\ Send(TRUE, 0) /\ UNCHANGED <<server, page, starts>>

(* pollTail: the timer does not wait for the answer before.                  *)
Poll == loads > 0 /\ Send(FALSE, lastMaxId) /\ UNCHANGED <<server, page, loads, starts>>

(* A field of the form changes: the polls take it at once.                   *)
TypeFilter ==
  /\ form' \in Filters \ {form}
  /\ UNCHANGED <<server, flights, shown, lastMaxId, since, filter, torn, loads, starts>>

Done(n) == flights' = [flights EXCEPT ![n] = None]

(* A fetch that fails is shown as an error, and changes nothing else.        *)
FetchFails(n) == flights[n] # None /\ Done(n) /\ UNCHANGED <<server, page, loads, starts>>

ApplyFull(n) ==
  LET a == flights[n].reply IN
  /\ Answered(n) /\ flights[n].full /\ Done(n)
  /\ shown' = a.ids /\ lastMaxId' = a.max
  /\ since' = a.from /\ filter' = flights[n].filter /\ torn' = FALSE
  /\ UNCHANGED <<server, form, loads, starts>>

(* An answer leaves a gap if the ring or the limit dropped lines of its range, *)
(* if it was asked with another filter, if it starts after an id that a slower *)
(* full load or Clear view has taken the page back before, and if it brings  *)
(* older lines than the page has.                                            *)
Upto == IF shown = <<>> \/ Last(shown) < lastMaxId THEN lastMaxId ELSE Last(shown)
Gap(a, f) == \/ ~ a.whole \/ f # filter
             \/ (Upto > 0 /\ (a.from > Upto + 1 \/ a.from < since))

(* Lines that are on the page already are passed over.                       *)
ApplyTail(n) ==
  LET a == flights[n].reply IN
  /\ Answered(n) /\ ~ flights[n].full /\ Done(n)
  /\ shown' = shown \o Selected(a.ids, Range(a.ids) \ Range(shown))
  /\ lastMaxId' = IF a.max = 0 THEN lastMaxId ELSE a.max
  /\ torn' = (torn \/ Gap(a, flights[n].filter))
  /\ since' = IF Upto = 0 THEN a.from ELSE since
  /\ UNCHANGED <<server, form, filter, loads, starts>>

(* Clear view: the next poll asks for everything again.                      *)
ClearView ==
  /\ shown # <<>> /\ shown' = <<>> /\ lastMaxId' = 0 /\ since' = lastMaxId + 1
  /\ UNCHANGED <<server, flights, form, filter, torn, loads, starts>>

PageNext ==
  \/ Emit \/ RestartLog \/ LoadFull \/ Poll \/ TypeFilter \/ ClearView
  \/ \E n \in Flights : Answer(n) \/ FetchFails(n) \/ ApplyFull(n) \/ ApplyTail(n)

PageSpec == PageInit /\ [][PageNext]_logVars

-----------------------------------------------------------------------------
(* Properties.                                                               *)

(* Whatever polls and loads overlap, and in whatever order they are answered, *)
(* the page has each matching line from the first it loaded up to the id that *)
(* its next poll starts after, once and in order, unless one of the gaps above *)
(* came between (monitoring/log_buffer.py:181-218, templates/logs.html:245-280). *)
PageFollowsLog ==
  torn \/ /\ Range(shown) = {id \in since .. Upto : Matches(log[id], filter)}
          /\ \A n, m \in DOMAIN shown : n < m => shown[n] < shown[m]
=============================================================================
