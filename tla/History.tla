------------------------------ MODULE History ------------------------------
(***************************************************************************)
(* The audit history.  Every edit of the Candidate ends in one save, which *)
(* replaces the stored document, compares it with the one it replaced, and *)
(* records one event per resource that moved; an act on the whole          *)
(* Candidate and a refusal are one event each.  Readers page through the   *)
(* collection, newest first, while it grows.                               *)
(*                                                                         *)
(* A request is split where it waits for MongoDB: after its load, after    *)
(* the replacement, and, since its events are stamped before they are      *)
(* sent, between their stamp and their arrival.  Before the first Snapshot *)
(* nothing is stored, and the Candidate derived then is empty.  Nothing is *)
(* deleted: no retention period is set, which is the default.              *)
(***************************************************************************)
EXTENDS Integers, Sequences, SequencesExt, FiniteSets, Lists

CONSTANTS
    Resources, Contents,
    Actors,             \* callers, each with one request at a time, Apchi itself among them
    MaxEvents,          \* bound: events stamped
    MaxTime,            \* bound: instants the clock tells apart
    PageSize,           \* the limit a reader asks for
    Absent

ASSUME HistoryAssumption ==
    /\ MaxEvents \in Nat /\ MaxTime \in Nat /\ PageSize \in Nat \ {0}
    /\ Absent \notin Contents \cup Resources \cup Actors
    /\ IsFiniteSet(Resources) /\ IsFiniteSet(Actors)

VARIABLES
    stored,         \* the stored Candidate: the content of each resource
    handler,        \* each caller's request
    events,         \* the audit collection
    clock, stamped, \* the instant, and how many events were stamped
    reader,         \* somebody reading the history, page by page
    unsaid          \* history: resources added, less resources removed, that no entry tells

historyVars == <<stored, handler, events, clock, stamped, reader, unsaid>>

Candidates == [Resources -> Contents \cup {Absent}]
NoHandler == [at |-> "idle", loaded |-> [r \in Resources |-> Absent],
              entries |-> {}, instant |-> 0, first |-> 0]

-----------------------------------------------------------------------------
(* What changed. *)

ChangesBetween(before, after) ==
    {[resource |-> r,
      action |-> CASE before[r] = Absent -> "created"
                   [] after[r] = Absent -> "removed"
                   [] OTHER -> "updated"] :
        r \in {x \in Resources : before[x] # after[x]}}

Says(entries, r) ==
    Cardinality({e \in entries : e.resource = r /\ e.action = "created"})
    - Cardinality({e \in entries : e.resource = r /\ e.action = "removed"})

\* Mutant of Replaced: what the request had loaded.
ReplacedLoaded(a) == handler[a].loaded

\* The document the write itself replaced.
Replaced(a) == stored

-----------------------------------------------------------------------------
(* Requests. *)

Writes(a, entries) ==
    handler' = [handler EXCEPT ![a] = [NoHandler EXCEPT
        !.at = IF entries = {} THEN "idle" ELSE "written", !.entries = entries]]

LoadCandidate(a) ==
    /\ handler[a].at = "idle"
    /\ handler' = [handler EXCEPT ![a].at = "loaded", ![a].loaded = stored]
    /\ UNCHANGED <<stored, events, clock, stamped, reader, unsaid>>

\* A create, an update, to the same content maybe, or a delete of one resource, in the
\* document that was loaded.  What is not in it cannot be deleted.
SaveEdit(a, r, content) ==
    LET document == [handler[a].loaded EXCEPT ![r] = content] IN
    /\ handler[a].at = "loaded" /\ {handler[a].loaded[r], content} # {Absent}
    /\ stored' = document
    /\ Writes(a, ChangesBetween(Replaced(a), document))
    /\ UNCHANGED <<events, clock, stamped, reader, unsaid>>

\* A Reset, an import or a Revert: one act, whatever it changed.
SaveWhole(a, document) ==
    /\ handler[a].at = "loaded"
    /\ stored' = document
    /\ unsaid' = [r \in Resources |-> unsaid[r] + Says(ChangesBetween(stored, document), r)]
    /\ Writes(a, {[resource |-> Absent, action |-> "whole"]})
    /\ UNCHANGED <<events, clock, stamped, reader>>

\* A gate, a check or the size of the document refuses the request.
Refuse(a) ==
    /\ handler[a].at \in {"idle", "loaded"}
    /\ Writes(a, {[resource |-> Absent, action |-> "attempted"]})
    /\ UNCHANGED <<stored, events, clock, stamped, reader, unsaid>>

\* All the events of one request carry one instant, and identifiers in a row.
Stamp(a) ==
    LET n == Cardinality(handler[a].entries) IN
    /\ handler[a].at = "written" /\ stamped + n <= MaxEvents
    /\ handler' = [handler EXCEPT ![a].at = "stamped", ![a].instant = clock,
                                  ![a].first = stamped + 1]
    /\ stamped' = stamped + n
    /\ UNCHANGED <<stored, events, clock, reader, unsaid>>

Record(a) ==
    LET h == handler[a]
        entries == SetToSeq(h.entries)
    IN  /\ h.at = "stamped"
        /\ events' = events \cup {[at |-> h.instant, id |-> h.first + i - 1, entry |-> entries[i]] : i \in DOMAIN entries}
        /\ handler' = [handler EXCEPT ![a] = NoHandler]
        /\ UNCHANGED <<stored, clock, stamped, reader, unsaid>>

\* The store refuses the events, or the indexes made before the first of them.  The change
\* stands, and the request reports an error, or the refusal it was.
RecordFails(a) ==
    /\ handler[a].at \in {"written", "stamped"}
    /\ unsaid' = [r \in Resources |-> unsaid[r] + Says(handler[a].entries, r)]
    /\ handler' = [handler EXCEPT ![a] = NoHandler]
    /\ UNCHANGED <<stored, events, clock, stamped, reader>>

Tick ==
    /\ clock < MaxTime /\ clock' = clock + 1
    /\ UNCHANGED <<stored, handler, events, stamped, reader, unsaid>>

-----------------------------------------------------------------------------
(* Reading. *)

Newer(e, f) == e.at > f.at \/ (e.at = f.at /\ e.id > f.id)

\* Mutant of After: the instant alone.
AfterInstant(e, cursor) == e.at < cursor.at

\* Strictly below the cursor.
After(e, cursor) == e.at < cursor.at \/ (e.at = cursor.at /\ e.id < cursor.id)

\* One more than asked for is read, to say whether there is another page.
Page(found) ==
    LET rows == Sorted(found, Newer)
        shown == SubSeq(rows, 1, IF Len(rows) < PageSize THEN Len(rows) ELSE PageSize)
    IN  [items |-> shown, more |-> Len(rows) > PageSize]

Resting == [at |-> "idle", got |-> <<>>, owed |-> {}]

Shows(page, owed) ==
    reader' = [at |-> IF page.more THEN "paging" ELSE "done",
               got |-> reader.got \o page.items, owed |-> owed]

FirstPage ==
    /\ reader.at = "idle" /\ events # {}
    /\ Shows(Page(events), events)
    /\ UNCHANGED <<stored, handler, events, clock, stamped, unsaid>>

\* The page whose cursor names the last row seen.
NextPage ==
    /\ reader.at = "paging"
    /\ Shows(Page({e \in events : After(e, Last(reader.got))}), reader.owed)
    /\ UNCHANGED <<stored, handler, events, clock, stamped, unsaid>>

\* The reader turns to something else.
Leave ==
    /\ reader.at = "done" /\ reader' = Resting
    /\ UNCHANGED <<stored, handler, events, clock, stamped, unsaid>>

-----------------------------------------------------------------------------

HistoryInit ==
    /\ stored = [r \in Resources |-> Absent]
    /\ handler = [a \in Actors |-> NoHandler]
    /\ events = {} /\ clock = 1 /\ stamped = 0
    /\ reader = Resting
    /\ unsaid = [r \in Resources |-> 0]

Changing(a) ==
    \/ LoadCandidate(a) \/ Refuse(a) \/ Stamp(a) \/ Record(a)
    \/ \E r \in Resources, content \in Contents \cup {Absent} : SaveEdit(a, r, content)

Unsaying(a) ==
    \/ RecordFails(a)
    \/ \E document \in Candidates : SaveWhole(a, document)

Reading == Tick \/ FirstPage \/ NextPage \/ Leave

HistoryNext ==
    \/ \E a \in Actors : Changing(a) \/ Unsaying(a)
    \/ Reading

HistorySpec == HistoryInit /\ [][HistoryNext]_historyVars

-----------------------------------------------------------------------------
(* Properties. *)

Pending == UNION {{[by |-> a, entry |-> x] : x \in handler[a].entries} : a \in Actors}

\* "The pre-image is the document this call replaced rather than one another request may have
\* changed in between" (candidate.py): however requests overlap and overwrite one another, what
\* the events say was created, less what they say was removed, with the entries on their way,
\* is what the Candidate holds; but for acts on the whole Candidate and events the store refused.
TrailAddsUp ==
    \A r \in Resources :
        LET Moves(action) ==
                Cardinality({e \in events : e.entry = [resource |-> r, action |-> action]})
                + Cardinality({p \in Pending : p.entry = [resource |-> r, action |-> action]})
        IN  Moves("created") - Moves("removed") + unsaid[r]
                = IF stored[r] = Absent THEN 0 ELSE 1

\* "A cursor names the last row seen, which cannot drift" (pages.py): whatever arrives between
\* two pages, and however many events share an instant, a reader is shown no event twice, the
\* newer always before the older, and has missed none of those that were there when the reading
\* began.
PagesMissNothing ==
    /\ \A i, j \in DOMAIN reader.got : i < j => Newer(reader.got[i], reader.got[j])
    /\ \A e \in reader.owed :
          \/ e \in Range(reader.got)
          \/ reader.at = "paging" /\ Newer(Last(reader.got), e)

=============================================================================
