----------------------------- MODULE EventStream -----------------------------
(***************************************************************************)
(* The stream of a run's events that api/app.py serves over HTTP.  A turn  *)
(* of its loop reads a page of events in one transaction and the run in    *)
(* another; the client connects, and connects again, with any cursor.      *)
(*                                                                         *)
(* The log only grows, so that whatever happened between the two reads the *)
(* page comes from the events there were at the first one: `seen' of those *)
(* there are when the run is read.  The heartbeat and the wait between two *)
(* turns are left out.  The transcript of a session is read in pages too.  *)
(***************************************************************************)
EXTENDS RunService

CONSTANT PageSize   (* The limit of a page. *)

ASSUME PageSizeIsPositive == PageSize \in Nat \ {0}

TerminalEvent == {"answer.final", "run.completed_with_limits", "run.needs_clarification",
                  "run.failed", "run.cancelled", "run.interrupted"}

StreamEndStatus == Terminal \cup {"interrupted"}

(* list_events: what follows the cursor, a page at most. *)
ListEvents(r, cursor, seen) ==
  SubSeq(events[r], cursor + 1, IF cursor + PageSize < seen THEN cursor + PageSize ELSE seen)

(* Mutant: a run that has ended ends the stream, delivered or not. *)
AllDelivered_StatusOnly(r, cursor) == runs[r].status \in StreamEndStatus

(* The run, read after the page, has ended and nothing is left to deliver. *)
AllDelivered(r, cursor) ==
  runs[r].status \in StreamEndStatus /\ cursor >= Len(events[r])

(* Whether the turn that delivers a page, and leaves the cursor there, is  *)
(* the last one.                                                           *)
LastTurn(r, page, cursor) ==
  \/ \E n \in DOMAIN page : page[n] \in TerminalEvent
  \/ AllDelivered(r, cursor)

(* list_messages: a page of the transcript, and where the next one starts.  *)
ListMessages(s, after) ==
  LET rows == SubSeq(messages[s], after + 1, Len(messages[s])) IN
  IF Len(rows) > PageSize
  THEN [page |-> SubSeq(rows, 1, PageSize), next |-> after + PageSize]
  ELSE [page |-> rows, next |-> None]

-----------------------------------------------------------------------------
(* Properties *)

(* The pages of a transcript, each read from where the one before ended,    *)
(* show every question that was accepted, answered or not, and no answer    *)
(* without its question before it.                                          *)
TranscriptIsWhole(s) ==
  LET starts == {n \in 0..Len(messages[s]) : n % PageSize = 0}
      reached == {n \in starts :
        \A m \in starts : m < n => ListMessages(s, m).next = m + PageSize}
      shown == UNION {{m + n : n \in DOMAIN ListMessages(s, m).page} : m \in reached}
  IN \A r \in Run : runs[r].session = s =>
       \E n \in shown :
         /\ messages[s][n] = [run |-> r, role |-> "user"]
         /\ runs[r].status \in Answered =>
              n + 1 \in shown /\ messages[s][n + 1] = [run |-> r, role |-> "assistant"]

(* However a run ends while its events are read, its stream is closed only *)
(* with the whole log delivered, or with an interruption in the last page; *)
(* and it does not turn in vain on a run that has stopped.  A full page is *)
(* the same however many events there are.                                 *)
StreamsDeliver(r) ==
  \A cursor \in 0..Len(events[r]) : \A ahead \in 0..PageSize :
    cursor + ahead <= Len(events[r]) =>
      \E page \in {ListEvents(r, cursor, cursor + ahead)} :
        IF LastTurn(r, page, cursor + ahead)
        THEN \/ cursor + ahead = Len(events[r])
             \/ \E n \in DOMAIN page : page[n] = "run.interrupted"
        ELSE cursor + ahead = Len(events[r]) => ahead > 0

(* The events tell the state of a run, the stream tells the events, and the *)
(* transcript of a session tells its questions and answers.                *)
EventsAreDelivered ==
  /\ EventsTellTheState
  /\ \A s \in Session : TranscriptIsWhole(s)
  /\ \A r \in Run : runs[r].status \in StreamEndStatus => StreamsDeliver(r)
=============================================================================
