------------------------------ MODULE EventLog ------------------------------
(***************************************************************************)
(* The local event log ~/.mcpseal/events.jsonl: appended to by every proxy *)
(* of the user, of either port, and read whole by status, doctor and       *)
(* shipping (appendEvent, readEvents and recentBlocks of                   *)
(* packages/cli-node/src/event-log.ts, and event_log.py).                  *)
(*                                                                         *)
(* A process stamps its event and then appends it; the append of a process *)
(* that is killed may be cut short, and the next one then continues its    *)
(* line.  Time is counted in microseconds of a clock that the system may   *)
(* advance in larger steps.  The Node port stamps milliseconds, the Python *)
(* port microseconds, both as text that ends in Z; as text, Z comes after  *)
(* the digits, so that a time of Node compares as later than all the times *)
(* of Python in its millisecond.                                           *)
(***************************************************************************)
EXTENDS Naturals, Sequences, FiniteSets

CONSTANTS
  Writers,      \* processes, each with one event
  Ports,        \* the ports they are of: node, python
  Grain,        \* microseconds in a millisecond
  MaxTime,      \* end of the clock (a bound)
  MaxTears,     \* appends cut short (a bound)
  Limit         \* of recentBlocks

EventLogAssumption ==
  /\ Ports \subseteq {"node", "python"}
  /\ Grain \in Nat \ {0}
  /\ {MaxTime, MaxTears, Limit} \subseteq Nat

VARIABLES
  now,
  events,     \* by process: its event, once stamped
  log,        \* what was appended, in order: process and form
  before      \* history: by process, whose appends were complete when it stamped

vars == <<now, events, log, before>>

NoEvent == [stage |-> "none", key |-> <<0, 0>>, blocked |-> FALSE]

Init ==
  /\ now = 0
  /\ events = [w \in Writers |-> NoEvent]
  /\ log = <<>>
  /\ before = [w \in Writers |-> {}]

Tick ==
  /\ now < MaxTime
  /\ now' = now + 1
  /\ UNCHANGED <<events, log, before>>

Complete == {log[i].by : i \in {j \in 1..Len(log) : log[j].form = "whole"}}

\* The time stamp as the text compares: the millisecond, and what follows it.
Stamp(port) == <<now \div Grain, IF port = "node" THEN Grain ELSE now % Grain>>

StampEvent(w) ==
  /\ events[w].stage = "none"
  /\ \E port \in Ports, blocked \in BOOLEAN :
       events' = [events EXCEPT ![w] =
                    [stage |-> "stamped", key |-> Stamp(port), blocked |-> blocked]]
  /\ before' = [before EXCEPT ![w] = Complete]
  /\ UNCHANGED <<now, log>>

Append1(w, form) ==
  /\ events[w].stage = "stamped"
  /\ events' = [events EXCEPT ![w].stage = IF form = "whole" THEN "logged" ELSE "torn"]
  /\ log' = Append(log, [by |-> w, form |-> form])
  /\ UNCHANGED <<now, before>>

AppendEvent(w) == Append1(w, "whole")

Tears == Cardinality({i \in 1..Len(log) : log[i].form # "whole"})

\* Killed in the middle of the line, or after all of it but the newline.
AppendTorn(w) ==
  /\ Tears < MaxTears
  /\ \E form \in {"fragment", "unterminated"} : Append1(w, form)

\* Nothing was written: killed before, or the directory cannot be written to.
AppendFails(w) ==
  /\ events[w].stage = "stamped"
  /\ events' = [events EXCEPT ![w].stage = "torn"]
  /\ UNCHANGED <<now, log, before>>

Next ==
  \/ Tick
  \/ \E w \in Writers : StampEvent(w) \/ AppendEvent(w) \/ AppendTorn(w) \/ AppendFails(w)

Spec == Init /\ [][Next]_vars

-----------------------------------------------------------------------------
(***************************************************************************)
(* Reading                                                                 *)
(***************************************************************************)
StartsLine(i) == i = 1 \/ log[i - 1].form = "whole"

\* Lines that are JSON: a whole append on a line of its own, or the last one without
\* its newline.
IsJson(i) ==
  /\ StartsLine(i)
  /\ \/ log[i].form = "whole"
     \/ log[i].form = "unterminated" /\ i = Len(log)

\* Faulty: the read fails at the first line that is not JSON.
ReadUpToError ==
  {i \in 1..Len(log) : \A j \in 1..i : IsJson(j)}

\* readEvents, by position in the log: a line that is not JSON is skipped.
ReadEvents == {i \in 1..Len(log) : IsJson(i)}

Key(i) == events[log[i].by].key

Later(a, b) == a[1] > b[1] \/ (a[1] = b[1] /\ a[2] > b[2])

\* Faulty: only the time is compared, and the sort is stable.
NewerByTime(i, j) == Later(Key(i), Key(j)) \/ (Key(i) = Key(j) /\ i < j)

Newer(i, j) == Later(Key(i), Key(j)) \/ (Key(i) = Key(j) /\ i > j)

Blocked == {i \in ReadEvents : events[log[i].by].blocked}

\* recentBlocks sorts the blocked events, newest first: the place of one is the
\* number of those before it.  The list is cut at the limit.
Place(i)     == Cardinality({j \in Blocked : Newer(j, i)})
RecentBlocks == {i \in Blocked : Place(i) < Limit}

-----------------------------------------------------------------------------
(***************************************************************************)
(* Properties                                                              *)
(***************************************************************************)

\* "silently misreporting which tool was blocked last" (event-log.ts:93) does not
\* happen: a block that was in the log before another was recorded is not shown
\* above it, and not instead of it.
NewestFirst ==
  \A i \in RecentBlocks, j \in Blocked :
    log[i].by \in before[log[j].by] => j \in RecentBlocks /\ Place(j) < Place(i)

\* A corrupted line is skipped (event-log.ts:78-80), and an append that was cut short
\* costs at most one event besides its own: the one that continues its line.
LossBounded ==
  Cardinality({i \in 1..Len(log) : log[i].form = "whole" /\ i \notin ReadEvents}) <= Tears

=============================================================================
