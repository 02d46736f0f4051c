---------------------------- MODULE WorkSegments ----------------------------
(***************************************************************************)
(* The recorded work time of one task: the `workSegments` array of a row   *)
(* of the tasks table and the functions that close, correct and bill it    *)
(* (convex/lib/taskClosureGate.ts).  A segment is open while its `end` is  *)
(* undefined.  Time is counted in ticks; TicksPerMinute of them make the   *)
(* minute the code rounds to.                                              *)
(***************************************************************************)
EXTENDS Integers, Sequences, FiniteSets

CONSTANTS
  Undefined,          \* the absent value of an optional column
  TicksPerMinute,     \* clock ticks in a minute (60000 in the code)
  MaxSegmentMinutes   \* taskClosureConfig "maxSegmentMinutes"

ASSUME SegmentsAssumption ==
  /\ Undefined \notin Int
  /\ TicksPerMinute \in Nat \ {0}
  /\ MaxSegmentMinutes \in Nat \ {0}

OptTime == Nat \cup {Undefined}

\* WorkSegment; `corrected` says that the row carries a `correction`.
Segment == [start : Nat, end : OptTime, corrected : BOOLEAN]

\* Math.round(ms / 60_000), half rounding up.
Minutes(ticks) == (2 * ticks + TicksPerMinute) \div (2 * TicksPerMinute)

\* The trailing segment exists and has no end.
HasOpenSegment(segs) == segs # <<>> /\ segs[Len(segs)].end = Undefined

\* [...segments, { start: now }]
OpenSegment(segs, now) ==
  Append(segs, [start |-> now, end |-> Undefined, corrected |-> FALSE])

\* Variant: only the segment just closed comes back.
CloseTrailingAlone(segs, now) ==
  IF HasOpenSegment(segs) THEN <<[segs[Len(segs)] EXCEPT !.end = now]>> ELSE segs

\* The whole array back, with its trailing open segment ended at `now`.
CloseTrailing(segs, now) ==
  IF HasOpenSegment(segs) THEN [segs EXCEPT ![Len(segs)].end = now] ELSE segs

\* Variant: only a terminal status ends the open segment.
CloseOnTerminal(segs, from, to, now) ==
  IF from = "in_progress" /\ to \in {"done", "cancelled", "failed"}
  THEN CloseTrailing(segs, now)
  ELSE segs

\* closeTrailingSegmentOnExit: only a move out of in_progress closes.
CloseOnExit(segs, from, to, now) ==
  IF from = "in_progress" /\ to # "in_progress"
  THEN CloseTrailing(segs, now)
  ELSE segs

\* Variant: the corrected start is not held to the recorded one.
EndsWithin(seg, from, to, now) ==
  to <= (IF seg.end = Undefined THEN now ELSE seg.end)

\* correctSegment never widens what the machine recorded.
Within(seg, from, to, now) ==
  /\ seg.start <= from
  /\ to <= (IF seg.end = Undefined THEN now ELSE seg.end)

\* The segment replaced by correctSegment.
Corrected(segs, i, from, to) ==
  [segs EXCEPT ![i] = [start |-> from, end |-> to, corrected |-> TRUE]]
-----------------------------------------------------------------------------
(* Billing: closeSegmentsForCompletion over the closed segments. *)

ClosedIndices(segs) == {i \in DOMAIN segs : segs[i].end # Undefined}
Span(seg) == seg.end - seg.start

OverCap(segs) ==
  {i \in ClosedIndices(segs) : Minutes(Span(segs[i])) > MaxSegmentMinutes}

\* The loop over the array: the spans of the segments it counts, added up.
TotalOf(segs, Counted) ==
  LET total[n \in 0..Len(segs)] ==
        IF n = 0 THEN 0
        ELSE total[n - 1] + (IF n \in Counted THEN Span(segs[n]) ELSE 0)
  IN  total[Len(segs)]

\* Variant: the attested segment is still summed at its full span.
BilledTwice(segs, attested) ==
  TotalOf(segs, ClosedIndices(segs))
    + (IF OverCap(segs) = {} THEN 0 ELSE attested * TicksPerMinute)

\* totalMs: the segments within the cap, and the attested minutes of the
\* one beyond it.  `attested` is Undefined when the note has no marker.
BilledTicks(segs, attested) ==
  TotalOf(segs, ClosedIndices(segs) \ OverCap(segs))
    + (IF OverCap(segs) = {} THEN 0 ELSE attested * TicksPerMinute)

BilledMinutes(segs, attested) == Minutes(BilledTicks(segs, attested))

\* An attestation covers exactly one over-long segment and only lowers it.
Attests(segs, attested) ==
  /\ attested # Undefined
  /\ \E i \in OverCap(segs) :
       /\ OverCap(segs) = {i}
       /\ attested \in 1..Minutes(Span(segs[i]))
       /\ attested <= 2 * MaxSegmentMinutes

\* The closure is not refused: SEGMENT_DURATION_IMPLAUSIBLE,
\* SEGMENT_ATTESTATION_REFUSED and SEGMENT_TOTAL_ZERO.
SegmentsClosable(segs, attested) ==
  /\ OverCap(segs) = {} \/ Attests(segs, attested)
  /\ Len(segs) > 1 => BilledMinutes(segs, attested) # 0
-----------------------------------------------------------------------------
(* What must hold of the array at time `now`, and of one change of it. *)

WellFormed(segs, now) ==
  /\ \A i \in 1..Len(segs) - 1 : /\ segs[i].end # Undefined
                                 /\ segs[i].end <= segs[i + 1].start
  /\ \A i \in 1..Len(segs) : /\ segs[i].start <= now
                             /\ segs[i].corrected => segs[i].end # Undefined
                             /\ segs[i].end # Undefined =>
                                  segs[i].start <= segs[i].end /\ segs[i].end <= now

\* new is old with segments shrunk, each once, and at most one appended.
Trimmed(old, new) ==
  /\ Len(new) \in {Len(old), Len(old) + 1}
  /\ \A i \in DOMAIN old :
       /\ old[i].start <= new[i].start
       /\ old[i].end # Undefined => /\ new[i].end # Undefined
                                    /\ new[i].end <= old[i].end
       /\ old[i].corrected => new[i] = old[i]
=============================================================================
