----------------------------- MODULE MCTrimmer -----------------------------
(* Trimmers small enough for TLC. *)
EXTENDS Trimmer

\* All the kinds of messages, with the clock snapshots the trimmer asks for.
Everything ==
    [packets |-> TRUE, beginCs |-> TRUE, endCs |-> TRUE,
     discEvents |-> TRUE, discEventsCs |-> TRUE,
     discPackets |-> FALSE, discPacketsCs |-> FALSE, knownEnds |-> TRUE]

\* Two clocks which tell all times; a stream without clock next to one whose
\* clock starts late.
Complete == <<0, 0>>
Late == <<NoTime, 2>>

\* No bound, full times, and times of day of which the first message tells
\* the date.
Setup(b, e, clocks) == [begin |-> b, end |-> e, clocks |-> clocks]
MCSetups ==
    {Setup(Infinite, AtTime(1), Complete), Setup(AtTimeOfDay(1), AtTimeOfDay(1), Complete),
     Setup(AtTime(1), Infinite, Late), Setup(AtTimeOfDay(1), AtTime(1), Late),
     Setup(Infinite, AtTimeOfDay(1), Late)}
=============================================================================
