------------------------------ MODULE MinuteLog ------------------------------
(***************************************************************************)
(* What the ingester promises of the topic, without saying how: a log of   *)
(* minutes for each symbol, all of them over when they were appended, that *)
(* a process leaves no hole in except where it gave a minute up.  "It only *)
(* publishes closed candles", "when it detects missing minutes after a     *)
(* reconnect, it fetches them over REST and produces them to the topic"    *)
(* (README, ingester).                                                     *)
(***************************************************************************)
EXTENDS Integers, Sequences

CONSTANTS
    Symbols,      \* the symbols the log is kept for
    None          \* no minute yet

VARIABLES
    clock,        \* the minute in progress
    log,          \* [Symbols -> Seq([ts, final])]
    first,        \* the first minute this process knows to be in the log
    last,         \* the last one
    gaveUp        \* minutes this process gave up, or may have

logVars == <<clock, log, first, last, gaveUp>>

-----------------------------------------------------------------------------

Final(m) == [ts |-> m, final |-> TRUE]

(* Minute m may be next: it is over, it comes after the last one, and the
   minutes between the two were given up. *)
MayFollow(s, m) ==
    /\ m < clock
    /\ last[s] # None => last[s] < m /\ last[s] + 1 .. m - 1 \subseteq gaveUp[s]

LogInit ==
    /\ clock = 0
    /\ log = [s \in Symbols |-> <<>>]
    /\ first = [s \in Symbols |-> None]
    /\ last = [s \in Symbols |-> None]
    /\ gaveUp = [s \in Symbols |-> {}]

Advance ==
    /\ clock' = clock + 1
    /\ UNCHANGED <<log, first, last, gaveUp>>

(* A minute is appended, perhaps twice, and known to be there. *)
AppendKnown(s) ==
    /\ \E m \in 0..clock - 1 :
          /\ MayFollow(s, m)
          /\ \E copies \in {<<Final(m)>>, <<Final(m), Final(m)>>} :
                log' = [log EXCEPT ![s] = @ \o copies]
          /\ first' = [first EXCEPT ![s] = IF @ = None THEN m ELSE @]
          /\ last' = [last EXCEPT ![s] = m]
    /\ UNCHANGED <<clock, gaveUp>>

(* A minute is given up with a copy of it that may be in the log all the same. *)
AppendUnknown(s) ==
    /\ \E m \in 0..clock - 1 :
          /\ MayFollow(s, m)
          /\ log' = [log EXCEPT ![s] = Append(@, Final(m))]
          /\ gaveUp' = [gaveUp EXCEPT ![s] = @ \cup {m}]
    /\ UNCHANGED <<clock, first, last>>

(* Minutes that are over are given up. *)
GiveUp(s) ==
    /\ \E minutes \in SUBSET {m \in 0..clock - 1 : last[s] = None \/ last[s] < m} :
          gaveUp' = [gaveUp EXCEPT ![s] = @ \cup minutes]
    /\ UNCHANGED <<clock, log, first, last>>

(* The process ends, and with it all it knows; a minute on its way may arrive. *)
Restart ==
    /\ \/ log' = log
       \/ \E s \in Symbols, m \in 0..clock - 1 :
             MayFollow(s, m) /\ log' = [log EXCEPT ![s] = Append(@, Final(m))]
    /\ first' = [s \in Symbols |-> None]
    /\ last' = [s \in Symbols |-> None]
    /\ gaveUp' = [s \in Symbols |-> {}]
    /\ UNCHANGED clock

LogNext ==
    \/ Advance
    \/ \E s \in Symbols : AppendKnown(s) \/ AppendUnknown(s) \/ GiveUp(s)
    \/ Restart

LogSpec == LogInit /\ [][LogNext]_logVars

-----------------------------------------------------------------------------

Minutes(s) == {log[s][i].ts : i \in 1..Len(log[s])}

(* What follows: between the first and the last minute a process knows to be
   in the log there is no hole but those it gave up. *)
NoHole ==
    \A s \in Symbols :
        first[s] # None => first[s] .. last[s] \subseteq Minutes(s) \cup gaveUp[s]

=============================================================================
