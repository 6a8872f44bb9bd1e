------------------------------- MODULE AppendLog -------------------------------
(* What a state log promises to the commands: an append-only sequence of      *)
(* records of which a stop takes away at most records that no append          *)
(* acknowledged ("An append is durable", internal/stage/recfile.go).          *)
EXTENDS Naturals, Sequences

CONSTANTS Log, Record

VARIABLES
  log,   \* what a replay of each log gives
  kept   \* number of records of each log that an append acknowledged

Init ==
  /\ log = [l \in Log |-> << >>]
  /\ kept = [l \in Log |-> 0]

\* One log gets new records behind the ones that it has.
Extend ==
  \E l \in Log :
    /\ log'[l] # log[l]
    /\ Len(log[l]) <= Len(log'[l]) /\ SubSeq(log'[l], 1, Len(log[l])) = log[l]
    /\ \A i \in DOMAIN log'[l] : log'[l][i] \in Record
    /\ log' = [log EXCEPT ![l] = log'[l]]
    /\ UNCHANGED kept

\* An append returns: every record of its log is kept from now on.
Acknowledge ==
  \E l \in Log :
    /\ kept' = [kept EXCEPT ![l] = Len(log[l])]
    /\ UNCHANGED log

\* A stop takes records from the end of the logs, but no kept record.
Lose ==
  \E k \in [Log -> UNION {0 .. Len(log[l]) : l \in Log}] :
    /\ \A l \in Log : k[l] \in kept[l] .. Len(log[l])
    /\ log' = [l \in Log |-> SubSeq(log[l], 1, k[l])]
    /\ UNCHANGED kept

\* Somebody puts another version in place of the logs: nothing is kept.
Replace ==
  /\ kept' = [l \in Log |-> 0]
  /\ log' \in [Log -> Seq(Record)]

Next == Extend \/ Acknowledge \/ Lose \/ Replace

Spec == Init /\ [][Next]_<<log, kept>>

================================================================================
