------------------------------ MODULE MCCaches ------------------------------
(* SwitchReads for TLC.  Its four parts share nothing but the process, so a  *)
(* behaviour is of one of them, chosen at the start, and the others stand    *)
(* still.  Nothing tells the keys apart, nor the readers.                    *)
EXTENDS SwitchReads, TLC

VARIABLE part

lookupvars == <<kind, entries, failed, reader, refusal>>
queuevars == <<subscription, orphaned, stored, waiting, fresh,
               counterLock, counterHolder, queue, req>>
pagevars == <<query, list, read, since>>
mcvars == <<part, vars, lookupvars, queuevars, pagevars>>

\* Where the switch keeps to no order, one list of each kind stands for all, and
\* three entries, which take two pages, are enough of them.
ShortLists == {<<>>} \cup {SetToSeq(s) : s \in {t \in SUBSET Row : Cardinality(t) \in 1..3}}

MCInit ==
    /\ part \in {"lists", "lookups", "queues", "pages"}
    /\ Init
    /\ Lookups!Init /\ (part # "lookups" => kind = "limits")
    /\ Queues!Init
    /\ Pages!Init /\ (part # "pages" => list = <<>> /\ query.what = "phonebook" /\ query.ordered)
    /\ query.ordered \/ list \in ShortLists

MCNext ==
    \/ part = "lists" /\ Next /\ UNCHANGED <<part, lookupvars, queuevars, pagevars>>
    \/ part = "lookups" /\ Lookups!Next /\ UNCHANGED <<part, vars, queuevars, pagevars>>
    \/ part = "queues" /\ Queues!Next /\ UNCHANGED <<part, vars, lookupvars, pagevars>>
    \/ part = "pages" /\ Pages!Next /\ UNCHANGED <<part, vars, lookupvars, queuevars>>

MCSpec == MCInit /\ [][MCNext]_mcvars

Symmetry == Permutations(Customer) \cup Permutations(Coroutine)
=============================================================================
