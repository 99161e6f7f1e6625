----------------------------- MODULE SwitchReads -----------------------------
(***************************************************************************)
(* What one adapter process reads from the switch to show it: the account  *)
(* lists (ContactsCache), single answers that are kept (LookupCaches), the *)
(* counters of the call queues (CallQueues), and the lists that come page  *)
(* by page (PagedReads).  The four share the process and no state, so each *)
(* keeps its specification; this module brings their properties together.  *)
(***************************************************************************)
EXTENDS ContactsCache, LookupLifetimes

CONSTANTS CountersMax, Row, Address, PageSize, LookupMaxRows, MaxItems, MaxChanges

\* There is a customer to read for, the tables and the pages have sizes, and no
\* list is endless.
ASSUME ReadsAssumption ==
    /\ Customer # {} /\ CountersMax \in Nat
    /\ IsFiniteSet(Row) /\ PageSize \in Nat \ {0} /\ LookupMaxRows \in Nat
    /\ MaxItems \in Nat /\ MaxChanges \in Nat

VARIABLES kind, entries, failed, reader, refusal,
          subscription, orphaned, stored, waiting, fresh, counterLock, counterHolder, queue, req,
          query, list, read, since

Lookups == INSTANCE LookupCaches WITH Key <- Customer, Reader <- Coroutine

Queues == INSTANCE CallQueues WITH
    Request <- Coroutine, CacheMax <- CountersMax,
    lockOf <- counterLock, holder <- counterHolder

Pages == INSTANCE PagedReads WITH MaxRows <- LookupMaxRows

\* Every table and lock is consistent: TypeOK of the four.
TablesOK == TypeOK /\ Lookups!TypeOK /\ Queues!TypeOK /\ Pages!TypeOK

\* OldOnlyBehindFailure of LookupCaches: an answer more than a lifetime and one read
\* old is served behind a failed read of it only, and of a CRM address.
OldOnlyBehindFailure == Lookups!OldOnlyBehindFailure

\* LeftAloneAfterFailure of LookupCaches: after a failed read the switch is left
\* alone for RetryAfter, unless a read in flight succeeds or as many others
\* failed since as the table of failures holds.
LeftAloneAfterFailure == Lookups!LeftAloneAfterFailure

\* StalestGoesFirst of LookupCaches: what a full table drops is the entry stored
\* longest ago, however the reads of several keys overlap.
StalestGoesFirst == Lookups!StalestGoesFirst

\* NoConfidentZero of CallQueues: a number from a subscription that has not
\* caught up is shown only behind a request that gave up between subscribing
\* and reading, or behind two readers.
NoConfidentZero == Queues!NoConfidentZero

\* LockTableIsBounded of CallQueues: locks in the table never outnumber both
\* its limit and the requests in flight.
LockTableIsBounded == Queues!LockTableIsBounded

\* MissedForThoseWhoLeft of PagedReads: a list read page after page misses no more
\* entries than left it or came twice, and in one order no more than left.
MissedForThoseWhoLeft == Pages!MissedForThoseWhoLeft

\* ListsAreWhole of PagedReads: an account is listed once; a list that does not
\* change is read whole, if on one page or in one order.
ListsAreWhole == Pages!ListsAreWhole
=============================================================================
