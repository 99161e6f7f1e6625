----------------------------- MODULE PagedReads -----------------------------
(***************************************************************************)
(* Lists of the switch that are longer than one answer, read by the        *)
(* PortaSwitch adapter (portaswitch/adapter.py) page by page while entries *)
(* join and leave them: the accounts with an email address                 *)
(* (_find_account_by_email), the accounts of a customer                    *)
(* (_fetch_accounts_by_customer), a whole phonebook (the batches of        *)
(* retrieve_contacts and retrieve_contacts_v2), and a phonebook whose      *)
(* pages a client of the API asks for, with the contacts of the            *)
(* configuration on the first of them (retrieve_contacts_v2).              *)
(*                                                                         *)
(* No request names an order (adapter.py:1600, 3428): the switch keeps to  *)
(* one all the same, or answers every request in an order of its own, and  *)
(* both are modelled.  The user's own entry, which is taken from the       *)
(* contacts, is an entry like the others here.                             *)
(***************************************************************************)
EXTENDS Naturals, Sequences, FiniteSets, SequencesExt, Functions

CONSTANTS Row,         \* entries a list may have
          Address,     \* the accounts with exactly the address looked for
          PageSize,    \* EMAIL_LOOKUP_PAGE, PHONEBOOK_BATCH, limit: 1000 each,
                       \* and positive
          MaxRows,     \* EMAIL_LOOKUP_MAX_ROWS
          MaxItems,    \* bound: items_per_page of the client
          MaxChanges   \* bound: entries that join or leave during a read

VARIABLES query,  \* what is read, and how; does not change
          list,   \* the list at the switch
          read,   \* the progress of the reading
          since   \* history: the list when the reading began, and its changes

pvars == <<query, list, read, since>>

\* counted: the answers of the switch come with a total.  ordered: it keeps to the
\* order of the list.  custom, items: how many contacts the configuration adds, and
\* items_per_page.
Query ==
    [what: {"email"}, counted: BOOLEAN, ordered: BOOLEAN, custom: {0}, items: {PageSize}]
    \cup [what: {"accounts", "phonebook"}, counted: {TRUE}, ordered: BOOLEAN,
          custom: {0}, items: {PageSize}]
    \cup {q \in [what: {"pages"}, counted: {TRUE}, ordered: BOOLEAN,
                 custom: 0..MaxItems, items: 1..MaxItems] :
             q.custom <= q.items}

Lists == {l \in UNION {[1..n -> Row] : n \in 0..Cardinality(Row)} : IsInjective(l)}

Custom == [i \in 1..query.custom |-> "custom"]

TypeOK ==
    /\ query \in Query
    /\ list \in Lists
    /\ read.pc \in {"reading", "done", "refused"}
    /\ ToSet(read.got) \subseteq Row \cup {"custom"}
    /\ read.todo \subseteq Nat
    /\ read.todo # {} => query.what = "accounts" /\ read.pc = "reading"
    /\ since.left + since.joined <= MaxChanges

\* got: the entries brought so far, in the order they came; offset: where the next
\* page begins, or its number; todo: the offsets still asked for, side by side.
Init ==
    /\ query \in Query
    /\ list \in Lists
    /\ read = [pc |-> "reading", got |-> <<>>, offset |-> 0, todo |-> {}]
    /\ since = [began |-> list, left |-> 0, joined |-> 0]

Reading(what) == query.what = what /\ read.pc = "reading"

\* What an offset and a limit name in the order of the list.
Chunk(offset, limit) == SubSeq(list, offset + 1, IF offset + limit < Len(list)
                                                 THEN offset + limit ELSE Len(list))

\* What the switch may answer to them: that, or, in an order of the moment, as many
\* entries of the list, whichever.
Answers(offset, limit) ==
    LET chunk == Chunk(offset, limit)
    IN IF query.ordered THEN {chunk}
       ELSE {rows \in [DOMAIN chunk -> ToSet(list)] : IsInjective(rows)}

Brings(rows, offset, pc) ==
    /\ read' = [read EXCEPT !.got = @ \o rows, !.offset = offset, !.pc = pc]
    /\ UNCHANGED <<query, list, since>>

----------------------------------------------------------------------------

Matches(rows) == ToSet(rows) \cap Address

BugLookedThroughSkipsLast(rows) ==
    \/ Len(rows) < PageSize
    \/ query.counted /\ read.offset + Len(rows) + PageSize > Len(list)

\* There is no further page of candidates.
LookedThrough(rows) ==
    \/ Len(rows) < PageSize
    \/ query.counted /\ read.offset + Len(rows) >= Len(list)

\* _find_account_by_email: one more page of candidates.  It is refused with a
\* second match, and with more candidates than it will look through.
EmailPage ==
    /\ Reading("email")
    /\ \E rows \in Answers(read.offset, PageSize) :
          LET second == Cardinality(Matches(read.got \o rows)) > 1
              next == read.offset + Len(rows)
          IN \/ second /\ Brings(rows, read.offset, "refused")
             \/ ~second /\ LookedThrough(rows) /\ Brings(rows, next, "done")
             \/ /\ ~second /\ ~LookedThrough(rows)
                /\ Brings(rows, next, IF next >= MaxRows THEN "refused" ELSE "reading")

\* range(limit, total, limit).
RemainingOffsets(total) == {o \in PageSize..total - 1 : o % PageSize = 0}

\* by_i_account: a dict has an account once.  Those who want an order sort it.
Once(rows) == SetToSeq(ToSet(rows))

\* _fetch_accounts_by_customer: the first page, and by its total the others.
FirstAccounts ==
    /\ Reading("accounts") /\ read.todo = {} /\ read.got = <<>>
    /\ \E rows \in Answers(0, PageSize) :
          LET whole == Len(rows) < PageSize \/ Len(rows) >= Len(list)
          IN read' = [read EXCEPT !.got = rows,
                                  !.pc = IF whole THEN "done" ELSE "reading",
                                  !.todo = IF whole THEN {} ELSE RemainingOffsets(Len(list))]
    /\ UNCHANGED <<query, list, since>>

\* One of the pages asked for side by side is answered.
MoreAccounts(o) ==
    /\ Reading("accounts") /\ o \in read.todo
    /\ \E rows \in Answers(o, PageSize) :
          LET got == read.got \o rows
              last == read.todo = {o}
          IN read' = [read EXCEPT !.got = IF last THEN Once(got) ELSE got,
                                  !.pc = IF last THEN "done" ELSE "reading",
                                  !.todo = @ \ {o}]
    /\ UNCHANGED <<query, list, since>>

\* The phonebook is read until a batch is short.
PhonebookBatch ==
    /\ Reading("phonebook")
    /\ \E rows \in Answers(read.offset, PageSize) :
          Brings(rows, read.offset + PageSize,
                 IF Len(rows) < PageSize THEN "done" ELSE "reading")

BugPhonebookOffset(page) == (page - 1) * query.items

\* Where page number `page` begins in the phonebook, and how much of it there is
\* room for.
PhonebookOffset(page) == IF page = 1 THEN 0 ELSE (page - 1) * query.items - query.custom
PhonebookLimit(page) ==
    IF page > 1 THEN query.items
    ELSE IF query.items > query.custom THEN query.items - query.custom ELSE 1

\* The client asks for the next page, up to the total it was told last.
PhonebookPage ==
    LET page == read.offset + 1
        total == Len(list) + query.custom
    IN /\ Reading("pages")
       /\ \E rows \in Answers(PhonebookOffset(page), PhonebookLimit(page)) :
             Brings(IF page = 1 THEN Custom \o rows ELSE rows, page,
                    IF page * query.items >= total THEN "done" ELSE "reading")

----------------------------------------------------------------------------
(* The list changes between two answers.                                   *)

Joins(row, i) ==
    /\ read.pc = "reading" /\ since.left + since.joined < MaxChanges
    /\ row \notin ToSet(list) /\ i <= Len(list) + 1
    /\ list' = InsertAt(list, i, row)
    /\ since' = [since EXCEPT !.joined = @ + 1]
    /\ UNCHANGED <<query, read>>

Leaves(i) ==
    /\ read.pc = "reading" /\ since.left + since.joined < MaxChanges
    /\ list' = RemoveAt(list, i)
    /\ since' = [since EXCEPT !.left = @ + 1]
    /\ UNCHANGED <<query, read>>

Next ==
    \/ EmailPage \/ FirstAccounts \/ PhonebookBatch \/ PhonebookPage
    \/ \E o \in read.todo : MoreAccounts(o)
    \/ \E row \in Row, i \in 1..Cardinality(Row) : Joins(row, i)
    \/ \E i \in DOMAIN list : Leaves(i)

Spec == Init /\ [][Next]_pvars

----------------------------------------------------------------------------
(* Properties.                                                             *)

\* How many of the entries brought had come before.
Repeats == Len(read.got) - query.custom - Cardinality(ToSet(read.got) \ {"custom"})

\* However entries join and leave, a list read page after page misses no more of
\* its entries than left it meanwhile and came twice; and of a switch that keeps to
\* one order it misses none that was in it all along, but one for each entry that
\* left.  A code is not sent for an address that two accounts share unless another
\* candidate left or came again.  (The pages of the accounts of a customer are read
\* side by side, to a total from before, and promise no such thing.)
MissedForThoseWhoLeft ==
    read.pc = "done" /\ query.what # "accounts" =>
       /\ Cardinality(ToSet(list) \ ToSet(read.got)) <= since.left + Repeats
       /\ query.ordered =>
             Cardinality((ToSet(since.began) \cap ToSet(list)) \ ToSet(read.got)) <= since.left

\* An account of a customer is listed once, in whatever order the pages come.  A
\* list that does not change is read whole when it fits a page, and when the switch
\* keeps to one order whatever its length is to the size of the pages: the pages of
\* the client one after the other are then the contacts of the configuration and
\* the phonebook, whose first entry comes twice where those fill the first page.  A
\* lookup is refused for two accounts with the address, or for a list of at least
\* MaxRows.
ListsAreWhole ==
    /\ read.pc = "done" /\ query.what = "accounts" => IsInjective(read.got)
    /\ since.left + since.joined = 0 =>
          /\ read.pc = "refused" =>
                Cardinality(Matches(list)) > 1 \/ Len(list) >= MaxRows
          /\ read.pc = "done" /\ (query.ordered \/ Len(list) + query.custom <= query.items) =>
                ToSet(read.got) = ToSet(Custom) \cup ToSet(list)
          /\ read.pc = "done" /\ query.ordered /\ query.what # "accounts" =>
                read.got = Custom
                           \o (IF query.custom = query.items THEN Chunk(0, 1) ELSE <<>>)
                           \o list
=============================================================================
