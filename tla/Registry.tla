------------------------------- MODULE Registry -------------------------------
(***************************************************************************)
(* The manager contract as a registry of strategies: its configuration,    *)
(* the record it keeps of every strategy, and the two queries that list    *)
(* them page by page.  What a strategy does when the manager calls it is   *)
(* the subject of Strategy; a call that fails undoes the transaction and   *)
(* is no step here.                                                        *)
(*                                                                         *)
(* A client reads the registry with one query after another while owners   *)
(* and keepers go on changing it: it sends the last result it got as the   *)
(* cursor of the next page, until a page is not full.                      *)
(***************************************************************************)
EXTENDS Integers, Sequences, FiniteSets, SequencesExt

CONSTANTS
  Owners,
  Addresses,        \* the addresses of strategies, ordered as numbers
  Labels,           \* labels of 1 to MAX_LABEL_LENGTH characters
  BadLabels,        \* and longer or empty ones
  Codes,            \* strategy code ids that exist on the chain
  InvalidCodes,     \* and some that do not
  Address(_, _, _, _), \* instantiate2_address of code, owner, id and height
  NONE,
  Filters,          \* the filters clients ask for
  Limits,           \* and the limits
  DefaultLimit,     \* the strategies a page has unless told otherwise
  MaxStrategies,    \* bound: strategies ever created
  MaxTime           \* bound: the last second

Statuses == {"active", "paused", "archived"}

ASSUME RegistryAssumption ==
  /\ Addresses \subseteq Nat
  /\ NONE \notin Nat \cup Owners \cup Statuses
  /\ Filters \subseteq [owner  : Owners \cup {NONE},
                         status : Statuses \cup {NONE}]
  /\ Limits \subseteq Nat \ {0}
  /\ DefaultLimit \in Nat \ {0}
  /\ MaxStrategies \in Nat
  /\ MaxTime \in Nat
  /\ Codes # {}
  /\ Codes \cap InvalidCodes = {}
  /\ \A c \in Codes, o \in Owners, i \in 1 .. MaxStrategies, h \in 0 .. MaxTime :
       Address(c, o, i, h) \in Addresses

VARIABLES
  code,        \* CONFIG.strategy_code_id
  counter,     \* STRATEGY_COUNTER
  strategies,  \* STRATEGIES: address -> record
  time,        \* env.block.time, in seconds; a block each second
  client       \* a listing under way, or NONE

registryVars == <<code, counter, strategies>>
vars == <<code, counter, strategies, time, client>>

Strategy ==
  [id         : 1 .. MaxStrategies,
   owner      : Owners,
   created_at : 0 .. MaxTime,
   updated_at : 0 .. MaxTime,
   label      : Labels,
   status     : Statuses]

-----------------------------------------------------------------------------
(* The registry's messages *)

Init ==
  /\ code \in Codes
  /\ counter = 0
  /\ strategies = [a \in {} |-> 0]
  /\ time = 0
  /\ client = NONE

LabelFits(label) == label \in Labels

\* The record of a is saved with its new update.
Save(a, record) ==
  /\ strategies' = [strategies EXCEPT ![a] = record]
  /\ client' = IF client = NONE \/ client.query = "id" THEN client
               ELSE [client EXCEPT !.owed = @ \ {a}]

\* migrate and sudo refuse a code the chain does not have.
Configure(new) ==
  /\ new \in Codes
  /\ code' = new
  /\ UNCHANGED <<counter, strategies, time, client>>

NextIdStale == counter  \* slip: the counter as it was

NextId == counter + 1

FreeAlways(address) == TRUE  \* slip: an address taken is taken over

\* An address already taken by a contract fails the instantiation of another.
Free(address) == address \notin DOMAIN strategies

Instantiate(owner, label) ==
  LET id == NextId
      address == Address(code, owner, id, time)
  IN /\ counter < MaxStrategies
     /\ LabelFits(label)
     /\ Free(address)
     /\ counter' = counter + 1
     /\ strategies' = [a \in DOMAIN strategies \cup {address} |->
                         IF a = address
                           THEN [id         |-> id,
                                 owner      |-> owner,
                                 created_at |-> time,
                                 updated_at |-> time,
                                 label      |-> label,
                                 status     |-> "active"]
                           ELSE strategies[a]]
     /\ UNCHANGED <<code, time, client>>

Execute(a) ==
  /\ strategies[a].status = "active"
  /\ Save(a, [strategies[a] EXCEPT !.updated_at = time])
  /\ UNCHANGED <<code, counter, time>>

Update(sender, a) ==
  /\ strategies[a].owner = sender
  /\ Save(a, [strategies[a] EXCEPT !.updated_at = time])
  /\ UNCHANGED <<code, counter, time>>

UpdateStatus(sender, a, status) ==
  /\ strategies[a].owner = sender
  /\ Save(a, [strategies[a] EXCEPT !.updated_at = time, !.status = status])
  /\ UNCHANGED <<code, counter, time>>

\* A label is no update: updated_at stays.
UpdateLabel(sender, a, label) ==
  /\ LabelFits(label)
  /\ strategies[a].owner = sender
  /\ strategies' = [strategies EXCEPT ![a].label = label]
  /\ UNCHANGED <<code, counter, time, client>>

NextBlock ==
  /\ time < MaxTime
  /\ time' = time + 1
  /\ UNCHANGED <<registryVars, client>>

-----------------------------------------------------------------------------
(* The queries *)

Take(n, seq) == [i \in 1 .. (IF n < Len(seq) THEN n ELSE Len(seq)) |-> seq[i]]

\* The members of S in the order of the relation R.
InOrder(S, R) ==
  CHOOSE seq \in [1 .. Cardinality(S) -> S] :
    \A i, j \in DOMAIN seq : i < j => <<seq[i], seq[j]>> \in R

\* The index keys of a partition: updated_at_cursor is the time and then the
\* address.  The cursor of a page is the time alone, so that it comes before
\* the keys of that time.
NewerOrSame(a, b) ==  \* slip: pages in ascending order
  \/ strategies[a].updated_at < strategies[b].updated_at
  \/ strategies[a].updated_at = strategies[b].updated_at /\ a < b

Newer(a, b) ==
  \/ strategies[a].updated_at > strategies[b].updated_at
  \/ strategies[a].updated_at = strategies[b].updated_at /\ a > b

Matches(strategy, filter) ==
  /\ filter.owner = NONE \/ strategy.owner = filter.owner
  /\ filter.status = NONE \/ strategy.status = filter.status

LimitOf(limit) == IF limit = NONE THEN DefaultLimit ELSE limit

BeforeInclusive(a, start_after) ==  \* slip: an inclusive bound
  start_after # NONE => strategies[a].updated_at <= start_after

Before(a, start_after) ==
  start_after # NONE => strategies[a].updated_at < start_after

\* Strategies
ByUpdate(filter, start_after, limit) ==
  LET listed == {a \in DOMAIN strategies :
                   Matches(strategies[a], filter) /\ Before(a, start_after)}
  IN  Take(LimitOf(limit),
           InOrder(listed, {p \in listed \X listed : Newer(p[1], p[2])}))

After(a, start_after) == start_after # NONE => a > start_after

\* StrategiesById
ById(start_after, limit) ==
  LET listed == {a \in DOMAIN strategies : After(a, start_after)}
  IN  Take(LimitOf(limit), InOrder(listed, {p \in listed \X listed : p[1] < p[2]}))

-----------------------------------------------------------------------------
(* The client *)

Listing(query, filter, limit) ==
  [query   |-> query,
   filter  |-> filter,
   limit   |-> limit,
   cursor  |-> NONE,        \* start_after of the next page
   cursors |-> {},          \* history: the cursors sent
   listed  |-> <<>>,        \* the addresses got, in order
   times   |-> <<>>,        \* their updated_at, as listed
   \* history: what it should list, and nobody has updated since it began
   owed    |-> {a \in DOMAIN strategies : Matches(strategies[a], filter)},
   done    |-> FALSE]

Start ==
  /\ client = NONE
  /\ \E limit \in Limits \cup {NONE} :
       \/ \E filter \in Filters :
            client' = Listing("updated", filter, limit)
       \/ client' = Listing("id", [owner |-> NONE, status |-> NONE], limit)
  /\ UNCHANGED <<registryVars, time>>

Asked ==
  IF client.query = "updated"
    THEN ByUpdate(client.filter, client.cursor, client.limit)
    ELSE ById(client.cursor, client.limit)

CursorAfter(page) ==
  IF client.query = "updated" THEN strategies[Last(page)].updated_at
                              ELSE Last(page)

Page ==
  /\ client # NONE
  /\ ~client.done
  /\ \E page \in {Asked} :
       client' =
         [client EXCEPT
            !.listed = @ \o page,
            !.times = @ \o [i \in DOMAIN page |-> strategies[page[i]].updated_at],
            !.cursor = IF page = <<>> THEN @ ELSE CursorAfter(page),
            !.cursors = IF client.cursor = NONE THEN @ ELSE @ \cup {client.cursor},
            !.done = Len(page) < LimitOf(client.limit)]
  /\ UNCHANGED <<registryVars, time>>

Next ==
  \/ NextBlock
  \/ \E new \in Codes \cup InvalidCodes : Configure(new)
  \/ \E owner \in Owners, label \in Labels \cup BadLabels : Instantiate(owner, label)
  \/ \E a \in DOMAIN strategies : Execute(a)
  \/ \E sender \in Owners, a \in DOMAIN strategies :
       \/ Update(sender, a)
       \/ \E status \in Statuses : UpdateStatus(sender, a, status)
       \/ \E label \in Labels \cup BadLabels : UpdateLabel(sender, a, label)
  \/ Start
  \/ Page

Spec == Init /\ [][Next]_vars

-----------------------------------------------------------------------------
(* Properties *)

\* Every strategy has a record of its own: ids are those handed out, no two
\* strategies share one, and a record is never newer than the block.
TypeOK ==
  /\ code \in Codes
  /\ counter \in 0 .. MaxStrategies
  /\ DOMAIN strategies \subseteq Addresses
  /\ \A a \in DOMAIN strategies :
       /\ strategies[a] \in Strategy
       /\ strategies[a].id <= counter
       /\ strategies[a].created_at <= strategies[a].updated_at
       /\ strategies[a].updated_at <= time
  /\ \A a, b \in DOMAIN strategies : strategies[a].id = strategies[b].id => a = b
  /\ time \in 0 .. MaxTime

\* The Count query is the number of strategies listed: no instantiation
\* overwrites the record of another, even if two addresses collide.
CountsEveryStrategy == counter = Cardinality(DOMAIN strategies)

\* However the registry changes between two pages, a client sees the updates
\* in descending order and no strategy twice; by id, the addresses in ascending
\* order (the ordering contracts/manager/README.md guarantees across pages).
OrderedAcrossPages ==
  client # NONE =>
    \A i, j \in DOMAIN client.listed : i < j =>
      IF client.query = "id" THEN client.listed[i] < client.listed[j]
      ELSE /\ client.listed[i] # client.listed[j]
           /\ client.times[i] >= client.times[j]

\* A client that has read all pages has missed, of the strategies that matched
\* when it began and that nobody has updated since, only those last updated in
\* the very second a page ended in (query Strategies); by id, none at all.
PagesMissOnlyTies ==
  client # NONE /\ client.done =>
    \A a \in client.owed :
      \/ \E i \in DOMAIN client.listed : client.listed[i] = a
      \/ /\ client.query = "updated"
         /\ strategies[a].updated_at \in client.cursors

=============================================================================
