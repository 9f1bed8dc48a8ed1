---------------------------- MODULE WelcomeBack ----------------------------
(***************************************************************************)
(* The return summary of one player (modules/session: welcomeBack.ts,      *)
(* cache.ts, the two welcome-back routes) and the panel that shows it.     *)
(*                                                                         *)
(* A summary is derived, never stored: what the ledger and the other dated *)
(* rows hold between the mark of the player and now.  The mark only moves  *)
(* when the player confirms what a panel showed, to the end of what it     *)
(* showed.  Rows are dated with the clock reading of whoever writes them,  *)
(* taken before the player row is locked, or with the instant at which an  *)
(* event fell due; the summary is read without that lock, statement by     *)
(* statement.  The ledger stands here for every dated row.                 *)
(***************************************************************************)
EXTENDS Integers, FiniteSets, Sequences, FiniteSetsExt, Folds

CONSTANTS
    Tabs,       \* open pages of the player
    Authors,    \* other requests of the player and jobs that advance it
    Due,        \* instants at which a scheduled event of the player falls due
    Opening,    \* starting capital
    Income,     \* what an event or a request brings in; an hour costs 1
    MaxBatch,   \* MAX_EVENTS_PER_ADVANCE
    MaxWrites,  \* bound on the requests that write
    MaxGame     \* bound of the game clock

ASSUME WelcomeBackAssumption ==
    /\ Due \subseteq Nat \ {0} /\ IsFiniteSet(Due)
    /\ Opening \in Nat /\ Income \in Nat
    /\ MaxBatch \in Nat \ {0} /\ MaxWrites \in Nat /\ MaxGame \in Nat

VARIABLES
    game,        \* game time
    books,       \* entries of the ledger by seq, lastAccrualGameMs, events still pending
    lastSummary, \* lastSummaryGameMs
    cache,       \* the summary kept in Redis
    writer,      \* the clock reading of each writer at work
    tab,         \* the request or the panel of each page
    writes       \* requests that wrote, for the bound

summaryVars == <<game, books, lastSummary, cache, writer, tab, writes>>

Instants == 0 .. MaxGame

\* A summary: its interval, the entries it counts, their sum, the newest entry before and
\* inside the interval (0 for none). "seen" is no field: the entries there were when it
\* was summed.
Summaries == [from : Instants, to : Instants, lines : SUBSET Nat, net : Int,
              previous : Nat, latest : Nat, seen : Nat]
NoSummary == [from |-> 0, to |-> 0, lines |-> {}, net |-> 0,
              previous |-> 0, latest |-> 0, seen |-> 0]

Resting == -1  \* a writer without a request

\* A page: its clock reading, the mark when it asked and the mark it read.
Closed == [at |-> "closed", now |-> 0, asked |-> 0, mark |-> 0, left |-> {},
           summary |-> NoSummary]

SummaryInit ==
    /\ game = 0
    /\ books = [ledger |-> <<[at |-> 0, amount |-> Opening]>>, accrued |-> 0, pending |-> Due]
    /\ lastSummary = 0 /\ cache = NoSummary
    /\ writer = [w \in Authors |-> Resting]
    /\ tab = [t \in Tabs |-> Closed]
    /\ writes = 0

Elapse ==
    /\ game < MaxGame /\ game' = game + 1
    /\ UNCHANGED <<books, lastSummary, cache, writer, tab, writes>>
-----------------------------------------------------------------------------
(* The ledger *)

Record(b, at, amount) == [b EXCEPT !.ledger = Append(@, [at |-> at, amount |-> amount])]

\* settleAccruals: the cost since the last settlement, dated at its end.
Settled(b, t) ==
    IF t > b.accrued THEN [Record(b, t, b.accrued - t) EXCEPT !.accrued = t] ELSE b

\* An event: settled up to its instant, claimed, and what its handler writes there.
Applied(b, e) == [Record(Settled(b, e), e, Income) EXCEPT !.pending = @ \ {e}]

\* dueEventsOf: the first events that fell due, at most a batch of them.
Overdue(b, t) ==
    LET late == {e \in b.pending : e <= t} IN
    {e \in late : Cardinality({d \in late : d <= e}) <= MaxBatch}

\* advancePlayer: the batch, earliest first, then the tail of the accruals.
Advanced(b, t) ==
    Settled(MapThenFoldSet(LAMBDA e, c : Applied(c, e), b, LAMBDA e : e, LAMBDA S : Max(S),
                           Overdue(b, t)), t)

\* withPlayerAdvanced reads the clock, then waits for the player row.
Start(w) ==
    /\ writer[w] = Resting /\ writes < MaxWrites
    /\ writer' = [writer EXCEPT ![w] = game]
    /\ writes' = writes + 1
    /\ UNCHANGED <<game, books, lastSummary, cache, tab>>

\* The rest is one transaction under the lock: advance to that reading, then the body.
WriteRows(w) ==
    /\ writer[w] # Resting
    /\ books' = Record(Advanced(books, writer[w]), writer[w], Income)
    /\ writer' = [writer EXCEPT ![w] = Resting]
    /\ UNCHANGED <<game, lastSummary, cache, tab, writes>>
-----------------------------------------------------------------------------
(* GET /api/session/welcome-back *)

Become(t, r) == tab' = [tab EXCEPT ![t] = r]
OnlyTab == UNCHANGED <<game, books, lastSummary, cache, writer, writes>>

\* The panel opens and asks; the request reads the clock once.
Ask(t) ==
    /\ tab[t].at = "closed"
    /\ Become(t, [Closed EXCEPT !.at = "asked", !.now = game, !.asked = lastSummary])
    /\ OnlyTab

\* The preHandler advances the player to that reading, in a transaction of its own.
AdvanceGuard(t) ==
    /\ tab[t].at = "asked"
    /\ books' = Advanced(books, tab[t].now)
    /\ Become(t, [tab[t] EXCEPT !.at = "advanced"])
    /\ UNCHANGED <<game, lastSummary, cache, writer, writes>>

ReadMark(t) ==
    /\ tab[t].at = "advanced"
    /\ Become(t, [tab[t] EXCEPT !.at = "marked", !.mark = lastSummary])
    /\ OnlyTab

\* Mutant: whatever is kept for the player.
CachedAtAll(m) == cache # NoSummary

\* readCachedWelcomeBack: one built for another interval is stale by definition.
Cached(m) == cache # NoSummary /\ cache.from = m

Hit(t) ==
    /\ tab[t].at = "marked" /\ Cached(tab[t].mark)
    /\ Become(t, [tab[t] EXCEPT !.at = "shown", !.summary = cache])
    /\ OnlyTab

\* buildWelcomeBack reads the mark again, and cuts its window there (summaryWindow).
Build(t) ==
    /\ tab[t].at = "marked" /\ ~Cached(tab[t].mark)
    /\ Become(t, [tab[t] EXCEPT !.at = "building", !.left = {"totals"},
                    !.summary = [NoSummary EXCEPT !.from = Min({lastSummary, tab[t].now}),
                                                  !.to = tab[t].now]])
    /\ OnlyTab

\* Mutant: closed on the left and open on the right, like every other interval.
InsideAsElsewhere(s) ==
    {i \in DOMAIN books.ledger : s.from <= books.ledger[i].at /\ books.ledger[i].at < s.to}

\* The entries of a summary, open on the left and closed on the right.
Inside(s) ==
    {i \in DOMAIN books.ledger : s.from < books.ledger[i].at /\ books.ledger[i].at <= s.to}
Preceding(s) == {i \in DOMAIN books.ledger : books.ledger[i].at <= s.from}

Sum(I) == MapThenSumSet(LAMBDA i : books.ledger[i].amount, I)
Newest(I) == Max(I \cup {0})  \* by seq, not by instant

\* Three statements outside any transaction: the sums by type, then the two entries the
\* balances are taken from, in either order.
Read(t, part, s, next) ==
    /\ tab[t].at = "building" /\ part \in tab[t].left
    /\ Become(t, [tab[t] EXCEPT !.summary = s, !.left = (@ \ {part}) \cup next])
    /\ OnlyTab

ReadTotals(t) ==
    LET s == tab[t].summary
        I == Inside(s) IN
    Read(t, "totals", [s EXCEPT !.lines = I, !.net = Sum(I), !.seen = Len(books.ledger)],
         {"previous", "latest"})

ReadPrevious(t) ==
    LET s == tab[t].summary IN
    Read(t, "previous", [s EXCEPT !.previous = Newest(Preceding(s))], {})

ReadLatest(t) ==
    LET s == tab[t].summary IN
    Read(t, "latest", [s EXCEPT !.latest = Newest(Inside(s))], {})

\* writeCachedWelcomeBack, whose failure is logged and ignored.
WriteCache(t) ==
    /\ tab[t].at = "building" /\ tab[t].left = {}
    /\ cache' \in {cache, tab[t].summary}
    /\ Become(t, [tab[t] EXCEPT !.at = "replied"])
    /\ UNCHANGED <<game, books, lastSummary, writer, writes>>

Show(t) ==
    /\ tab[t].at = "replied"
    /\ Become(t, [tab[t] EXCEPT !.at = "shown"])
    /\ OnlyTab

\* The key expires, or Redis is lost.
Expire ==
    /\ cache # NoSummary /\ cache' = NoSummary
    /\ UNCHANGED <<game, books, lastSummary, writer, tab, writes>>
-----------------------------------------------------------------------------
(* POST /api/session/welcome-back/ack *)

\* The player closes the panel and confirms nothing.
Dismiss(t) ==
    /\ tab[t].at = "shown"
    /\ Become(t, Closed)
    /\ OnlyTab

\* The player confirms what the panel shows; the request reads its own clock.
Confirm(t) ==
    /\ tab[t].at = "shown"
    /\ Become(t, [tab[t] EXCEPT !.at = "confirming", !.now = game])
    /\ OnlyTab

\* Mutant: confirming catches up with the present.
MarkNow(through, now) == now

\* Never back, never past the present.
MarkThrough(through, now) == Max({lastSummary, Min({through, now})})

Acknowledge(t) ==
    /\ tab[t].at = "confirming"
    /\ books' = Advanced(books, tab[t].now)
    /\ lastSummary' = MarkThrough(tab[t].summary.to, tab[t].now)
    /\ Become(t, [tab[t] EXCEPT !.at = "confirmed"])
    /\ UNCHANGED <<game, cache, writer, writes>>

\* The request fails before it commits; the panel stays open and can be confirmed again.
Refuse(t) ==
    /\ tab[t].at = "confirming"
    /\ Become(t, [tab[t] EXCEPT !.at = "shown"])
    /\ OnlyTab

\* clearCachedWelcomeBack: after the commit, and it may fail. The panel closes when the
\* answer arrives; when it is lost, it stays open and can be confirmed again.
Clear(t) ==
    /\ tab[t].at = "confirmed"
    /\ cache' \in {cache, NoSummary}
    /\ Become(t, Closed) \/ Become(t, [tab[t] EXCEPT !.at = "shown"])
    /\ UNCHANGED <<game, books, lastSummary, writer, writes>>
-----------------------------------------------------------------------------
Get(t) ==
    \/ Ask(t) \/ AdvanceGuard(t) \/ ReadMark(t) \/ Hit(t) \/ Build(t)
    \/ ReadTotals(t) \/ ReadPrevious(t) \/ ReadLatest(t) \/ WriteCache(t) \/ Show(t)
Ack(t) == Dismiss(t) \/ Confirm(t) \/ Refuse(t) \/ Acknowledge(t) \/ Clear(t)

SummaryNext ==
    \/ Elapse \/ Expire
    \/ \E w \in Authors : Start(w) \/ WriteRows(w)
    \/ \E t \in Tabs : Get(t) \/ Ack(t)

SummarySpec == SummaryInit /\ [][SummaryNext]_summaryVars
-----------------------------------------------------------------------------
(* Properties *)

\* Every variable holds a value of its kind.
SummaryTypeOK ==
    /\ game \in Instants /\ lastSummary \in Instants /\ writes \in 0 .. MaxWrites
    /\ books.accrued \in Instants /\ books.pending \subseteq Due
    /\ books.ledger \in Seq([at : Instants, amount : Int])
    /\ cache \in Summaries
    /\ writer \in [Authors -> Instants \cup {Resting}]
    /\ tab \in [Tabs -> [at : {"closed", "asked", "advanced", "marked", "building", "replied",
                               "shown", "confirming", "confirmed"},
                         now : Instants, asked : Instants, mark : Instants,
                         left : SUBSET {"totals", "previous", "latest"}, summary : Summaries]]

\* Confirming a summary never moves the mark back, and sets aside nothing the panel did not
\* show: whatever lies between the old mark and the new one is within the interval of the
\* panel, and is among its lines or was written after it was summed (the instant of the ack
\* travels in its body; two pages, caches and marks in between).
ConfirmedWasShown ==
    [][\A t \in Tabs : tab[t].at = "confirming" /\ tab'[t].at = "confirmed" =>
         /\ lastSummary <= lastSummary'
         /\ \A i \in DOMAIN books.ledger :
               lastSummary < books.ledger[i].at /\ books.ledger[i].at <= lastSummary' =>
                   /\ books.ledger[i].at <= tab[t].summary.to
                   /\ i \in tab[t].summary.lines \/ i > tab[t].summary.seen]_summaryVars

\* A summary that was confirmed does not come back: a page that asks afterwards is shown
\* nothing from before the mark it would have found, whatever the cache still holds.
NeverReappears ==
    \A t \in Tabs : tab[t].at = "shown" => tab[t].summary.from >= tab[t].asked

\* The sum and the two balances of a summary agree, as long as no entry dated within it
\* was written after it was summed, or after an entry dated later (buildEconomy).
Behind == {i \in DOMAIN books.ledger :
             \E j \in 1 .. i - 1 : books.ledger[j].at > books.ledger[i].at}
Disturbed(s) == \E i \in DOMAIN books.ledger :
                  books.ledger[i].at <= s.to /\ (i \in Behind \/ i > s.seen)
BalanceBefore(s) == Sum(1 .. s.previous)
BalanceAfter(s) == IF s.latest = 0 THEN BalanceBefore(s) ELSE Sum(1 .. s.latest)
Agrees(s) == BalanceBefore(s) + s.net = BalanceAfter(s)
Reconciles == \A t \in Tabs : tab[t].at = "shown" =>
                 Agrees(tab[t].summary) \/ Disturbed(tab[t].summary)

\* What the comments say and the code does not do.

\* balanceBefore + netChange = balanceAfter, always (welcomeBack.ts:45-49).
AlwaysReconciles == \A t \in Tabs : tab[t].at = "shown" => Agrees(tab[t].summary)

\* Consecutive intervals leave no hole (welcomeBack.ts:23-25): once a player has confirmed,
\* nothing is written behind the mark.
NoHole ==
    [][lastSummary > 0 => \A i \in DOMAIN books'.ledger \ DOMAIN books.ledger :
                      books'.ledger[i].at > lastSummary]_summaryVars
=============================================================================
