------------------------------- MODULE Requests -------------------------------
(***************************************************************************)
(* A request that moves money: the guard of its idempotency key            *)
(* (plugins/auth.ts), the body of the route with its ledger entry          *)
(* (lib/ledger.ts, economy/market.ts, machinery/service.ts) and the hook   *)
(* that completes or removes the record of the key (app.ts, onSend).       *)
(*                                                                         *)
(* Every statement of the guard and of the hook is a transaction of its    *)
(* own.  The body is one transaction under the lock of the player.  The    *)
(* process may stop between any two of them, a copy of a request or its    *)
(* answer may be lost, and the client may send a request again.            *)
(***************************************************************************)
EXTENDS Integers, FiniteSets

CONSTANTS
    Keys,
    Bodies,
    Handlers,     \* requests that the server processes at a time
    KindOf,       \* what the body does when the key already has an entry
    Undecided,    \* no value: no record, no entry
    MaxSends      \* bound of the copies of requests that the clients send

\* A body that looks for the entry of the key first (sellStock), one that acts and
\* is only charged once (buyMachine), one whose own effect refuses the second
\* execution (sellMachine).
Kinds == {"LOOKS", "SPENDS", "CONSUMES"}

ASSUME RequestsAssumption ==
    /\ KindOf \in [Keys -> Kinds]
    /\ Undecided \notin Bodies \cup Handlers \cup {"REFUSED"} /\ "REFUSED" \notin Bodies
    /\ IsFiniteSet(Handlers)
    /\ MaxSends \in Nat

NoRecord == [owner |-> Undecided, body |-> Undecided, status |-> "NONE", entry |-> Undecided]
Idle == [stage |-> "IDLE", key |-> Undecided, body |-> Undecided, own |-> FALSE,
         status |-> "NONE", entry |-> Undecided]

VARIABLES
    sent,     \* copies sent so far
    wire,     \* copies on their way: [Keys -> [Bodies -> Nat]]
    run,      \* what each handler is doing
    record,   \* request_idempotency, by key
    entry,    \* the ledger entry of the key: the body that it was written for
    made,     \* how many times the operation of a key took effect
    told,     \* the definite answers that reached the client, by key
    mislaid   \* history: executions that took effect and were answered 5xx

vars == <<sent, wire, run, record, entry, made, told, mislaid>>

Stages == {"IDLE", "CREATE", "LOOKUP", "AGAIN", "BODY", "COMPLETE", "REMOVE", "REPLY", "FAILED"}
Statuses == {"NONE", "OPEN", "OK", "REFUSED"}
Runs == [stage : Stages, key : Keys \cup {Undecided}, body : Bodies \cup {Undecided},
         own : BOOLEAN, status : Statuses, entry : Bodies \cup {Undecided}]
Records == [owner : Handlers \cup {Undecided}, body : Bodies \cup {Undecided},
            status : Statuses, entry : Bodies \cup {Undecided}]

TypeOK ==
    /\ sent \in Nat /\ wire \in [Keys -> [Bodies -> Nat]]
    /\ run \in [Handlers -> Runs] /\ record \in [Keys -> Records]
    /\ entry \in [Keys -> Bodies \cup {Undecided}]
    /\ made \in [Keys -> Nat] /\ mislaid \in [Keys -> Nat]
    /\ told \in [Keys -> SUBSET (Bodies \cup {"REFUSED"})]

Init ==
    /\ sent = 0
    /\ wire = [k \in Keys |-> [b \in Bodies |-> 0]]
    /\ run = [h \in Handlers |-> Idle]
    /\ record = [k \in Keys |-> NoRecord]
    /\ entry = [k \in Keys |-> Undecided]
    /\ made = [k \in Keys |-> 0]
    /\ told = [k \in Keys |-> {}]
    /\ mislaid = [k \in Keys |-> 0]

At(h, stage) == run[h].stage = stage
Goto(h, stage) == run' = [run EXCEPT ![h].stage = stage]

\* The handler has the answer that it is about to send.
Answering(h, status, e) ==
    run' = [run EXCEPT ![h].stage = "COMPLETE", ![h].status = status, ![h].entry = e]

-------------------------------------------------------------------------------
(* The client and the network.                                              *)

\* A first attempt, or a repeated one under the same key.
Send(k, b) ==
    /\ sent < MaxSends
    /\ sent' = sent + 1
    /\ wire' = [wire EXCEPT ![k][b] = @ + 1]
    /\ UNCHANGED <<run, record, entry, made, told, mislaid>>

\* A copy that does not reach the guard: lost, or answered 401 before it.
Lose(k, b) ==
    /\ wire[k][b] > 0
    /\ wire' = [wire EXCEPT ![k][b] = @ - 1]
    /\ UNCHANGED <<sent, run, record, entry, made, told, mislaid>>

Receive(h, k, b) ==
    /\ At(h, "IDLE") /\ wire[k][b] > 0
    /\ wire' = [wire EXCEPT ![k][b] = @ - 1]
    /\ run' = [run EXCEPT ![h] = [Idle EXCEPT !.stage = "CREATE", !.key = k, !.body = b]]
    /\ UNCHANGED <<sent, record, entry, made, told, mislaid>>

-------------------------------------------------------------------------------
(* The guard.                                                               *)

\* The record of a request that may run its body.
Own(h) ==
    /\ record' = [record EXCEPT ![run[h].key] =
                     [owner |-> h, body |-> run[h].body, status |-> "OPEN", entry |-> Undecided]]
    /\ run' = [run EXCEPT ![h].stage = "BODY", ![h].own = TRUE]

\* The insert, at first and once more when the record was removed in between; the
\* second time a violation of the unique key is an error.
Create(h) ==
    /\ At(h, "CREATE") \/ At(h, "AGAIN")
    /\ \/ /\ record[run[h].key] = NoRecord
          /\ Own(h)
       \/ /\ record[run[h].key] # NoRecord
          /\ Goto(h, IF At(h, "CREATE") THEN "LOOKUP" ELSE "FAILED")
          /\ UNCHANGED record
    /\ UNCHANGED <<sent, wire, entry, made, told, mislaid>>

\* Mutant: an open record is taken over by the next request.
ReplayOrTakeOver(h, r) ==
    IF r.body = run[h].body /\ r.status # "OPEN"
    THEN run' = [run EXCEPT ![h].stage = "REPLY", ![h].status = r.status, ![h].entry = r.entry]
    ELSE run' = [run EXCEPT ![h].stage = "BODY", ![h].own = TRUE]

\* The answer of the guard to a request whose key has a record.
Replay(h, r) ==
    IF r.body = run[h].body /\ r.status # "OPEN"
    THEN run' = [run EXCEPT ![h].stage = "REPLY", ![h].status = r.status, ![h].entry = r.entry]
    ELSE Goto(h, "FAILED")  \* 409 for another body, 503 for an open record

LookUp(h) ==
    /\ At(h, "LOOKUP")
    /\ IF record[run[h].key] = NoRecord THEN Goto(h, "AGAIN") ELSE Replay(h, record[run[h].key])
    /\ UNCHANGED <<sent, wire, record, entry, made, told, mislaid>>

-------------------------------------------------------------------------------
(* The body of the route and the hook that sends the answer.                *)

\* The key already has its entry, which charge and credit would replay.
Replays(k) == entry[k] # Undecided

\* The body takes effect, and writes its entry unless the key has one.
Apply(h, k) ==
    /\ Replays(k) => KindOf[k] = "SPENDS"
    /\ entry' = [entry EXCEPT ![k] = IF Replays(k) THEN @ ELSE run[h].body]
    /\ made' = [made EXCEPT ![k] = @ + 1]
    /\ Answering(h, "OK", entry'[k])

\* The body finds what an earlier execution wrote and answers with it.
Repeat(h, k) ==
    /\ Replays(k) /\ KindOf[k] = "LOOKS"
    /\ Answering(h, "OK", entry[k])
    /\ UNCHANGED <<entry, made>>

\* Mutant: the refusal comes before the look for the entry.
RefuseFirst(h, k) ==
    /\ Answering(h, "REFUSED", Undecided)
    /\ UNCHANGED <<entry, made>>

\* A rule of the game refuses, which rolls the transaction back. A body that looks first
\* answers before any rule is asked; that the sale still looks for the farm a retry names
\* (economy/market.ts:213), and may refuse another one, is left out.
Refuse(h, k) ==
    /\ ~(Replays(k) /\ KindOf[k] = "LOOKS")
    /\ Answering(h, "REFUSED", Undecided)
    /\ UNCHANGED <<entry, made>>

Body(h) ==
    /\ At(h, "BODY")
    /\ Apply(h, run[h].key) \/ Repeat(h, run[h].key) \/ Refuse(h, run[h].key)
    /\ UNCHANGED <<sent, wire, record, told, mislaid>>

\* The transaction fails, or its answer cannot be built after it committed: 5xx.
Fail(h) ==
    /\ At(h, "BODY") \/ At(h, "COMPLETE")
    /\ run' = [run EXCEPT ![h].stage = "REMOVE"]
    /\ mislaid' = [mislaid EXCEPT ![run[h].key] = IF run[h].status = "OK" THEN @ + 1 ELSE @]
    /\ UNCHANGED <<sent, wire, record, entry, made, told>>

\* The record goes with an answer of 500 or above.
Removed(h, k) ==
    record' = [record EXCEPT ![k] = IF @.owner = h THEN NoRecord ELSE @]

\* Mutants: the record goes with every answer, or with a refusal.
Forgotten(h, k) ==
    record' = [record EXCEPT ![k] = IF @.owner = h /\ @.status = "OPEN" THEN NoRecord ELSE @]
StoredIfOk(h, k) ==
    record' = [record EXCEPT ![k] =
        IF @.owner # h \/ @.status # "OPEN" THEN @
        ELSE IF run[h].status = "OK"
             THEN [@ EXCEPT !.status = run[h].status, !.entry = run[h].entry]
             ELSE NoRecord]

\* The answer is stored in the record while it is open.
Stored(h, k) ==
    record' = [record EXCEPT ![k] = IF @.owner = h /\ @.status = "OPEN"
                                    THEN [@ EXCEPT !.status = run[h].status, !.entry = run[h].entry]
                                    ELSE @]

\* completeIdempotency; its own failure is logged and changes no answer.
Complete(h) ==
    /\ \/ At(h, "COMPLETE") /\ Goto(h, "REPLY") /\ (Stored(h, run[h].key) \/ UNCHANGED record)
       \/ At(h, "REMOVE") /\ Goto(h, "FAILED") /\ (Removed(h, run[h].key) \/ UNCHANGED record)
    /\ UNCHANGED <<sent, wire, entry, made, told, mislaid>>

Answer(h) == IF run[h].status = "OK" THEN run[h].entry ELSE "REFUSED"

\* The answer reaches the client, or the client no longer waits for it.
Reply(h) ==
    /\ At(h, "REPLY") \/ At(h, "FAILED")
    /\ run' = [run EXCEPT ![h] = Idle]
    /\ \/ At(h, "REPLY") /\ told' = [told EXCEPT ![run[h].key] = @ \cup {Answer(h)}]
       \/ UNCHANGED told
    /\ UNCHANGED <<sent, wire, record, entry, made, mislaid>>

\* The process stops: what it was doing is gone, what it wrote is not.
Crash ==
    /\ run # [h \in Handlers |-> Idle]
    /\ run' = [h \in Handlers |-> Idle]
    /\ UNCHANGED <<sent, wire, record, entry, made, told, mislaid>>

Server(h) == Create(h) \/ LookUp(h) \/ Body(h) \/ Fail(h) \/ Complete(h) \/ Reply(h)

Next ==
    \/ \E k \in Keys, b \in Bodies :
          Send(k, b) \/ Lose(k, b) \/ \E h \in Handlers : Receive(h, k, b)
    \/ \E h \in Handlers : Server(h)
    \/ Crash

Spec == Init /\ [][Next]_vars

-------------------------------------------------------------------------------
(* Properties.                                                              *)

\* The handlers that hold the record of a key and have not let go of it.
Holders(k) ==
    {h \in Handlers : run[h].own /\ run[h].key = k /\ run[h].stage \in {"BODY", "COMPLETE", "REMOVE"}}

\* One request of a key runs its body at a time, whatever the order in which copies of
\* it create, look up and remove the record (plugins/auth.ts:192-236).
OneAtATime == \A k \in Keys : Cardinality(Holders(k)) <= 1

\* An operation takes effect a second time only after an execution of it was answered
\* 5xx although it had committed: neither a copy, nor a crash, nor a failure of the
\* bookkeeping makes the body run again (plugins/auth.ts:265-299).  Only a body that
\* neither looks for its entry nor consumes what it acts on can do so at all.
AgainOnlyIfMislaid == \A k \in Keys :
    made[k] <= IF KindOf[k] = "SPENDS" THEN 1 + mislaid[k] ELSE 1

\* As long as no execution was mislaid, the client has one definite answer, and a
\* refusal means that nothing took effect.
OneAnswer == \A k \in Keys : mislaid[k] = 0 =>
    /\ \A x, y \in told[k] : x = y
    /\ "REFUSED" \in told[k] => made[k] = 0

\* The keys whose body looks for the entry first.
Looked == {k \in Keys : KindOf[k] = "LOOKS"}

\* The refusal of a key: stored, or told without being stored.
Refused(k) == record[k].status = "REFUSED" \/ "REFUSED" \in told[k]

Decision(k) ==
    IF entry[k] # Undecided THEN entry[k] ELSE IF Refused(k) THEN "REFUSED" ELSE Undecided

Promise == INSTANCE OncePerKey WITH
    Keys <- Looked, Refusal <- "REFUSED", Results <- Bodies,
    decision <- [k \in Looked |-> Decision(k)], told <- [k \in Looked |-> told[k]]

\* A body that looks for the entry of its key keeps the promise of the key whatever is
\* lost, repeated, mislaid or interrupted (economy/market.ts:210-225): it is decided
\* once, and every definite answer is that decision.
KeepsPromise == Promise!Spec

\* Every operation takes effect at most once under its key, which is what the key is for
\* (backend/prisma/schema.prisma:1445-1448).
MadeOnce == \A k \in Keys : made[k] <= 1
===============================================================================
