---------------------------- MODULE Requests_proofs ----------------------------
(***************************************************************************)
(* Proofs about Requests: its types, one request of a key at a time, when  *)
(* an operation takes effect again, one definite answer, and the promise   *)
(* of the key for the bodies that look for their entry.                    *)
(***************************************************************************)
EXTENDS Requests, FiniteSetTheorems, TLAPS

Holding(h) == run[h].stage \in {"BODY", "COMPLETE", "REMOVE"}

\* Who runs a body owns the open record of its key.
Owning == \A h \in Handlers : Holding(h) =>
    /\ run[h].own /\ run[h].key \in Keys
    /\ record[run[h].key].owner = h /\ record[run[h].key].status = "OPEN"

\* What a handler in the guard or at its answer is about.
Keyed == \A h \in Handlers : run[h].stage # "IDLE" => run[h].key \in Keys /\ run[h].body \in Bodies

\* The record of a key is either absent or taken.
Recorded == \A k \in Keys : record[k].status = "NONE" <=> record[k] = NoRecord

\* Executions whose answer cannot be stored are the mislaid ones.
Counted(k) ==
    /\ record[k] = NoRecord => made[k] <= mislaid[k]
    /\ made[k] <= 1 + mislaid[k]
    /\ KindOf[k] # "SPENDS" => made[k] <= 1
    /\ entry[k] = Undecided <=> made[k] = 0
Counts == \A k \in Keys : Counted(k)

\* The handler has not yet made anything that it may still mislay.
Owes == \A h \in Handlers :
    /\ run[h].stage \in {"BODY", "REMOVE"} => made[run[h].key] <= mislaid[run[h].key]
    /\ run[h].stage = "COMPLETE" /\ run[h].status # "OK" => made[run[h].key] <= mislaid[run[h].key]

\* An answer of success carries the entry of its key.
Success == \A k \in Keys :
    /\ \A x \in told[k] : x # "REFUSED" => entry[k] = x
    /\ record[k].status = "OK" => entry[k] # Undecided /\ record[k].entry = entry[k]
Carries == \A h \in Handlers :
    /\ run[h].stage \in {"COMPLETE", "REPLY"} =>
          /\ run[h].status \in {"OK", "REFUSED"}
          /\ run[h].status = "OK" => entry[run[h].key] # Undecided /\ run[h].entry = entry[run[h].key]
    /\ run[h].stage \in {"CREATE", "LOOKUP", "AGAIN", "BODY"} => run[h].status = "NONE"
    /\ run[h].stage = "COMPLETE" /\ run[h].status = "REFUSED" /\ KindOf[run[h].key] = "LOOKS"
          => entry[run[h].key] = Undecided

\* A refusal that was stored, told or is about to be told is final.
Final(k) ==
    /\ record[k] # NoRecord
    /\ \A h \in Handlers : Holding(h) => run[h].key # k
    /\ mislaid[k] = 0 => made[k] = 0
    /\ KindOf[k] = "LOOKS" => entry[k] = Undecided
Refusing(h, k) == run[h].stage = "REPLY" /\ run[h].status = "REFUSED" /\ run[h].key = k
Finality == \A k \in Keys :
    Refused(k) \/ (\E h \in Handlers : Refusing(h, k)) => Final(k)

IInv == TypeOK /\ Owning /\ Keyed /\ Recorded /\ Counts /\ Owes /\ Success /\ Carries /\ Finality

-------------------------------------------------------------------------------
(* What a step does to the handlers and the records.                        *)

LEMMA IdleRun == Idle \in Runs /\ Idle.stage = "IDLE" /\ NoRecord \in Records /\ NoRecord.status = "NONE"
BY DEF Idle, Runs, NoRecord, Records, Stages, Statuses

LEMMA GotoRun ==
  ASSUME TypeOK, NEW h \in Handlers, NEW s \in Stages, Goto(h, s)
  PROVE  /\ run' \in [Handlers -> Runs] /\ \A g \in Handlers : g # h => run'[g] = run[g]
         /\ run'[h].stage = s /\ run'[h].own = run[h].own /\ run'[h].status = run[h].status
         /\ run'[h].entry = run[h].entry /\ run'[h].key = run[h].key /\ run'[h].body = run[h].body
<1>1. run \in [Handlers -> Runs] /\ run[h] \in Runs
  BY DEF TypeOK
<1> DEFINE r == [run[h] EXCEPT !.stage = s]
<1>2. r \in Runs /\ r.stage = s /\ r.own = run[h].own /\ r.status = run[h].status
      /\ r.entry = run[h].entry /\ r.key = run[h].key /\ r.body = run[h].body
  BY <1>1 DEF Runs
<1>3. run' = [run EXCEPT ![h] = r]
  BY <1>1 DEF Goto
<1> HIDE DEF r
<1>q. QED
  BY <1>1, <1>2, <1>3

LEMMA AnsweringRun ==
  ASSUME TypeOK, NEW h \in Handlers, NEW st \in Statuses, NEW e \in Bodies \cup {Undecided},
         Answering(h, st, e)
  PROVE  /\ run' \in [Handlers -> Runs] /\ \A g \in Handlers : g # h => run'[g] = run[g]
         /\ run'[h].stage = "COMPLETE" /\ run'[h].own = run[h].own /\ run'[h].status = st
         /\ run'[h].entry = e /\ run'[h].key = run[h].key /\ run'[h].body = run[h].body
<1>1. run \in [Handlers -> Runs] /\ run[h] \in Runs
  BY DEF TypeOK
<1> DEFINE r == [run[h] EXCEPT !.stage = "COMPLETE", !.status = st, !.entry = e]
<1>2. r \in Runs /\ r.stage = "COMPLETE" /\ r.own = run[h].own /\ r.status = st
      /\ r.entry = e /\ r.key = run[h].key /\ r.body = run[h].body
  BY <1>1 DEF Runs, Stages
<1>3. run' = [run EXCEPT ![h] = r]
  BY <1>1 DEF Answering
<1> HIDE DEF r
<1>q. QED
  BY <1>1, <1>2, <1>3
\* What the steps of a handler say, one lemma for each: the handler moves, the others
\* stay, and the tables change at its key only.
Moves(h, s, o, st, e) ==
    /\ run' \in [Handlers -> Runs] /\ \A g \in Handlers : g # h => run'[g] = run[g]
    /\ run'[h].stage = s /\ run'[h].own = o /\ run'[h].status = st /\ run'[h].entry = e
    /\ run'[h].key = run[h].key /\ run'[h].body = run[h].body
Stays(h, s) == Moves(h, s, run[h].own, run[h].status, run[h].entry)
Writes(k, r) == record' = [record EXCEPT ![k] = r]

LEMMA CreateStep ==
  ASSUME TypeOK, Keyed, NEW h \in Handlers, Create(h)
  PROVE  /\ run[h].key \in Keys /\ run[h].stage \in {"CREATE", "AGAIN"}
         /\ UNCHANGED <<sent, wire, entry, made, told, mislaid>>
         /\ \/ /\ record[run[h].key] = NoRecord
               /\ \E r \in Records : Writes(run[h].key, r) /\ r.owner = h /\ r.status = "OPEN"
               /\ Moves(h, "BODY", TRUE, run[h].status, run[h].entry)
            \/ record' = record /\ \E s \in {"LOOKUP", "FAILED"} : Stays(h, s)
<1>1. run[h].key \in Keys /\ run[h].body \in Bodies /\ run \in [Handlers -> Runs] /\ run[h] \in Runs
      /\ run[h].stage \in {"CREATE", "AGAIN"} /\ UNCHANGED <<sent, wire, entry, made, told, mislaid>>
  BY DEF Create, Keyed, TypeOK, At
<1>2. CASE record[run[h].key] = NoRecord /\ Own(h)
  <2> DEFINE q == [run[h] EXCEPT !.stage = "BODY", !.own = TRUE]
             r == [owner |-> h, body |-> run[h].body, status |-> "OPEN", entry |-> Undecided]
  <2>1. q \in Runs /\ q.stage = "BODY" /\ q.own = TRUE /\ q.status = run[h].status
        /\ q.entry = run[h].entry /\ q.key = run[h].key /\ q.body = run[h].body
    BY <1>1 DEF Runs, Stages
  <2>2. r \in Records /\ r.owner = h /\ r.status = "OPEN"
    BY <1>1 DEF Records, Statuses
  <2>3. run' = [run EXCEPT ![h] = q] /\ Writes(run[h].key, r)
    BY <1>1, <1>2 DEF Own, Writes
  <2> HIDE DEF q, r
  <2>4. Moves(h, "BODY", TRUE, run[h].status, run[h].entry)
    BY <1>1, <2>1, <2>3 DEF Moves
  <2>q. QED
    BY <1>1, <1>2, <2>2, <2>3, <2>4
<1>3. CASE Goto(h, IF At(h, "CREATE") THEN "LOOKUP" ELSE "FAILED") /\ UNCHANGED record
  <2>1. PICK s \in {"LOOKUP", "FAILED"} : Goto(h, s)
    BY <1>3
  <2>2. Stays(h, s)
    BY <2>1, GotoRun DEF Stages, Stays, Moves
  <2>q. QED
    BY <1>1, <1>3, <2>2
<1>q. QED
  BY <1>2, <1>3 DEF Create

LEMMA LookUpStep ==
  ASSUME TypeOK, Keyed, NEW h \in Handlers, LookUp(h)
  PROVE  /\ run[h].key \in Keys /\ run[h].stage = "LOOKUP"
         /\ UNCHANGED <<sent, wire, record, entry, made, told, mislaid>>
         /\ \/ \E s \in {"AGAIN", "FAILED"} : Stays(h, s)
            \/ /\ record[run[h].key] # NoRecord /\ record[run[h].key].status # "OPEN"
               /\ Moves(h, "REPLY", run[h].own, record[run[h].key].status, record[run[h].key].entry)
<1>1. run[h].key \in Keys /\ run \in [Handlers -> Runs] /\ run[h] \in Runs /\ run[h].stage = "LOOKUP"
      /\ UNCHANGED <<sent, wire, record, entry, made, told, mislaid>>
      /\ record[run[h].key] \in Records
  BY DEF LookUp, Keyed, TypeOK, At
<1> DEFINE c == record[run[h].key]
<1>2. CASE \E s \in {"AGAIN", "FAILED"} : Goto(h, s)
  <2>1. PICK s \in {"AGAIN", "FAILED"} : Goto(h, s)
    BY <1>2
  <2>2. Stays(h, s)
    BY <2>1, GotoRun DEF Stages, Stays, Moves
  <2>q. QED
    BY <1>1, <2>2
<1>3. CASE c # NoRecord /\ c.status # "OPEN"
           /\ run' = [run EXCEPT ![h].stage = "REPLY", ![h].status = c.status, ![h].entry = c.entry]
  <2> DEFINE q == [run[h] EXCEPT !.stage = "REPLY", !.status = c.status, !.entry = c.entry]
  <2>1. q \in Runs /\ q.stage = "REPLY" /\ q.own = run[h].own /\ q.status = c.status
        /\ q.entry = c.entry /\ q.key = run[h].key /\ q.body = run[h].body
    BY <1>1 DEF Runs, Records, Stages
  <2>2. run' = [run EXCEPT ![h] = q]
    BY <1>1, <1>3
  <2> HIDE DEF q
  <2>3. Moves(h, "REPLY", run[h].own, c.status, c.entry)
    BY <1>1, <2>1, <2>2 DEF Moves
  <2>q. QED
    BY <1>1, <1>3, <2>3
<1>q. QED
  BY <1>2, <1>3 DEF LookUp, Replay

\* The body of a route, by its outcome.
LEMMA BodyStep ==
  ASSUME TypeOK, Keyed, NEW h \in Handlers, Body(h)
  PROVE  /\ run[h].key \in Keys /\ run[h].stage = "BODY"
         /\ UNCHANGED <<sent, wire, record, told, mislaid>>
         /\ \/ /\ entry[run[h].key] # Undecided => KindOf[run[h].key] = "SPENDS"
               /\ \E e \in Bodies :
                     /\ entry' = [entry EXCEPT ![run[h].key] = e]
                     /\ entry[run[h].key] # Undecided => e = entry[run[h].key]
                     /\ Moves(h, "COMPLETE", run[h].own, "OK", e)
               /\ made' = [made EXCEPT ![run[h].key] = @ + 1]
            \/ /\ entry[run[h].key] # Undecided /\ UNCHANGED <<entry, made>>
               /\ Moves(h, "COMPLETE", run[h].own, "OK", entry[run[h].key])
            \/ /\ ~(entry[run[h].key] # Undecided /\ KindOf[run[h].key] = "LOOKS")
               /\ UNCHANGED <<entry, made>> /\ Moves(h, "COMPLETE", run[h].own, "REFUSED", Undecided)
<1> DEFINE k == run[h].key
<1>1. k \in Keys /\ run[h].body \in Bodies /\ run[h].stage = "BODY"
      /\ UNCHANGED <<sent, wire, record, told, mislaid>> /\ entry \in [Keys -> Bodies \cup {Undecided}]
  BY DEF Body, Keyed, TypeOK, At
<1>2. CASE Apply(h, k)
  <2> DEFINE e == IF Replays(k) THEN entry[k] ELSE run[h].body
  <2>1. e \in Bodies /\ entry' = [entry EXCEPT ![k] = e] /\ entry'[k] = e
        /\ (entry[k] # Undecided => e = entry[k])
    BY <1>1, <1>2 DEF Apply, Replays
  <2>2. Answering(h, "OK", e)
    BY <1>2, <2>1 DEF Apply
  <2> HIDE DEF e
  <2>3. Moves(h, "COMPLETE", run[h].own, "OK", e)
    BY <2>1, <2>2, AnsweringRun DEF Statuses, Moves
  <2>q. QED
    BY <1>1, <1>2, <2>1, <2>3 DEF Apply, Replays
<1>3. CASE Repeat(h, k)
  <2>1. Moves(h, "COMPLETE", run[h].own, "OK", entry[k])
    BY <1>1, <1>3, AnsweringRun DEF Repeat, Statuses, Moves
  <2>q. QED
    BY <1>1, <1>3, <2>1 DEF Repeat, Replays
<1>4. CASE Refuse(h, k)
  <2>1. Moves(h, "COMPLETE", run[h].own, "REFUSED", Undecided)
    BY <1>1, <1>4, AnsweringRun DEF Refuse, Statuses, Moves
  <2>q. QED
    BY <1>1, <1>4, <2>1 DEF Refuse, Replays
<1>q. QED
  BY <1>2, <1>3, <1>4 DEF Body
LEMMA FailStep ==
  ASSUME TypeOK, Owning, NEW h \in Handlers, Fail(h)
  PROVE  /\ run[h].key \in Keys /\ run[h].stage \in {"BODY", "COMPLETE"} /\ Stays(h, "REMOVE")
         /\ mislaid' = [mislaid EXCEPT ![run[h].key] = IF run[h].status = "OK" THEN @ + 1 ELSE @]
         /\ UNCHANGED <<sent, wire, record, entry, made, told>>
<1>1. Goto(h, "REMOVE")
  BY DEF Fail, Goto
<1>2. Stays(h, "REMOVE")
  BY <1>1, GotoRun DEF Stages, Stays, Moves
<1>q. QED
  BY <1>2 DEF Fail, At, Owning, Holding

\* The record of a holder is completed, removed or, when the bookkeeping fails, left.
LEMMA CompleteStep ==
  ASSUME TypeOK, Owning, NEW h \in Handlers, Complete(h)
  PROVE  /\ run[h].key \in Keys /\ UNCHANGED <<sent, wire, entry, made, told, mislaid>>
         /\ \/ /\ run[h].stage = "COMPLETE" /\ Stays(h, "REPLY")
               /\ \/ record' = record
                  \/ \E r \in Records : /\ Writes(run[h].key, r) /\ r.owner = h
                                        /\ r.status = run[h].status /\ r.entry = run[h].entry
            \/ /\ run[h].stage = "REMOVE" /\ Stays(h, "FAILED")
               /\ record' = record \/ Writes(run[h].key, NoRecord)
<1> DEFINE k == run[h].key
<1>1. /\ k \in Keys /\ UNCHANGED <<sent, wire, entry, made, told, mislaid>>
      /\ record[k].owner = h /\ record[k].status = "OPEN" /\ run[h] \in Runs /\ record[k] \in Records
      /\ record \in [Keys -> Records]
  BY DEF Complete, At, Owning, Holding, TypeOK
<1>2. CASE run[h].stage = "COMPLETE" /\ Goto(h, "REPLY") /\ (Stored(h, k) \/ UNCHANGED record)
  <2>1. Stays(h, "REPLY")
    BY <1>2, GotoRun DEF Stages, Stays, Moves
  <2>2. CASE Stored(h, k)
    <3> DEFINE r == [record[k] EXCEPT !.status = run[h].status, !.entry = run[h].entry]
    <3>1. r \in Records /\ r.owner = h /\ r.status = run[h].status /\ r.entry = run[h].entry
      BY <1>1 DEF Records, Runs
    <3>2. Writes(k, r)
      BY <1>1, <2>2 DEF Stored, Writes
    <3> HIDE DEF r
    <3>q. QED
      BY <1>1, <1>2, <2>1, <3>1, <3>2
  <2>q. QED
    BY <1>1, <1>2, <2>1, <2>2
<1>3. CASE run[h].stage = "REMOVE" /\ Goto(h, "FAILED") /\ (Removed(h, k) \/ UNCHANGED record)
  <2>1. Stays(h, "FAILED")
    BY <1>3, GotoRun DEF Stages, Stays, Moves
  <2>2. Removed(h, k) => Writes(k, NoRecord)
    BY <1>1 DEF Removed, Writes
  <2>q. QED
    BY <1>1, <1>3, <2>1, <2>2
<1>q. QED
  BY <1>2, <1>3 DEF Complete, At

\* A handler becomes idle, and the client may learn its answer.
LEMMA ReplyStep ==
  ASSUME TypeOK, Keyed, NEW h \in Handlers, Reply(h)
  PROVE  /\ run[h].key \in Keys /\ run[h].stage \in {"REPLY", "FAILED"}
         /\ UNCHANGED <<sent, wire, record, entry, made, mislaid>>
         /\ run' = [run EXCEPT ![h] = Idle]
         /\ \/ told' = told
            \/ /\ run[h].stage = "REPLY"
               /\ told' = [told EXCEPT ![run[h].key] = @ \cup {Answer(h)}]
BY DEF Reply, At, Keyed, TypeOK

LEMMA ReceiveStep ==
  ASSUME TypeOK, NEW h \in Handlers, NEW k \in Keys, NEW b \in Bodies, Receive(h, k, b)
  PROVE  /\ run[h].stage = "IDLE" /\ UNCHANGED <<sent, record, entry, made, told, mislaid>>
         /\ \E q \in Runs : /\ run' = [run EXCEPT ![h] = q] /\ q.stage = "CREATE" /\ q.key = k
                            /\ q.body = b /\ q.status = "NONE"
<1> DEFINE q == [Idle EXCEPT !.stage = "CREATE", !.key = k, !.body = b]
<1>1. q \in Runs /\ q.stage = "CREATE" /\ q.key = k /\ q.body = b /\ q.status = "NONE"
  BY DEF Idle, Runs, Stages, Statuses
<1>2. run' = [run EXCEPT ![h] = q]
  BY DEF Receive
<1> HIDE DEF q
<1>q. QED
  BY <1>1, <1>2 DEF Receive, At

-------------------------------------------------------------------------------
(* The inductive invariant, one lemma for each action.                      *)

LEMMA InitIInv == Init => IInv
<1> SUFFICES ASSUME Init PROVE IInv
  OBVIOUS
<1>1. \A h \in Handlers : run[h] = Idle
  BY DEF Init
<1>2. \A k \in Keys : record[k] = NoRecord /\ entry[k] = Undecided /\ made[k] = 0 /\ mislaid[k] = 0
                     /\ told[k] = {}
  BY DEF Init
<1>3. TypeOK
  BY IdleRun DEF Init, TypeOK
<1>4. Owning /\ Keyed /\ Owes /\ Carries
  BY <1>1, IdleRun DEF Owning, Keyed, Owes, Carries, Holding
<1>5. Recorded /\ Counts /\ Success /\ Finality
  BY <1>1, <1>2, IdleRun DEF Recorded, Counts, Counted, Success, Finality, Refused, Refusing
<1>q. QED
  BY <1>3, <1>4, <1>5 DEF IInv

LEMMA CreateKeeps ==
  ASSUME IInv, NEW h \in Handlers, Create(h)
  PROVE  IInv'
<1> DEFINE k == run[h].key
<1>0. TypeOK /\ Owning /\ Keyed /\ Recorded /\ Counts /\ Owes /\ Success /\ Carries /\ Finality
  BY DEF IInv
<1>1. k \in Keys /\ run[h].stage \in {"CREATE", "AGAIN"} /\ ~Holding(h)
      /\ UNCHANGED <<sent, wire, entry, made, told, mislaid>>
  BY <1>0, CreateStep DEF Holding
<1>2. CASE record' = record /\ \E s \in {"LOOKUP", "FAILED"} : Stays(h, s)
  <2>1. PICK s \in {"LOOKUP", "FAILED"} : Stays(h, s)
    BY <1>2
  <2> USE <1>0, <1>1, <1>2, <2>1 DEF Stays, Moves
  <2>2. TypeOK'
    BY DEF TypeOK
  <2>3. Owning'
    BY DEF Owning, Holding
  <2>4. Keyed'
    BY DEF Keyed
  <2>5. Recorded' /\ Counts' /\ Success'
    BY DEF Recorded, Counts, Counted, Success
  <2>6. Owes'
    BY DEF Owes
  <2>7. Carries'
    BY DEF Carries
  <2>8. Finality'
    BY DEF Finality, Final, Refused, Refusing, Holding
  <2>q. QED
    BY <2>2, <2>3, <2>4, <2>5, <2>6, <2>7, <2>8 DEF IInv
<1>3. CASE /\ record[k] = NoRecord
           /\ \E r \in Records : Writes(k, r) /\ r.owner = h /\ r.status = "OPEN"
           /\ Moves(h, "BODY", TRUE, run[h].status, run[h].entry)
  <2>1. PICK r \in Records : Writes(k, r) /\ r.owner = h /\ r.status = "OPEN"
    BY <1>3
  <2>2. record' \in [Keys -> Records] /\ record'[k] = r /\ \A x \in Keys : x # k => record'[x] = record[x]
    BY <1>0, <1>1, <2>1 DEF TypeOK, Writes
  <2>3. r # NoRecord
    BY <2>1, IdleRun
  <2>4. \A g \in Handlers : Holding(g) => run[g].key # k
    BY <1>0, <1>3, IdleRun DEF Owning
  <2> HIDE DEF k
  <2> USE <1>0, <1>1, <1>3, <2>1, <2>2, <2>3, <2>4 DEF Moves
  <2>5. run'[h].key = k
    BY DEF k
  <2> USE <2>5
  <2>6. TypeOK'
    BY DEF TypeOK
  <2>7. Owning'
    BY DEF Owning, Holding
  <2>8. Keyed'
    BY DEF Keyed
  <2>9. Recorded' /\ Counts' /\ Success'
    BY DEF Recorded, Counts, Counted, Success
  <2>10. Owes'
    BY DEF Owes, Counts, Counted, k
  <2>11. Carries'
    BY DEF Carries
  <2>12. ~Refused(k) /\ ~\E g \in Handlers : Refusing(g, k)
    BY DEF Finality, Final
  <2>13. Finality'
    BY <2>12 DEF Finality, Final, Refused, Refusing, Holding
  <2>q. QED
    BY <2>6, <2>7, <2>8, <2>9, <2>10, <2>11, <2>13 DEF IInv
<1>q. QED
  BY <1>0, <1>2, <1>3, CreateStep
LEMMA LookUpKeeps ==
  ASSUME IInv, NEW h \in Handlers, LookUp(h)
  PROVE  IInv'
<1> DEFINE k == run[h].key
<1>0. TypeOK /\ Owning /\ Keyed /\ Recorded /\ Counts /\ Owes /\ Success /\ Carries /\ Finality
  BY DEF IInv
<1>1. k \in Keys /\ run[h].stage = "LOOKUP" /\ ~Holding(h)
      /\ UNCHANGED <<sent, wire, record, entry, made, told, mislaid>>
  BY <1>0, LookUpStep DEF Holding
<1>2. PICK s \in {"AGAIN", "FAILED", "REPLY"}, st \in Statuses, e \in Bodies \cup {Undecided} :
        /\ Moves(h, s, run[h].own, st, e)
        /\ s # "REPLY" => st = run[h].status /\ e = run[h].entry
        /\ s = "REPLY" => /\ record[k] # NoRecord /\ record[k].status # "OPEN"
                          /\ st = record[k].status /\ e = record[k].entry
  <2>1. run[h].status \in Statuses /\ run[h].entry \in Bodies \cup {Undecided}
        /\ record[k].status \in Statuses /\ record[k].entry \in Bodies \cup {Undecided}
    BY <1>0, <1>1 DEF TypeOK, Runs, Records
  <2>q. QED
    BY <1>0, <2>1, LookUpStep DEF Stays
<1>3. s = "REPLY" => st \in {"OK", "REFUSED"} /\ record[k].status = st
  BY <1>0, <1>1, <1>2 DEF Recorded, Statuses
<1>4. run'[h].key = k /\ run'[h].body = run[h].body /\ run'[h].stage = s /\ run'[h].status = st
      /\ run'[h].entry = e /\ run' \in [Handlers -> Runs]
      /\ \A g \in Handlers : g # h => run'[g] = run[g]
  BY <1>2 DEF Moves
<1> HIDE DEF k
<1> USE <1>0, <1>1, <1>2, <1>3, <1>4
<1>5. TypeOK'
  BY DEF TypeOK
<1>6. Owning'
  BY DEF Owning, Holding
<1>7. Keyed'
  BY DEF Keyed
<1>8. Recorded' /\ Counts' /\ Success'
  BY DEF Recorded, Counts, Counted, Success
<1>9. Owes'
  BY DEF Owes
<1>10. Carries'
  BY DEF Carries, Success, k
<1>11. Finality'
  BY DEF Finality, Final, Refused, Refusing, Holding
<1>q. QED
  BY <1>5, <1>6, <1>7, <1>8, <1>9, <1>10, <1>11 DEF IInv

LEMMA BodyKeeps ==
  ASSUME IInv, NEW h \in Handlers, Body(h)
  PROVE  IInv'
<1>0. TypeOK /\ Owning /\ Keyed /\ Recorded /\ Counts /\ Owes /\ Success /\ Carries /\ Finality
  BY DEF IInv
<1>k. PICK k \in Keys : k = run[h].key
  BY <1>0, BodyStep
<1>1. /\ k \in Keys /\ run[h].stage = "BODY" /\ UNCHANGED <<sent, wire, record, told, mislaid>>
      /\ record[k].owner = h /\ record[k].status = "OPEN" /\ record[k] # NoRecord /\ run[h].own
      /\ made[k] \in Nat /\ mislaid[k] \in Nat /\ made[k] <= mislaid[k]
  BY <1>0, <1>k, BodyStep, IdleRun DEF Owning, Holding, Owes, TypeOK
<1>2. PICK st \in {"OK", "REFUSED"}, e \in Bodies \cup {Undecided} :
        /\ Moves(h, "COMPLETE", run[h].own, st, e)
        /\ st = "OK" => e # Undecided
        /\ st = "REFUSED" => /\ ~(entry[k] # Undecided /\ KindOf[k] = "LOOKS")
                             /\ UNCHANGED <<entry, made>>
        /\ entry[k] # Undecided /\ st = "OK" => e = entry[k]
        /\ \/ UNCHANGED <<entry, made>> /\ (st = "OK" => entry[k] # Undecided)
           \/ /\ st = "OK" /\ entry' = [entry EXCEPT ![k] = e] /\ made' = [made EXCEPT ![k] = @ + 1]
              /\ entry[k] # Undecided => KindOf[k] = "SPENDS"
  <2>1. entry[k] \in Bodies \cup {Undecided}
    BY <1>0, <1>1 DEF TypeOK
  <2>q. QED
    BY <1>0, <1>k, <2>1, BodyStep, RequestsAssumption
<1>3. /\ \A g \in Handlers : g # h => run'[g] = run[g] /\ (Holding(g) => run[g].key # k)
      /\ run'[h].key = k /\ run'[h].body = run[h].body /\ run'[h].stage = "COMPLETE" /\ run'[h].own
      /\ run'[h].status = st /\ run'[h].entry = e /\ run' \in [Handlers -> Runs]
  BY <1>0, <1>1, <1>2, <1>k DEF Moves, Owning
<1>4. /\ entry' \in [Keys -> Bodies \cup {Undecided}] /\ made' \in [Keys -> Nat]
      /\ \A x \in Keys : x # k => entry'[x] = entry[x] /\ made'[x] = made[x]
      /\ entry[k] # Undecided => entry'[k] = entry[k]
      /\ st = "OK" => entry'[k] # Undecided /\ entry'[k] = e
      /\ st = "REFUSED" => entry'[k] = entry[k] /\ made'[k] = made[k]
      /\ made'[k] \in {made[k], made[k] + 1}
      /\ \/ made'[k] = made[k] /\ entry'[k] = entry[k]
         \/ made'[k] = made[k] + 1 /\ entry'[k] # Undecided
            /\ (entry[k] # Undecided => KindOf[k] = "SPENDS")
  <2>0. entry \in [Keys -> Bodies \cup {Undecided}] /\ made \in [Keys -> Nat]
    BY <1>0 DEF TypeOK
  <2>1. CASE UNCHANGED <<entry, made>> /\ (st = "OK" => entry[k] # Undecided)
    BY <1>1, <1>2, <2>0, <2>1
  <2>2. CASE /\ st = "OK" /\ entry' = [entry EXCEPT ![k] = e] /\ made' = [made EXCEPT ![k] = @ + 1]
             /\ entry[k] # Undecided => KindOf[k] = "SPENDS"
    BY <1>1, <1>2, <2>0, <2>2
  <2>q. QED
    BY <1>2, <2>1, <2>2
<1>5. ~Refused(k) /\ \A g \in Handlers : ~Refusing(g, k)
  BY <1>0, <1>1, <1>k DEF Finality, Final, Holding
<1> USE <1>0, <1>1, <1>3, <1>4, <1>5
<1>6. TypeOK'
  BY DEF TypeOK
<1>7. Owning'
  BY DEF Owning, Holding
<1>8. Keyed'
  BY DEF Keyed
<1>9. Recorded'
  BY DEF Recorded
<1>10. Counts'
  <2>0. Counted(k)
    BY DEF Counts
  <2>1. Counted(k)'
    BY ONLY <1>1, <1>4, <2>0 DEF Counted
  <2>2. \A x \in Keys : x # k => Counted(x)'
    BY ONLY <1>0, <1>1, <1>4 DEF Counts, Counted
  <2>3. \A x \in Keys : Counted(x)'
    BY ONLY <2>1, <2>2
  <2>q. QED
    BY ONLY <2>3 DEF Counts
<1>11. Owes'
  <2>1. ASSUME NEW g \in Handlers, g # h
        PROVE  /\ run[g].stage \in {"BODY", "REMOVE"} => made'[run[g].key] <= mislaid[run[g].key]
               /\ run[g].stage = "COMPLETE" /\ run[g].status # "OK"
                     => made'[run[g].key] <= mislaid[run[g].key]
    BY <2>1 DEF Owes, Owning, Holding
  <2>q. QED
    BY <1>2, <2>1 DEF Owes
<1>12. Success'
  <2>1. \A x \in told[k] : x # "REFUSED" => entry[k] = x /\ x # Undecided
    BY <1>0, RequestsAssumption DEF Success, TypeOK
  <2>2. \A x \in Keys : \A y \in told'[x] : y # "REFUSED" => entry'[x] = y
    BY ONLY <1>0, <1>1, <1>4, <2>1 DEF Success
  <2>3. \A x \in Keys : record'[x].status = "OK" => entry'[x] # Undecided /\ record'[x].entry = entry'[x]
    BY ONLY <1>0, <1>1, <1>4 DEF Success
  <2>q. QED
    BY ONLY <2>2, <2>3 DEF Success
<1>13. Carries'
  <2>1. ASSUME NEW g \in Handlers, g # h, run[g].stage # "IDLE"
        PROVE  /\ run[g].key \in Keys /\ (entry[run[g].key] # Undecided => entry'[run[g].key] = entry[run[g].key])
               /\ run[g].stage = "COMPLETE" => entry'[run[g].key] = entry[run[g].key]
    BY <2>1 DEF Keyed, Holding
  <2>2. ASSUME NEW g \in Handlers, g # h
        PROVE  /\ run'[g].stage \in {"COMPLETE", "REPLY"} =>
                     /\ run'[g].status \in {"OK", "REFUSED"}
                     /\ run'[g].status = "OK" => entry'[run'[g].key] # Undecided
                                               /\ run'[g].entry = entry'[run'[g].key]
               /\ run'[g].stage \in {"CREATE", "LOOKUP", "AGAIN", "BODY"} => run'[g].status = "NONE"
               /\ run'[g].stage = "COMPLETE" /\ run'[g].status = "REFUSED" /\ KindOf[run'[g].key] = "LOOKS"
                     => entry'[run'[g].key] = Undecided
    BY <2>1, <2>2 DEF Carries
  <2>q. QED
    BY <1>2, <2>2 DEF Carries
<1>14. Finality'
  <2>1. ASSUME NEW x \in Keys, x # k, Refused(x)' \/ \E g \in Handlers : Refusing(g, x)'
        PROVE  Final(x)'
    BY <2>1 DEF Finality, Final, Refused, Refusing, Holding
  <2>2. ~Refused(k)'
    BY ONLY <1>1, <1>5 DEF Refused
  <2>3. \A g \in Handlers : ~Refusing(g, k)'
    BY ONLY <1>3, <1>5 DEF Refusing
  <2>4. ASSUME NEW x \in Keys PROVE Refused(x)' \/ (\E g \in Handlers : Refusing(g, x)') => Final(x)'
    BY ONLY <2>1, <2>2, <2>3, <2>4
  <2>q. QED
    BY ONLY <2>4 DEF Finality
<1>q. QED
  BY <1>6, <1>7, <1>8, <1>9, <1>10, <1>11, <1>12, <1>13, <1>14 DEF IInv
LEMMA FailKeeps ==
  ASSUME IInv, NEW h \in Handlers, Fail(h)
  PROVE  IInv'
<1>0. TypeOK /\ Owning /\ Keyed /\ Recorded /\ Counts /\ Owes /\ Success /\ Carries /\ Finality
  BY DEF IInv
<1>k. PICK k \in Keys : k = run[h].key
  BY <1>0, FailStep
<1>1. /\ run[h].stage \in {"BODY", "COMPLETE"} /\ UNCHANGED <<sent, wire, record, entry, made, told>>
      /\ record[k].owner = h /\ record[k].status = "OPEN" /\ record[k] # NoRecord /\ run[h].own
      /\ made[k] \in Nat /\ mislaid[k] \in Nat /\ made[k] <= 1 + mislaid[k]
      /\ run[h].status # "OK" => made[k] <= mislaid[k]
  BY <1>0, <1>k, FailStep, IdleRun DEF Owning, Holding, Owes, TypeOK, Counts, Counted
<1>2. /\ mislaid' \in [Keys -> Nat] /\ \A x \in Keys : x # k => mislaid'[x] = mislaid[x]
      /\ mislaid'[k] \in Nat /\ mislaid[k] <= mislaid'[k] /\ made[k] <= mislaid'[k]
  <2>1. mislaid' = [mislaid EXCEPT ![k] = IF run[h].status = "OK" THEN @ + 1 ELSE @]
    BY <1>0, <1>k, FailStep
  <2>2. mislaid \in [Keys -> Nat]
    BY <1>0 DEF TypeOK
  <2>q. QED
    BY <1>1, <2>1, <2>2
<1>3. /\ \A g \in Handlers : g # h => run'[g] = run[g] /\ (Holding(g) => run[g].key # k)
      /\ run'[h].key = k /\ run'[h].body = run[h].body /\ run'[h].stage = "REMOVE" /\ run'[h].own
      /\ run'[h].status = run[h].status /\ run' \in [Handlers -> Runs]
  BY <1>0, <1>1, <1>k, FailStep DEF Stays, Moves, Owning
<1>4. ~Refused(k) /\ \A g \in Handlers : ~Refusing(g, k)
  BY <1>0, <1>1, <1>k DEF Finality, Final, Holding
<1> USE <1>0, <1>1, <1>2, <1>3, <1>4
<1>5. TypeOK'
  BY DEF TypeOK
<1>6. Owning'
  BY DEF Owning, Holding
<1>7. Keyed'
  BY <1>k DEF Keyed
<1>8. Recorded' /\ Success'
  BY DEF Recorded, Success
<1>9. Counts'
  <2>1. Counted(k) /\ \A x \in Keys : x # k => Counted(x)
    BY DEF Counts
  <2>2. Counted(k)'
    BY ONLY <1>1, <1>2, <2>1 DEF Counted
  <2>3. \A x \in Keys : x # k => Counted(x)'
    BY ONLY <1>1, <1>2, <2>1 DEF Counted
  <2>q. QED
    BY ONLY <2>2, <2>3 DEF Counts
<1>10. Owes'
  <2>1. ASSUME NEW g \in Handlers, g # h, Holding(g)
        PROVE  run[g].key \in Keys /\ mislaid'[run[g].key] = mislaid[run[g].key]
    BY <2>1 DEF Owning
  <2>q. QED
    BY <2>1 DEF Owes, Holding
<1>11. Carries'
  BY DEF Carries
<1>12. Finality'
  <2>1. ASSUME NEW x \in Keys, x # k, Refused(x)' \/ \E g \in Handlers : Refusing(g, x)'
        PROVE  Final(x)'
    BY <2>1 DEF Finality, Final, Refused, Refusing, Holding
  <2>2. ~Refused(k)'
    BY ONLY <1>1, <1>4 DEF Refused
  <2>3. \A g \in Handlers : ~Refusing(g, k)'
    BY ONLY <1>3, <1>4 DEF Refusing
  <2>4. ASSUME NEW x \in Keys PROVE Refused(x)' \/ (\E g \in Handlers : Refusing(g, x)') => Final(x)'
    BY ONLY <2>1, <2>2, <2>3, <2>4
  <2>q. QED
    BY ONLY <2>4 DEF Finality
<1>q. QED
  BY <1>5, <1>6, <1>7, <1>8, <1>9, <1>10, <1>11, <1>12 DEF IInv

LEMMA CompleteKeeps ==
  ASSUME IInv, NEW h \in Handlers, Complete(h)
  PROVE  IInv'
<1>0. TypeOK /\ Owning /\ Keyed /\ Recorded /\ Counts /\ Owes /\ Success /\ Carries /\ Finality
  BY DEF IInv
<1>k. PICK k \in Keys : k = run[h].key
  BY <1>0, CompleteStep
<1>1. /\ run[h].stage \in {"COMPLETE", "REMOVE"} /\ UNCHANGED <<sent, wire, entry, made, told, mislaid>>
      /\ record[k].owner = h /\ record[k].status = "OPEN" /\ record[k] # NoRecord
      /\ record[k] \in Records /\ record \in [Keys -> Records]
      /\ run[h].stage = "REMOVE" => made[k] <= mislaid[k]
      /\ run[h].stage = "COMPLETE" /\ run[h].status # "OK" => made[k] <= mislaid[k]
      /\ run[h].stage = "COMPLETE" =>
            /\ run[h].status \in {"OK", "REFUSED"}
            /\ run[h].status = "OK" => entry[k] # Undecided /\ run[h].entry = entry[k]
            /\ run[h].status = "REFUSED" /\ KindOf[k] = "LOOKS" => entry[k] = Undecided
  BY <1>0, <1>k, CompleteStep, IdleRun DEF Owning, Holding, Owes, TypeOK, Carries
<1>2. /\ record' \in [Keys -> Records] /\ \A x \in Keys : x # k => record'[x] = record[x]
      /\ \/ record'[k] = record[k]
         \/ /\ run[h].stage = "COMPLETE" /\ record'[k].owner = h /\ record'[k] # NoRecord
            /\ record'[k].status = run[h].status /\ record'[k].entry = run[h].entry
         \/ run[h].stage = "REMOVE" /\ record'[k] = NoRecord
  <2>1. CASE record' = record
    BY <1>1, <2>1
  <2>2. CASE run[h].stage = "COMPLETE" /\ \E r \in Records :
                Writes(k, r) /\ r.owner = h /\ r.status = run[h].status /\ r.entry = run[h].entry
    BY <1>1, <2>2, IdleRun DEF Writes
  <2>3. CASE run[h].stage = "REMOVE" /\ Writes(k, NoRecord)
    BY <1>1, <2>3, IdleRun DEF Writes
  <2>q. QED
    BY <1>0, <1>k, <2>1, <2>2, <2>3, CompleteStep
<1>3. /\ \A g \in Handlers : g # h => run'[g] = run[g] /\ (Holding(g) => run[g].key # k)
      /\ run'[h].key = k /\ run'[h].body = run[h].body /\ run'[h].own = run[h].own
      /\ run'[h].stage = IF run[h].stage = "COMPLETE" THEN "REPLY" ELSE "FAILED"
      /\ run'[h].status = run[h].status /\ run'[h].entry = run[h].entry /\ run' \in [Handlers -> Runs]
  BY <1>0, <1>1, <1>k, CompleteStep DEF Stays, Moves, Owning
<1>4. ~Refused(k) /\ \A g \in Handlers : ~Refusing(g, k)
  BY <1>0, <1>1, <1>k DEF Finality, Final, Holding
<1> USE <1>0, <1>1, <1>2, <1>3, <1>4
<1>5. TypeOK'
  BY DEF TypeOK
<1>6. Owning'
  BY DEF Owning, Holding
<1>7. Keyed'
  BY <1>k DEF Keyed
<1>8. Recorded' /\ Success'
  <2>1. record'[k].status = "NONE" <=> record'[k] = NoRecord
    BY IdleRun
  <2>2. record'[k].status = "OK" => entry[k] # Undecided /\ record'[k].entry = entry[k]
    BY IdleRun
  <2>q. QED
    BY ONLY <1>0, <1>1, <1>2, <2>1, <2>2 DEF Recorded, Success
<1>9. Counts'
  <2>1. Counted(k) /\ \A x \in Keys : x # k => Counted(x)
    BY DEF Counts
  <2>2. Counted(k)'
    BY ONLY <1>1, <1>2, <2>1 DEF Counted
  <2>3. \A x \in Keys : x # k => Counted(x)'
    BY ONLY <1>1, <1>2, <2>1 DEF Counted
  <2>q. QED
    BY ONLY <2>2, <2>3 DEF Counts
<1>10. Owes'
  BY DEF Owes
<1>11. Carries'
  BY <1>k DEF Carries
<1>12. Finality'
  <2>1. ASSUME NEW x \in Keys, x # k, Refused(x)' \/ \E g \in Handlers : Refusing(g, x)'
        PROVE  Final(x)'
    BY <2>1 DEF Finality, Final, Refused, Refusing, Holding
  <2>2. ASSUME Refused(k)' \/ \E g \in Handlers : Refusing(g, k)'
        PROVE  run[h].stage = "COMPLETE" /\ run[h].status = "REFUSED" /\ record'[k] # NoRecord
    BY <2>2, IdleRun DEF Refused, Refusing
  <2>3. ASSUME Refused(k)' \/ \E g \in Handlers : Refusing(g, k)'
        PROVE  Final(k)'
    <3>1. made[k] \in Nat /\ mislaid[k] \in Nat
      BY DEF TypeOK
    <3>2. \A g \in Handlers : Holding(g)' => run'[g].key # k
      BY <2>2, <2>3 DEF Holding
    <3>3. mislaid[k] = 0 => made[k] = 0
      BY <2>2, <2>3, <3>1
    <3>q. QED
      BY <2>2, <2>3, <3>2, <3>3 DEF Final
  <2>q. QED
    BY ONLY <2>1, <2>3 DEF Finality
<1>q. QED
  BY <1>5, <1>6, <1>7, <1>8, <1>9, <1>10, <1>11, <1>12 DEF IInv
LEMMA ReplyKeeps ==
  ASSUME IInv, NEW h \in Handlers, Reply(h)
  PROVE  IInv'
<1>0. TypeOK /\ Owning /\ Keyed /\ Recorded /\ Counts /\ Owes /\ Success /\ Carries /\ Finality
  BY DEF IInv
<1>k. PICK k \in Keys : k = run[h].key
  BY <1>0, ReplyStep
<1>1. /\ run[h].stage \in {"REPLY", "FAILED"} /\ UNCHANGED <<sent, wire, record, entry, made, mislaid>>
      /\ run' \in [Handlers -> Runs] /\ run'[h].stage = "IDLE"
      /\ \A g \in Handlers : g # h => run'[g] = run[g]
  BY <1>0, ReplyStep, IdleRun DEF TypeOK
<1>2. \/ told' = told
      \/ /\ run[h].stage = "REPLY" /\ told' = [told EXCEPT ![k] = @ \cup {Answer(h)}]
         /\ \/ run[h].status = "OK" /\ Answer(h) = entry[k] /\ entry[k] # Undecided
            \/ Refusing(h, k) /\ Answer(h) = "REFUSED"
  BY <1>0, <1>k, ReplyStep DEF Carries, Answer, Refusing
<1>3. /\ told' \in [Keys -> SUBSET (Bodies \cup {"REFUSED"})]
      /\ \A x \in Keys : \A y \in told'[x] : y \in told[x] \/ (y = "REFUSED" /\ Refusing(h, x))
                                             \/ y = entry[x]
  <2>1. told \in [Keys -> SUBSET (Bodies \cup {"REFUSED"})] /\ entry[k] \in Bodies \cup {Undecided}
    BY <1>0 DEF TypeOK
  <2>q. QED
    BY <1>2, <2>1
<1>4. \A x \in Keys : "REFUSED" \in told'[x] => "REFUSED" \in told[x] \/ Refusing(h, x)
  <2>1. \A x \in Keys : entry[x] # "REFUSED"
    BY <1>0, RequestsAssumption DEF TypeOK
  <2>q. QED
    BY <1>3, <2>1
<1> USE <1>0, <1>1
<1>5. TypeOK'
  BY <1>3 DEF TypeOK
<1>6. Owning' /\ Keyed' /\ Owes' /\ Carries'
  BY DEF Owning, Holding, Keyed, Owes, Carries
<1>7. Recorded' /\ Counts'
  BY DEF Recorded, Counts, Counted
<1>8. Success'
  BY <1>3 DEF Success
<1>9. Finality'
  <2>1. ASSUME NEW x \in Keys, Refused(x)' \/ \E g \in Handlers : Refusing(g, x)'
        PROVE  Final(x)
    BY <1>4, <2>1 DEF Finality, Refused, Refusing
  <2>2. ASSUME NEW x \in Keys, Final(x) PROVE Final(x)'
    BY <2>2 DEF Final, Holding
  <2>q. QED
    BY <2>1, <2>2 DEF Finality
<1>q. QED
  BY <1>5, <1>6, <1>7, <1>8, <1>9 DEF IInv

\* The messages of the clients.
LEMMA WireType ==
  ASSUME TypeOK, NEW k \in Keys, NEW b \in Bodies,
         Send(k, b) \/ Lose(k, b) \/ \E h \in Handlers : Receive(h, k, b)
  PROVE  TypeOK'
<1>1. wire \in [Keys -> [Bodies -> Nat]] /\ wire[k] \in [Bodies -> Nat] /\ sent \in Nat
  BY DEF TypeOK
<1>2. CASE Send(k, b)
  <2>1. wire' \in [Keys -> [Bodies -> Nat]]
    BY <1>1, <1>2 DEF Send
  <2>q. QED
    BY <1>1, <1>2, <2>1 DEF Send, TypeOK
<1>3. ASSUME wire[k][b] > 0, wire' = [wire EXCEPT ![k][b] = @ - 1]
      PROVE  wire' \in [Keys -> [Bodies -> Nat]]
  <2> DEFINE w == [wire[k] EXCEPT ![b] = @ - 1]
  <2>1. w \in [Bodies -> Nat]
    BY <1>1, <1>3
  <2>2. wire' = [wire EXCEPT ![k] = w]
    BY <1>1, <1>3
  <2> HIDE DEF w
  <2>q. QED
    BY <1>1, <2>1, <2>2
<1>4. CASE Lose(k, b)
  BY <1>3, <1>4 DEF Lose, TypeOK
<1>5. ASSUME NEW h \in Handlers, Receive(h, k, b) PROVE TypeOK'
  <2>1. run' \in [Handlers -> Runs]
    BY <1>5, ReceiveStep DEF TypeOK
  <2>q. QED
    BY <1>3, <1>5, <2>1 DEF Receive, TypeOK
<1>q. QED
  BY <1>2, <1>4, <1>5

LEMMA ReceiveKeeps ==
  ASSUME IInv, NEW h \in Handlers, NEW k \in Keys, NEW b \in Bodies, Receive(h, k, b)
  PROVE  IInv'
<1>0. TypeOK /\ Owning /\ Keyed /\ Recorded /\ Counts /\ Owes /\ Success /\ Carries /\ Finality
  BY DEF IInv
<1>1. /\ run[h].stage = "IDLE" /\ UNCHANGED <<sent, record, entry, made, told, mislaid>>
      /\ run' \in [Handlers -> Runs] /\ run'[h].stage = "CREATE" /\ run'[h].key = k /\ run'[h].body = b
      /\ run'[h].status = "NONE" /\ \A g \in Handlers : g # h => run'[g] = run[g]
  <2>1. PICK q \in Runs : /\ run' = [run EXCEPT ![h] = q] /\ q.stage = "CREATE" /\ q.key = k
                          /\ q.body = b /\ q.status = "NONE"
    BY <1>0, ReceiveStep
  <2>2. run \in [Handlers -> Runs]
    BY <1>0 DEF TypeOK
  <2>q. QED
    BY <1>0, <2>1, <2>2, ReceiveStep
<1>2. TypeOK'
  BY <1>0, WireType
<1> USE <1>0, <1>1
<1>3. Owning' /\ Keyed' /\ Owes' /\ Carries'
  BY DEF Owning, Holding, Keyed, Owes, Carries
<1>4. Recorded' /\ Counts' /\ Success'
  BY DEF Recorded, Counts, Counted, Success
<1>5. Finality'
  BY DEF Finality, Final, Refused, Refusing, Holding
<1>q. QED
  BY <1>2, <1>3, <1>4, <1>5 DEF IInv

LEMMA CrashKeeps == ASSUME IInv, Crash PROVE IInv'
<1>0. TypeOK /\ Owning /\ Keyed /\ Recorded /\ Counts /\ Owes /\ Success /\ Carries /\ Finality
  BY DEF IInv
<1>1. /\ UNCHANGED <<sent, wire, record, entry, made, told, mislaid>> /\ run' \in [Handlers -> Runs]
      /\ \A g \in Handlers : run'[g].stage = "IDLE"
  BY IdleRun DEF Crash
<1> USE <1>0, <1>1
<1>2. TypeOK'
  BY DEF TypeOK
<1>3. Owning' /\ Keyed' /\ Owes' /\ Carries'
  BY DEF Owning, Holding, Keyed, Owes, Carries
<1>4. Recorded' /\ Counts' /\ Success'
  BY DEF Recorded, Counts, Counted, Success
<1>5. Finality'
  BY DEF Finality, Final, Refused, Refusing, Holding
<1>q. QED
  BY <1>2, <1>3, <1>4, <1>5 DEF IInv

\* Steps of the clients and of the network other than a reception, and stuttering.
LEMMA QuietKeeps ==
  ASSUME IInv, TypeOK', UNCHANGED <<run, record, entry, made, told, mislaid>>
  PROVE  IInv'
BY DEF IInv, Owning, Holding, Keyed, Recorded, Counts, Counted, Owes, Success, Carries,
       Finality, Final, Refused, Refusing

LEMMA IInvStep == IInv /\ [Next]_vars => IInv'
<1> SUFFICES ASSUME IInv, [Next]_vars PROVE IInv'
  OBVIOUS
<1>0. TypeOK
  BY DEF IInv
<1>1. CASE UNCHANGED vars
  BY <1>0, <1>1, QuietKeeps DEF vars, TypeOK
<1>2. ASSUME NEW k \in Keys, NEW b \in Bodies, Send(k, b) \/ Lose(k, b)
      PROVE  IInv'
  BY <1>0, <1>2, WireType, QuietKeeps DEF Send, Lose
<1>3. ASSUME NEW k \in Keys, NEW b \in Bodies, NEW h \in Handlers, Receive(h, k, b)
      PROVE  IInv'
  BY <1>3, ReceiveKeeps
<1>4. ASSUME NEW h \in Handlers, Server(h) PROVE IInv'
  BY <1>4, CreateKeeps, LookUpKeeps, BodyKeeps, FailKeeps, CompleteKeeps, ReplyKeeps DEF Server
<1>q. QED
  BY <1>1, <1>2, <1>3, <1>4, CrashKeeps DEF Next

THEOREM Invariance == Spec => []IInv
<1>1. IInv /\ [Next]_vars => IInv'
  BY IInvStep
<1>q. QED
  BY InitIInv, <1>1, PTL DEF Spec
-------------------------------------------------------------------------------
(* Safety.                                                                  *)

\* Two requests of one key never run their bodies at a time.
THEOREM OneRequestAtATime == Spec => []OneAtATime
<1>1. IInv => OneAtATime
  <2> SUFFICES ASSUME IInv, NEW k \in Keys PROVE Cardinality(Holders(k)) <= 1
    BY DEF OneAtATime
  <2>1. IsFiniteSet(Holders(k))
    <3>1. Holders(k) \subseteq Handlers /\ IsFiniteSet(Handlers)
      BY RequestsAssumption DEF Holders
    <3>q. QED
      BY <3>1, FS_Subset
  <2>2. \A g, h \in Holders(k) : g = h
    BY DEF IInv, Holders, Owning, Holding
  <2>3. CASE Holders(k) = {}
    BY <2>3, FS_EmptySet
  <2>4. CASE Holders(k) # {}
    <3>1. PICK h \in Holders(k) : TRUE
      BY <2>4
    <3>2. Holders(k) = {h}
      BY <2>2, <3>1
    <3>3. Cardinality({h}) = 1
      BY FS_Singleton
    <3>q. QED
      BY <3>2, <3>3
  <2>q. QED
    BY <2>3, <2>4
<1>q. QED
  BY Invariance, <1>1, PTL

\* An operation takes effect again only for want of the answer of an earlier execution.
THEOREM AgainOnlyForWantOfAnAnswer == Spec => []AgainOnlyIfMislaid
<1>1. IInv => AgainOnlyIfMislaid
  BY DEF IInv, Counts, Counted, AgainOnlyIfMislaid
<1>q. QED
  BY Invariance, <1>1, PTL

\* The client never has two definite answers under a key while nothing was mislaid.
THEOREM OneDefiniteAnswer == Spec => []OneAnswer
<1>1. IInv => OneAnswer
  <2> SUFFICES ASSUME IInv, NEW k \in Keys, mislaid[k] = 0
               PROVE  /\ \A x, y \in told[k] : x = y
                      /\ "REFUSED" \in told[k] => made[k] = 0
    BY DEF OneAnswer
  <2>1. "REFUSED" \in told[k] => made[k] = 0 /\ entry[k] = Undecided
    BY DEF IInv, Finality, Final, Refused, Counts, Counted
  <2>2. \A x \in told[k] : x # "REFUSED" => entry[k] = x
    BY DEF IInv, Success
  <2>3. \A x \in told[k] : x # Undecided
    BY RequestsAssumption DEF IInv, TypeOK
  <2>q. QED
    BY <2>1, <2>2, <2>3
<1>q. QED
  BY Invariance, <1>1, PTL

-------------------------------------------------------------------------------
(* Refinement.                                                              *)

LEMMA PromiseInit == Init => Promise!Init
<1> SUFFICES ASSUME Init PROVE Promise!Init
  OBVIOUS
<1>1. \A k \in Looked : k \in Keys /\ ~Refused(k) /\ entry[k] = Undecided /\ told[k] = {}
  BY DEF Init, Refused, NoRecord, Looked
<1>2. \A k \in Looked : Decision(k) = Undecided
  BY <1>1 DEF Decision
<1>q. QED
  BY <1>1, <1>2 DEF Promise!Init

\* A step that leaves the tables alone, as far as a key shows, is a stutter.
LEMMA PromiseStutter ==
  ASSUME UNCHANGED <<entry, told>>, \A k \in Keys : Refused(k)' <=> Refused(k)
  PROVE  UNCHANGED Promise!vars
BY DEF Promise!vars, Decision, Looked

\* The effect of a body decides its key.
LEMMA PromiseBody ==
  ASSUME IInv, NEW h \in Handlers, Body(h)
  PROVE  Promise!Next \/ UNCHANGED Promise!vars
<1>0. TypeOK /\ Owning /\ Keyed /\ Finality
  BY DEF IInv
<1>k. PICK k \in Keys : k = run[h].key
  BY <1>0, BodyStep
<1>1. UNCHANGED <<record, told>> /\ run[h].stage = "BODY" /\ \A x \in Keys : Refused(x)' <=> Refused(x)
  BY <1>0, BodyStep DEF Refused
<1>2. CASE UNCHANGED entry
  BY <1>1, <1>2, PromiseStutter
<1>3. CASE \E e \in Bodies : /\ entry' = [entry EXCEPT ![k] = e]
                             /\ entry[k] # Undecided => e = entry[k] /\ KindOf[k] = "SPENDS"
  <2>1. PICK e \in Bodies : /\ entry' = [entry EXCEPT ![k] = e]
                            /\ entry[k] # Undecided => e = entry[k] /\ KindOf[k] = "SPENDS"
    BY <1>3
  <2>2. entry \in [Keys -> Bodies \cup {Undecided}] /\ e # Undecided
    BY <1>0, RequestsAssumption DEF TypeOK
  <2>3. CASE KindOf[k] # "LOOKS"
    <3>1. \A x \in Looked : entry'[x] = entry[x] /\ Decision(x)' = Decision(x)
      BY <1>1, <2>1, <2>2, <2>3 DEF Looked, Decision
    <3>q. QED
      BY <1>1, <3>1 DEF Promise!vars
  <2>4. CASE KindOf[k] = "LOOKS"
    <3>1. entry[k] = Undecided /\ ~Refused(k) /\ k \in Looked
      BY <1>0, <1>1, <1>k, <2>1, <2>4 DEF Finality, Final, Holding, Looked
    <3>2. /\ Decision(k) = Undecided /\ k \in Keys
          /\ \A x \in Looked : Decision(x)' = IF x = k THEN e ELSE Decision(x)
      BY <1>1, <2>1, <2>2, <3>1 DEF Decision, Looked
    <3>3. Promise!Decide(k, e)
      BY <1>1, <3>1, <3>2 DEF Promise!Decide
    <3>q. QED
      BY <3>1, <3>3 DEF Promise!Next
  <2>q. QED
    BY <2>3, <2>4
<1>q. QED
  BY <1>0, <1>k, <1>2, <1>3, BodyStep

\* A refusal that is stored decides its key.
LEMMA PromiseComplete ==
  ASSUME IInv, NEW h \in Handlers, Complete(h)
  PROVE  Promise!Next \/ UNCHANGED Promise!vars
<1>0. TypeOK /\ Owning /\ Keyed /\ Finality /\ Carries
  BY DEF IInv
<1>k. PICK k \in Keys : k = run[h].key
  BY <1>0, CompleteStep
<1>1. /\ UNCHANGED <<entry, told>> /\ Holding(h) /\ record \in [Keys -> Records]
      /\ record[k].status = "OPEN" /\ ~Refused(k)
  BY <1>0, <1>k, CompleteStep DEF Owning, Holding, TypeOK, Finality, Final
<1>2. PICK r \in Records : record' = [record EXCEPT ![k] = r]
                         /\ (r.status = "REFUSED" => run[h].stage = "COMPLETE" /\ run[h].status = "REFUSED")
  <2>1. CASE record' = record
    <3>1. record' = [record EXCEPT ![k] = record[k]] /\ record[k] \in Records
      BY <1>1, <2>1
    <3>q. QED
      BY <1>1, <3>1
  <2>2. CASE record' # record
    BY <1>0, <1>k, <2>2, CompleteStep, IdleRun DEF Writes
  <2>q. QED
    BY <2>1, <2>2
<1>3. \A x \in Keys : x # k => (Refused(x)' <=> Refused(x))
  BY <1>1, <1>2 DEF Refused
<1>4. CASE r.status # "REFUSED"
  <2>1. ~Refused(k)'
    BY <1>1, <1>2, <1>4 DEF Refused
  <2>q. QED
    BY <1>1, <1>3, <2>1, PromiseStutter
<1>5. CASE r.status = "REFUSED" /\ KindOf[k] # "LOOKS"
  <2>1. \A x \in Looked : x # k
    BY <1>5 DEF Looked
  <2>2. \A x \in Looked : Decision(x)' = Decision(x)
    BY <1>1, <1>3, <2>1 DEF Decision, Looked
  <2>q. QED
    BY <1>1, <2>2 DEF Promise!vars
<1>6. CASE r.status = "REFUSED" /\ KindOf[k] = "LOOKS"
  <2>1. entry[k] = Undecided /\ k \in Looked
    BY <1>0, <1>2, <1>6, <1>k DEF Carries, Looked
  <2>2. Refused(k)'
    BY <1>1, <1>2, <1>6 DEF Refused
  <2>3. /\ Decision(k) = Undecided
        /\ \A x \in Looked : Decision(x)' = IF x = k THEN "REFUSED" ELSE Decision(x)
    BY <1>1, <1>3, <2>1, <2>2 DEF Decision, Looked
  <2>4. Promise!Decide(k, "REFUSED")
    BY <1>1, <2>1, <2>3 DEF Promise!Decide
  <2>q. QED
    BY <2>1, <2>4 DEF Promise!Next
<1>q. QED
  BY <1>4, <1>5, <1>6

\* The answer of a handler is the decision of its key, or decides it.
LEMMA PromiseReply ==
  ASSUME IInv, NEW h \in Handlers, Reply(h)
  PROVE  Promise!Next \/ UNCHANGED Promise!vars
<1>0. TypeOK /\ Keyed /\ Finality /\ Carries
  BY DEF IInv
<1>k. PICK k \in Keys : k = run[h].key
  BY <1>0, ReplyStep
<1>1. UNCHANGED <<record, entry>> /\ told \in [Keys -> SUBSET (Bodies \cup {"REFUSED"})]
      /\ \A x \in Keys : entry[x] # "REFUSED"
  BY <1>0, ReplyStep, RequestsAssumption DEF TypeOK
<1>2. CASE told' = told
  BY <1>1, <1>2, PromiseStutter DEF Refused
<1>3. CASE run[h].stage = "REPLY" /\ told' = [told EXCEPT ![k] = @ \cup {Answer(h)}]
  <2>1. CASE KindOf[k] # "LOOKS"
    <3>1. \A x \in Looked : told'[x] = told[x] /\ Decision(x)' = Decision(x)
      BY <1>1, <1>3, <2>1 DEF Looked, Decision, Refused
    <3>q. QED
      BY <3>1 DEF Promise!vars
  <2>2. CASE k \in Looked /\ run[h].status = "OK"
    <3>1. Answer(h) = entry[k] /\ entry[k] # Undecided
      BY <1>0, <1>3, <1>k, <2>2 DEF Carries, Answer
    <3>2. \A x \in Looked : Decision(x)' = Decision(x) /\ told'[x] = IF x = k THEN told[x] \cup {entry[k]} ELSE told[x]
      BY <1>1, <1>3, <3>1 DEF Decision, Refused, Looked
    <3>3. Decision(k) = entry[k]
      BY <3>1 DEF Decision
    <3>4. Promise!Tell(k)
      BY <2>2, <3>1, <3>2, <3>3 DEF Promise!Tell
    <3>q. QED
      BY <2>2, <3>4 DEF Promise!Next
  <2>3. CASE k \in Looked /\ run[h].status = "REFUSED"
    <3>1. Answer(h) = "REFUSED" /\ Refusing(h, k) /\ KindOf[k] = "LOOKS"
      BY <1>3, <1>k, <2>3 DEF Answer, Refusing, Looked
    <3>2. entry[k] = Undecided
      BY <1>0, <3>1 DEF Finality, Final
    <3>3. /\ \A x \in Looked : told'[x] = IF x = k THEN told[x] \cup {"REFUSED"} ELSE told[x]
          /\ \A x \in Looked : Decision(x)' = IF x = k THEN "REFUSED" ELSE Decision(x)
      BY <1>1, <1>3, <2>3, <3>1, <3>2 DEF Decision, Refused, Looked
    <3>4. Decision(k) \in {Undecided, "REFUSED"} /\ "REFUSED" # Undecided
      BY <3>2, RequestsAssumption DEF Decision
    <3>5. Decision(k) = "REFUSED" => Promise!Tell(k)
      BY <2>3, <3>3, <3>4 DEF Promise!Tell
    <3>6. Decision(k) = Undecided => Promise!TellRefusal(k)
      BY <2>3, <3>3 DEF Promise!TellRefusal
    <3>q. QED
      BY <2>3, <3>4, <3>5, <3>6 DEF Promise!Next
  <2>q. QED
    BY <1>0, <1>3, <1>k, <2>1, <2>2, <2>3 DEF Carries, Looked
<1>q. QED
  BY <1>0, <1>k, <1>2, <1>3, ReplyStep

\* Every step of the detailed specification is a step of the promise or a stutter.
LEMMA PromiseStep == IInv /\ [Next]_vars => [Promise!Next]_(Promise!vars)
<1> SUFFICES ASSUME IInv, [Next]_vars PROVE Promise!Next \/ UNCHANGED Promise!vars
  OBVIOUS
<1>0. TypeOK /\ Keyed /\ Owning
  BY DEF IInv
<1>1. ASSUME UNCHANGED <<record, entry, told>> PROVE UNCHANGED Promise!vars
  BY <1>1, PromiseStutter DEF Refused
<1>2. ASSUME NEW h \in Handlers, Create(h) PROVE UNCHANGED Promise!vars
  <2>1. UNCHANGED <<entry, told>> /\ record \in [Keys -> Records]
    BY <1>0, <1>2, CreateStep DEF TypeOK
  <2>2. \A k \in Keys : Refused(k)' <=> Refused(k)
    <3>1. CASE record' = record
      BY <2>1, <3>1 DEF Refused
    <3>2. CASE \E r \in Records : /\ record[run[h].key] = NoRecord /\ record' = [record EXCEPT ![run[h].key] = r]
                                  /\ r.status = "OPEN"
      BY <2>1, <3>2, IdleRun DEF Refused
    <3>q. QED
      BY <1>0, <1>2, <3>1, <3>2, CreateStep DEF Writes
  <2>q. QED
    BY <2>1, <2>2, PromiseStutter
<1>3. ASSUME NEW h \in Handlers, Server(h) PROVE Promise!Next \/ UNCHANGED Promise!vars
  <2>1. LookUp(h) \/ Fail(h) => UNCHANGED Promise!vars
    BY <1>1 DEF LookUp, Fail
  <2>q. QED
    BY <1>2, <1>3, <2>1, PromiseBody, PromiseComplete, PromiseReply DEF Server
<1>4. CASE Crash
  BY <1>1, <1>4 DEF Crash
<1>5. ASSUME NEW k \in Keys, NEW b \in Bodies,
             Send(k, b) \/ Lose(k, b) \/ \E h \in Handlers : Receive(h, k, b)
      PROVE  UNCHANGED Promise!vars
  BY <1>1, <1>5 DEF Send, Lose, Receive
<1>6. CASE UNCHANGED vars
  BY <1>1, <1>6 DEF vars
<1>q. QED
  BY <1>3, <1>4, <1>5, <1>6 DEF Next

\* A body that looks for the entry of its key keeps the promise of the key.
THEOREM LookingKeepsThePromise == Spec => KeepsPromise
<1>1. IInv /\ [Next]_vars => [Promise!Next]_(Promise!vars)
  BY PromiseStep
<1>q. QED
  BY PromiseInit, Invariance, <1>1, PTL DEF Spec, KeepsPromise, Promise!Spec
===============================================================================
