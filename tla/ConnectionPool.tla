--------------------------- MODULE ConnectionPool ---------------------------
(***************************************************************************)
(* How write requests share the postgres.js pool of db.ts.                 *)
(*                                                                         *)
(* runWrite takes a connection for the transaction before the use case     *)
(* starts and gives it back after COMMIT or ROLLBACK.  The repositories    *)
(* read on `db`, not on the transaction, so each read borrows a second     *)
(* connection while the first is held.  Queries that find no connection    *)
(* wait in one queue, first come first served, and without a timeout.      *)
(* The pool of ten is scaled to three or four in the runs: what matters is *)
(* whether the requests in progress can own every connection.              *)
(***************************************************************************)
EXTENDS Naturals, Sequences, FiniteSets

CONSTANTS Writers,   \* write requests that can be in progress at a time
          PoolSize,  \* connections (postgres.js: max, 10 unless configured)
          MaxReads   \* reads of the use case that makes the most of them

ASSUME PoolAssumption == /\ IsFiniteSet(Writers)
                         /\ PoolSize \in Nat \ {0}
                         /\ MaxReads \in Nat

VARIABLES phase,  \* "idle"; "begin" waits for the transaction's connection;
                  \* "open" has it; "wait" has it and waits for another to
                  \* read on; "reading" has both
          reads,  \* reads the use case has made
          queue   \* writers in phase begin or wait, in the order they came

vars == <<phase, reads, queue>>

Waiting == {"begin", "wait"}

Init == /\ phase = [w \in Writers |-> "idle"]
        /\ reads = [w \in Writers |-> 0]
        /\ queue = <<>>

In(phases) == {w \in Writers : phase[w] \in phases}

(* Mutant of InUse: a finished read keeps its connection until COMMIT.     *)
InUseLeaking ==
  LET again == {w \in In({"open", "wait"}) : reads[w] > 0}
  IN  Cardinality(In({"open", "wait", "reading"}))
        + Cardinality(In({"reading"}) \cup again)

(* Mutant of InUse: the transactions' own connections are not counted.     *)
InUseForReads == Cardinality(In({"reading"}))

(* Connections taken: one per transaction, one more per read in progress.  *)
InUse == Cardinality(In({"open", "wait", "reading"})) + Cardinality(In({"reading"}))

Enqueue(w, as) == /\ phase' = [phase EXCEPT ![w] = as]
                  /\ queue' = Append(queue, w)

(* runWrite: db.transaction asks for a connection to send BEGIN.           *)
Begin(w) == /\ phase[w] = "idle"
            /\ Enqueue(w, "begin")
            /\ reads' = [reads EXCEPT ![w] = 0]

(* The use case awaits a repository read.                                  *)
Read(w) == /\ phase[w] = "open"
           /\ reads[w] < MaxReads
           /\ Enqueue(w, "wait")
           /\ UNCHANGED reads

(* The pool serves the query that has waited longest.                      *)
Grant == /\ queue # <<>>
         /\ InUse < PoolSize
         /\ phase' = [phase EXCEPT ![Head(queue)] =
                        IF @ = "begin" THEN "open" ELSE "reading"]
         /\ queue' = Tail(queue)
         /\ UNCHANGED reads

ReadDone(w) == /\ phase[w] = "reading"
               /\ phase' = [phase EXCEPT ![w] = "open"]
               /\ reads' = [reads EXCEPT ![w] = @ + 1]
               /\ UNCHANGED queue

(* Mutant of End: a request that gives up a queued read leaves it queued.   *)
EndWhileWaiting(w) == /\ phase[w] \in {"open", "wait"}
                      /\ phase' = [phase EXCEPT ![w] = "idle"]
                      /\ UNCHANGED <<reads, queue>>

(* The use case returns, after its writes or at any guard before them; the *)
(* transaction ends.                                                       *)
End(w) == /\ phase[w] = "open"
          /\ phase' = [phase EXCEPT ![w] = "idle"]
          /\ UNCHANGED <<reads, queue>>

Next == \/ \E w \in Writers : Begin(w) \/ Read(w) \/ ReadDone(w) \/ End(w)
        \/ Grant

(* Queries that have a connection are answered, the pool serves its queue, *)
(* and a use case that can go on does, by reading or by returning.         *)
FairSpec == /\ Init /\ [][Next]_vars
            /\ WF_vars(Grant)
            /\ \A w \in Writers : WF_vars(ReadDone(w)) /\ WF_vars(Read(w) \/ End(w))

-----------------------------------------------------------------------------
(* The types, and that no more than PoolSize connections are ever taken.   *)
TypeOK == /\ phase \in [Writers -> {"idle", "begin", "open", "wait", "reading"}]
          /\ reads \in [Writers -> 0..MaxReads]
          /\ queue \in Seq(Writers)
          /\ Cardinality(In({"open", "wait", "reading"}))
               + Cardinality(In({"reading"})) <= PoolSize

(* A query is in the queue exactly while its request waits for it, once:   *)
(* no request is forgotten and none gets a connection it did not ask for.  *)
QueueExact ==
  /\ In(Waiting) = {queue[i] : i \in DOMAIN queue}
  /\ Len(queue) = Cardinality(In(Waiting))

(* Every write request that has begun ends.  (The comment at step 5 of the *)
(* create use case has reads run in the transaction itself, which would    *)
(* give this for every pool size.)                                         *)
EveryRequestEnds == \A w \in Writers : phase[w] = "begin" ~> phase[w] = "idle"
=============================================================================
