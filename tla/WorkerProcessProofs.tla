------------------------- MODULE WorkerProcessProofs -------------------------
(* Proofs about worker processes, for any number of processes, loops,        *)
(* requests, retries and faults.                                              *)
EXTENDS WorkerProcess, TLAPS

\* Goto moves one loop and leaves the others where they are.
LEMMA GotoMoves ==
    ASSUME ProcessTypeOK, NEW p \in Processes, NEW l \in Loops, NEW where,
           where \in {"off", "wait", "call", "handle", "done"}, Goto(p, l, where)
    PROVE  /\ loop' \in [Processes -> [Loops -> {"off", "wait", "call", "handle", "done"}]]
           /\ loop'[p][l] = where
           /\ \A q \in Processes, k \in Loops : q # p \/ k # l => loop'[q][k] = loop[q][k]
  BY DEF ProcessTypeOK, Goto

\* A loop takes up another entry, and the others keep theirs.
LEMMA JobMoves ==
    ASSUME ProcessTypeOK, NEW p \in Processes, NEW l \in Loops, NEW e \in 0..MaxEntries,
           job' = [job EXCEPT ![p][l] = e]
    PROVE  /\ job' \in [Processes -> [Loops -> 0..MaxEntries]]
           /\ job'[p][l] = e
           /\ \A q \in Processes, k \in Loops : q # p \/ k # l => job'[q][k] = job[q][k]
  BY DEF ProcessTypeOK

\* What a loop does after Handle: the next entry of the batch, or none.
LEMMA HandledMoves ==
    ASSUME ProcessTypeOK, NEW p \in Processes, NEW l \in Loops, Working(p, l), Handled(p, l)
    PROVE  /\ loop' \in [Processes -> [Loops -> {"off", "wait", "call", "handle", "done"}]]
           /\ job' \in [Processes -> [Loops -> 0..MaxEntries]]
           /\ batch' \in [Processes -> SUBSET Ids]
           /\ \A q \in Processes, k \in Loops : q # p \/ k # l =>
                 loop'[q][k] = loop[q][k] /\ job'[q][k] = job[q][k]
           /\ \A q \in Processes : q # p => batch'[q] = batch[q]
           /\ \/ /\ loop'[p][l] = "wait" /\ job'[p][l] = 0
                 /\ batch' = batch /\ (l # "reclaimer" \/ batch[p] = {})
              \/ /\ loop' = loop /\ job'[p][l] \in batch[p] /\ l = "reclaimer"
                 /\ batch'[p] = batch[p] \ {job'[p][l]}
<1>1. CASE l = "reclaimer" /\ batch[p] # {}
  <2>1. PICK e \in Oldest(batch[p]) : /\ job' = [job EXCEPT ![p][l] = e]
                                      /\ batch' = [batch EXCEPT ![p] = @ \ {e}]
    BY <1>1 DEF Handled
  <2>2. e \in batch[p] /\ e \in Ids
    BY DEF Oldest, ProcessTypeOK
  <2>3. e \in 0..MaxEntries
    BY <2>2, BoundsType DEF Ids
  <2>4. loop' = loop
    BY <1>1 DEF Handled
  <2>5. batch' \in [Processes -> SUBSET Ids] /\ batch'[p] = batch[p] \ {e}
        /\ \A q \in Processes : q # p => batch'[q] = batch[q]
    BY <2>1 DEF ProcessTypeOK
  <2> QED BY <1>1, <2>1, <2>2, <2>3, <2>4, <2>5, JobMoves DEF ProcessTypeOK
<1>2. CASE l # "reclaimer" \/ batch[p] = {}
  <2>1. job' = [job EXCEPT ![p][l] = 0] /\ Goto(p, l, "wait") /\ batch' = batch
    BY <1>2 DEF Handled
  <2>2. 0 \in 0..MaxEntries
    BY BoundsType
  <2>3. /\ job' \in [Processes -> [Loops -> 0..MaxEntries]] /\ job'[p][l] = 0
        /\ \A q \in Processes, k \in Loops : q # p \/ k # l => job'[q][k] = job[q][k]
    BY <2>1, <2>2, JobMoves
  <2>4. /\ loop' \in [Processes -> [Loops -> {"off", "wait", "call", "handle", "done"}]]
        /\ loop'[p][l] = "wait"
        /\ \A q \in Processes, k \in Loops : q # p \/ k # l => loop'[q][k] = loop[q][k]
    BY <2>1, GotoMoves
  <2> QED BY <1>2, <2>1, <2>3, <2>4 DEF ProcessTypeOK
<1> QED BY <1>1, <1>2

-----------------------------------------------------------------------------
(* Type correctness *)

\* The stream is numbered: nothing is there beyond the newest entry, and every
\* entry carries a request.
Numbered ==
    \A e \in Ids :
        /\ e > last => entry[e] = "none" /\ e \notin scheduled
        /\ e <= last => request[e] \in 1..Requests

\* What is under Handle, or being published again, is an entry of the stream.
InStream ==
    \A p \in Processes :
        /\ \A l \in Loops : Working(p, l) => job[p][l] \in 1..last
        /\ job[p]["dispatcher"] <= last
        /\ batch[p] \subseteq 1..last

\* A stored retry is within the limit: its next attempt is an attempt.
RetriesLeft == \A e \in scheduled : attempt[e] < MaxRetries

TypeInv == ProcessTypeOK /\ Numbered /\ InStream /\ RetriesLeft

\* The types hold at the start.
LEMMA TypeInvInit == Init => TypeInv
<1> SUFFICES ASSUME Init PROVE TypeInv
  OBVIOUS
<1> USE BoundsType DEF Init
<1>1. ProcessTypeOK
  BY DEF ProcessTypeOK, Boots, Off, Idle, Ids
<1>2. Numbered
  BY DEF Numbered, Ids
<1>3. InStream
  BY DEF InStream, Working, Off, Idle, Loops
<1>4. RetriesLeft
  BY DEF RetriesLeft
<1> QED BY <1>1, <1>2, <1>3, <1>4 DEF TypeInv

\* The steps of run() and of the platform leave the stream alone.
LEMMA TypeInvMain ==
    ASSUME TypeInv, NEW p \in Processes,
           Main(p) \/ Restart(p) \/ BootFails(p) \/ Crash(p) \/ Signal(p) \/ OpsFails(p)
    PROVE  TypeInv'
<1> USE BoundsType DEF TypeInv, ProcessTypeOK, stream
<1>1. CASE BootStep(p)
  <2>1. main' \in [Processes -> Boots \cup {"launch", "ready", "select", "drain", "opsdrain",
                                          "stopped", "failed"}]
    BY <1>1 DEF BootStep, Boots, AfterBoot
  <2> QED BY <1>1, <2>1 DEF BootStep, Numbered, InStream, RetriesLeft, Working
<1>2. CASE Launch(p)
  BY <1>2 DEF Launch, Numbered, InStream, RetriesLeft, Working
<1>3. CASE SetReady(p)
  BY <1>3 DEF SetReady, Numbered, InStream, RetriesLeft, Working
<1>4. CASE SelectDone(p)
  BY <1>4 DEF SelectDone, Numbered, InStream, RetriesLeft, Working
<1>5. CASE SelectOps(p)
  BY <1>5 DEF SelectOps, Numbered, InStream, RetriesLeft, Working
<1>6. CASE Stop(p)
  BY <1>6 DEF Stop, Numbered, InStream, RetriesLeft, Working
<1>7. ASSUME Die(p), faults' \in 0..MaxFaults PROVE TypeInv'
  <2>1. loop' \in [Processes -> [Loops -> {"off", "wait", "call", "handle", "done"}]]
        /\ \A q \in Processes : loop'[q] = IF q = p THEN Off ELSE loop[q]
    BY <1>7 DEF Die, Off
  <2>2. job' \in [Processes -> [Loops -> 0..MaxEntries]]
        /\ \A q \in Processes : job'[q] = IF q = p THEN Idle ELSE job[q]
    BY <1>7 DEF Die, Idle
  <2>3. ProcessTypeOK'
    BY <1>7, <2>1, <2>2 DEF Die
  <2>4. InStream'
    BY <1>7, <2>1, <2>2 DEF Die, InStream, Working, Off, Idle, Loops
  <2> QED BY <1>7, <2>3, <2>4 DEF Die, Numbered, RetriesLeft
<1>8. CASE Crash(p)
  BY <1>8, <1>7 DEF Crash, Fault
<1>9. CASE Signal(p)
  <2>1. CASE main[p] \notin {"ready", "select", "drain"}
    BY <1>9, <2>1, <1>7 DEF Signal, Fault
  <2>2. CASE main[p] \in {"ready", "select", "drain"}
    <3>1. /\ ctx' = [ctx EXCEPT ![p] = "done"]
          /\ UNCHANGED <<main, life, opsErr, loop, job, batch, entry, taker, attempt,
                         request, decided, scheduled, last, kept>>
      BY <1>9, <2>2 DEF Signal
    <3>2. faults' \in 0..MaxFaults
      BY <1>9 DEF Signal, Fault
    <3> QED BY <3>1, <3>2 DEF Numbered, InStream, RetriesLeft, Working
  <2> QED BY <2>1, <2>2
<1>10. CASE OpsFails(p)
  BY <1>10 DEF OpsFails, Fault, Numbered, InStream, RetriesLeft, Working
<1>11. CASE BootFails(p)
  BY <1>11 DEF BootFails, Fault, Numbered, InStream, RetriesLeft, Working
<1>12. CASE Restart(p)
  <2>1. loop' \in [Processes -> [Loops -> {"off", "wait", "call", "handle", "done"}]]
        /\ \A q \in Processes : loop'[q] = IF q = p THEN Off ELSE loop[q]
    BY <1>12 DEF Restart, Off
  <2>2. job' \in [Processes -> [Loops -> 0..MaxEntries]]
        /\ \A q \in Processes : job'[q] = IF q = p THEN Idle ELSE job[q]
    BY <1>12 DEF Restart, Idle
  <2>3. ProcessTypeOK'
    BY <1>12, <2>1, <2>2 DEF Restart, Boots
  <2>4. InStream'
    BY <1>12, <2>1, <2>2 DEF Restart, InStream, Working, Off, Idle, Loops
  <2> QED BY <1>12, <2>3, <2>4 DEF Restart, Numbered, RetriesLeft
<1> QED BY <1>1, <1>2, <1>3, <1>4, <1>5, <1>6, <1>8, <1>9, <1>10, <1>11, <1>12 DEF Main

\* A loop that begins or ends a call, or returns.
LEMMA TypeInvCall ==
    ASSUME TypeInv, NEW p \in Processes, NEW l \in Loops,
           Quit(p, l) \/ Begin(p, l) \/ Nothing(p, l)
    PROVE  TypeInv'
<1> USE DEF TypeInv, stream, process
<1>1. PICK where \in {"wait", "call", "done"} : Goto(p, l, where)
  BY DEF Quit, Begin, Nothing
<1>2. UNCHANGED <<main, ctx, life, opsErr, job, batch, entry, taker, attempt,
                  request, decided, scheduled, last, kept, faults>>
  BY DEF Quit, Begin, Nothing
<1>3. /\ loop' \in [Processes -> [Loops -> {"off", "wait", "call", "handle", "done"}]]
      /\ loop'[p][l] = where
      /\ \A q \in Processes, k \in Loops : q # p \/ k # l => loop'[q][k] = loop[q][k]
  BY <1>1, GotoMoves
<1>4. ProcessTypeOK'
  BY <1>2, <1>3 DEF ProcessTypeOK
<1>5. InStream'
  BY <1>2, <1>3 DEF InStream, Working
<1> QED BY <1>2, <1>4, <1>5 DEF Numbered, RetriesLeft

\* An entry that is new is in the stream.
LEMMA NewInStream ==
    ASSUME TypeInv, NEW e \in Ids, entry[e] # "none" PROVE e \in 1..last
  BY BoundsType DEF TypeInv, Numbered, ProcessTypeOK, Ids

\* A read that delivers an entry, or loses it.
LEMMA TypeInvFetch ==
    ASSUME TypeInv, NEW p \in Processes, NEW l \in Loops, NEW e \in Ids,
           Deliver(p, l, e) \/ FetchLost(p, l, e)
    PROVE  TypeInv'
<1> USE DEF process
<1> ProcessTypeOK
  BY DEF TypeInv
<1>1. /\ l \in Consumers /\ l # "dispatcher"
      /\ entry' = [entry EXCEPT ![e] = "pending"]
      /\ taker' = [taker EXCEPT ![e] = p]
      /\ UNCHANGED <<main, ctx, life, opsErr, batch, attempt, request, decided, scheduled, last>>
  BY LoopsDistinct DEF Deliver, FetchLost
<1>2. e \in 1..last /\ e \in 0..MaxEntries
  BY NewInStream, BoundsType DEF Deliver, FetchLost, Ids
<1>3. kept' \in SUBSET Ids /\ faults' \in 0..MaxFaults
  BY BoundsType DEF Deliver, FetchLost, Fault, ProcessTypeOK
<1>4. /\ loop' \in [Processes -> [Loops -> {"off", "wait", "call", "handle", "done"}]]
      /\ \A q \in Processes, k \in Loops : q # p \/ k # l => loop'[q][k] = loop[q][k]
      /\ Deliver(p, l, e) \/ loop'[p][l] # "handle"
  BY GotoMoves DEF Deliver, FetchLost
<1>5. /\ job' \in [Processes -> [Loops -> 0..MaxEntries]]
      /\ \A q \in Processes, k \in Loops : q # p \/ k # l => job'[q][k] = job[q][k]
      /\ job'[p][l] = e \/ (job' = job /\ ~Deliver(p, l, e))
  <2>1. CASE Deliver(p, l, e)
    <3>1. job' = [job EXCEPT ![p][l] = e]
      BY <2>1 DEF Deliver
    <3> QED BY <1>2, <3>1, JobMoves
  <2>2. CASE FetchLost(p, l, e) /\ ~Deliver(p, l, e)
    <3>1. job' = job
      BY <2>2 DEF FetchLost
    <3> QED BY <2>2, <3>1 DEF ProcessTypeOK
  <2> QED BY <2>1, <2>2
<1>6. ProcessTypeOK'
  BY <1>1, <1>3, <1>4, <1>5 DEF ProcessTypeOK
<1>7. Numbered'
  BY <1>1, <1>2 DEF TypeInv, Numbered, ProcessTypeOK, Ids
<1>8. InStream'
  <2>1. last' = last /\ batch' = batch /\ "dispatcher" \in Loops
    BY <1>1 DEF Loops
  <2>2. \A q \in Processes, k \in Loops : Working(q, k)' => job'[q][k] \in 1..last
    BY <1>2, <1>4, <1>5 DEF TypeInv, InStream, Working
  <2>3. \A q \in Processes : job'[q]["dispatcher"] = job[q]["dispatcher"]
    BY <1>1, <1>5, <2>1
  <2> QED BY <2>1, <2>2, <2>3 DEF TypeInv, InStream
<1> QED BY <1>1, <1>6, <1>7, <1>8 DEF TypeInv, RetriesLeft

\* XAUTOCLAIM hands the reclaimer a batch.
LEMMA TypeInvClaim ==
    ASSUME TypeInv, NEW p \in Processes, NEW S \in SUBSET Ids, Claim(p, S)
    PROVE  TypeInv'
<1> USE DEF process
<1> ProcessTypeOK /\ "reclaimer" \in Loops
  BY DEF TypeInv, Loops
<1>1. PICK e \in S : /\ job' = [job EXCEPT ![p]["reclaimer"] = e]
                     /\ batch' = [batch EXCEPT ![p] = S \ {e}]
  BY DEF Claim, Oldest
<1>2. e \in 1..last /\ e \in 0..MaxEntries
  BY <1>1, NewInStream, BoundsType DEF Claim, Ids
<1>3. /\ job' \in [Processes -> [Loops -> 0..MaxEntries]]
      /\ job'[p]["reclaimer"] = e
      /\ \A q \in Processes, k \in Loops : q # p \/ k # "reclaimer" => job'[q][k] = job[q][k]
  BY <1>1, <1>2, JobMoves
<1>4. /\ loop' \in [Processes -> [Loops -> {"off", "wait", "call", "handle", "done"}]]
      /\ \A q \in Processes, k \in Loops : q # p \/ k # "reclaimer" => loop'[q][k] = loop[q][k]
  BY GotoMoves DEF Claim
<1>5. /\ batch' \in [Processes -> SUBSET Ids]
      /\ \A q \in Processes : batch'[q] = IF q = p THEN S \ {e} ELSE batch[q]
  BY <1>1 DEF ProcessTypeOK
<1>9. S \subseteq 1..last
  BY NewInStream DEF Claim
<1>6. ProcessTypeOK'
  BY <1>3, <1>4, <1>5 DEF ProcessTypeOK, Claim
<1>7. Numbered' /\ RetriesLeft'
  BY DEF TypeInv, Numbered, RetriesLeft, Claim
<1>8. InStream'
  <2>1. last' = last /\ "dispatcher" \in Loops /\ "dispatcher" # "reclaimer"
    BY DEF Loops, Claim
  <2>2. \A q \in Processes, k \in Loops : Working(q, k)' => job'[q][k] \in 1..last
    BY <1>2, <1>3, <1>4 DEF TypeInv, InStream, Working
  <2>3. \A q \in Processes : job'[q]["dispatcher"] = job[q]["dispatcher"]
    BY <1>3, <2>1
  <2>4. \A q \in Processes : batch'[q] \subseteq 1..last
    BY <1>5, <1>9 DEF TypeInv, InStream
  <2> QED BY <2>1, <2>2, <2>3, <2>4 DEF TypeInv, InStream
<1> QED BY <1>6, <1>7, <1>8 DEF TypeInv

\* XAUTOCLAIM takes entries and its answer is lost.
LEMMA TypeInvClaimLost ==
    ASSUME TypeInv, NEW p \in Processes, NEW S \in SUBSET Ids, ClaimLost(p, S)
    PROVE  TypeInv'
<1> USE DEF process
<1> ProcessTypeOK /\ "reclaimer" \in Loops
  BY DEF TypeInv, Loops
<1>1. /\ loop' \in [Processes -> [Loops -> {"off", "wait", "call", "handle", "done"}]]
      /\ loop'[p]["reclaimer"] = "wait"
      /\ \A q \in Processes, k \in Loops : q # p \/ k # "reclaimer" => loop'[q][k] = loop[q][k]
  BY GotoMoves DEF ClaimLost
<1>2. kept' \in SUBSET Ids /\ faults' \in 0..MaxFaults
  BY BoundsType DEF ClaimLost, Fault, ProcessTypeOK
<1>3. ProcessTypeOK'
  BY <1>1, <1>2 DEF ProcessTypeOK, ClaimLost
<1>4. Numbered' /\ RetriesLeft'
  BY DEF TypeInv, Numbered, RetriesLeft, ClaimLost
<1>5. InStream'
  BY <1>1 DEF TypeInv, InStream, Working, ClaimLost
<1> QED BY <1>3, <1>4, <1>5 DEF TypeInv

\* Handle ends: the entry is settled, scheduled again or kept.
LEMMA TypeInvHandle ==
    ASSUME TypeInv, NEW p \in Processes, NEW l \in Loops,
           Settle(p, l) \/ Reschedule(p, l) \/ Keep(p, l)
    PROVE  TypeInv'
<1> USE DEF process
<1> DEFINE e == job[p][l]
<1> ProcessTypeOK
  BY DEF TypeInv
<1>1. Working(p, l) /\ Handled(p, l) /\ UNCHANGED <<main, ctx, life, opsErr, taker, attempt, request, last>>
  BY DEF Settle, Reschedule, Keep
<1>2. e \in 1..last /\ e \in Ids /\ request[e] \in 1..Requests
  BY <1>1 DEF TypeInv, InStream, Numbered, ProcessTypeOK, Ids
<1>3. entry' \in [Ids -> {"none", "new", "pending", "acked"}]
      /\ \A f \in Ids : f # e => entry'[f] = entry[f]
  BY <1>2 DEF Settle, Reschedule, Keep, Ack, ProcessTypeOK
<1>4. decided' \subseteq 1..Requests
  BY <1>2 DEF Settle, Reschedule, Keep, ProcessTypeOK
<1>5. /\ scheduled' \subseteq Ids /\ scheduled' \subseteq scheduled \cup {e}
      /\ \A f \in scheduled' : attempt[f] < MaxRetries
  BY <1>2 DEF Settle, Reschedule, Keep, ProcessTypeOK, TypeInv, RetriesLeft
<1>6. kept' \subseteq Ids /\ faults' \in 0..MaxFaults
  BY <1>2, BoundsType DEF Settle, Reschedule, Keep, Fault, ProcessTypeOK
<1>7. /\ loop' \in [Processes -> [Loops -> {"off", "wait", "call", "handle", "done"}]]
      /\ job' \in [Processes -> [Loops -> 0..MaxEntries]]
      /\ batch' \in [Processes -> SUBSET Ids]
  BY <1>1, HandledMoves
<1>8. ProcessTypeOK'
  BY <1>1, <1>3, <1>4, <1>5, <1>6, <1>7 DEF ProcessTypeOK
<1>9. Numbered' /\ RetriesLeft'
  BY <1>1, <1>2, <1>3, <1>5 DEF TypeInv, Numbered, RetriesLeft, ProcessTypeOK, Ids
<1>10. InStream'
  <2> SUFFICES ASSUME NEW q \in Processes
               PROVE  /\ \A k \in Loops : Working(q, k)' => job'[q][k] \in 1..last
                      /\ job'[q]["dispatcher"] <= last
                      /\ batch'[q] \subseteq 1..last
    BY <1>1 DEF InStream
  <2>1. /\ \A k \in Loops : Working(q, k) => job[q][k] \in 1..last
        /\ job[q]["dispatcher"] <= last
        /\ batch[q] \subseteq 1..last
        /\ last \in Nat
    BY DEF TypeInv, InStream, ProcessTypeOK
  <2>2. /\ \A k \in Loops : q # p \/ k # l => loop'[q][k] = loop[q][k] /\ job'[q][k] = job[q][k]
        /\ q # p => batch'[q] = batch[q]
        /\ q = p => batch'[p] \subseteq batch[p]
    BY <1>1, HandledMoves
  <2>3. q = p => \/ loop'[p][l] = "wait" /\ job'[p][l] = 0
                 \/ job'[p][l] \in batch[p]
    BY <1>1, HandledMoves
  <2>4. "dispatcher" \in Loops
    BY DEF Loops
  <2> QED BY <2>1, <2>2, <2>3, <2>4 DEF Working
<1> QED BY <1>8, <1>9, <1>10 DEF TypeInv

\* The dispatcher publishes a retry as the newest entry.
LEMMA TypeInvPublish ==
    ASSUME TypeInv, NEW p \in Processes, NEW e \in Ids, Publish(p, e)
    PROVE  TypeInv'
<1> USE DEF process
<1> ProcessTypeOK /\ "dispatcher" \in Loops
  BY DEF TypeInv, Loops
<1>1. /\ last \in Nat /\ last' = last + 1 /\ last' \in Ids
      /\ e \in scheduled /\ e \in 1..last /\ e \in 0..MaxEntries
  BY BoundsType DEF Publish, TypeInv, Numbered, ProcessTypeOK, Ids
<1>2. /\ job' \in [Processes -> [Loops -> 0..MaxEntries]]
      /\ job'[p]["dispatcher"] = e
      /\ \A q \in Processes, k \in Loops : q # p \/ k # "dispatcher" => job'[q][k] = job[q][k]
  <2>1. job' = [job EXCEPT ![p]["dispatcher"] = e]
    BY DEF Publish
  <2> QED BY <1>1, <2>1, JobMoves
<1>3. attempt[e] + 1 \in 0..MaxRetries /\ request[e] \in 1..Requests
  BY <1>1, BoundsType DEF TypeInv, RetriesLeft, Numbered, ProcessTypeOK
<1>4. ProcessTypeOK'
  <2>1. /\ entry' \in [Ids -> {"none", "new", "pending", "acked"}]
        /\ attempt' \in [Ids -> 0..MaxRetries]
        /\ request' \in [Ids -> 0..Requests]
    BY <1>1, <1>3 DEF ProcessTypeOK, Publish
  <2>2. last' \in 0..MaxEntries
    BY <1>1, BoundsType DEF Ids
  <2>3. UNCHANGED <<main, ctx, life, opsErr, loop, batch, taker, decided, scheduled, kept, faults>>
    BY DEF Publish
  <2> QED BY <1>2, <2>1, <2>2, <2>3 DEF ProcessTypeOK
<1>5. Numbered'
  BY <1>1, <1>3 DEF TypeInv, Numbered, ProcessTypeOK, Publish, Ids
<1>6. RetriesLeft'
  <2>1. \A f \in scheduled : f # last' /\ f \in Ids
    BY <1>1 DEF TypeInv, Numbered, ProcessTypeOK, Ids
  <2> QED BY <2>1 DEF TypeInv, RetriesLeft, Publish, ProcessTypeOK
<1>7. InStream'
  <2>1. loop' = loop /\ batch' = batch /\ 1..last \subseteq 1..last'
    BY <1>1 DEF Publish
  <2>2. \A q \in Processes : job[q]["dispatcher"] \in Nat
    BY DEF ProcessTypeOK
  <2>3. loop[p]["dispatcher"] = "call"
    BY DEF Publish
  <2> QED BY <1>1, <1>2, <2>1, <2>2, <2>3 DEF TypeInv, InStream, Working
<1> QED BY <1>4, <1>5, <1>6, <1>7 DEF TypeInv

\* The dispatcher removes the envelope it published.
LEMMA TypeInvRemove ==
    ASSUME TypeInv, NEW p \in Processes, Remove(p)
    PROVE  TypeInv'
<1> USE DEF process
<1> ProcessTypeOK /\ "dispatcher" \in Loops /\ 0 \in 0..MaxEntries
  BY BoundsType DEF TypeInv, Loops
<1>1. /\ job' \in [Processes -> [Loops -> 0..MaxEntries]]
      /\ job'[p]["dispatcher"] = 0
      /\ \A q \in Processes, k \in Loops : q # p \/ k # "dispatcher" => job'[q][k] = job[q][k]
  <2>1. job' = [job EXCEPT ![p]["dispatcher"] = 0]
    BY DEF Remove
  <2> QED BY <2>1, JobMoves
<1>2. /\ loop' \in [Processes -> [Loops -> {"off", "wait", "call", "handle", "done"}]]
      /\ loop'[p]["dispatcher"] = "wait"
      /\ \A q \in Processes, k \in Loops : q # p \/ k # "dispatcher" => loop'[q][k] = loop[q][k]
  BY GotoMoves DEF Remove
<1>3. scheduled' \subseteq scheduled
  BY DEF Remove
<1>4. ProcessTypeOK'
  BY <1>1, <1>2, <1>3 DEF ProcessTypeOK, Remove
<1>5. Numbered' /\ RetriesLeft'
  BY <1>3 DEF TypeInv, Numbered, RetriesLeft, Remove
<1>6. InStream'
  BY <1>1, <1>2 DEF TypeInv, InStream, Working, Remove, ProcessTypeOK
<1> QED BY <1>4, <1>5, <1>6 DEF TypeInv

\* Every step of the rollout keeps the types.
LEMMA TypeInvStep == TypeInv /\ [Next]_vars => TypeInv'
<1> SUFFICES ASSUME TypeInv, [Next]_vars PROVE TypeInv'
  OBVIOUS
<1>1. CASE UNCHANGED vars
  BY <1>1 DEF vars, TypeInv, ProcessTypeOK, Numbered, InStream, RetriesLeft, Working
<1>2. CASE Next
  <2> PICK p \in Processes :
        Main(p) \/ Restart(p) \/ Misfortune(p) \/ \E l \in Loops : Step(p, l)
    BY <1>2 DEF Next
  <2>1. CASE Main(p) \/ Restart(p)
    BY <2>1, TypeInvMain
  <2>2. CASE Misfortune(p)
    BY <2>2, TypeInvMain, TypeInvHandle, TypeInvFetch, TypeInvClaimLost DEF Misfortune
  <2>3. ASSUME NEW l \in Loops, Step(p, l) PROVE TypeInv'
    BY <2>3, TypeInvCall, TypeInvHandle, TypeInvFetch, TypeInvClaim, TypeInvPublish, TypeInvRemove DEF Step
  <2> QED BY <2>1, <2>2, <2>3
<1> QED BY <1>1, <1>2

\* The types hold throughout.
LEMMA TypeInvAlways == Spec => []TypeInv
  BY TypeInvInit, TypeInvStep, PTL DEF Spec

\* Type correctness of the processes: every job is an entry of the stream, and
\* no attempt is beyond the retry limit (processor.go, dispatcher.go).
THEOREM ProcessTypeCorrect == Spec => []ProcessTypeOK
<1>1. TypeInv => ProcessTypeOK
  BY DEF TypeInv
<1> QED BY <1>1, TypeInvAlways, PTL

-----------------------------------------------------------------------------
(* Readiness *)

\* Before the goroutines are started the probe is not READY and no loop runs.
BootingIsQuiet ==
    \A p \in Processes : main[p] \in Boots \cup {"launch"} =>
        life[p] = "STARTING" /\ \A l \in Loops : loop[p][l] = "off"

\* From then on until the process ends every loop has been started.
RunningIsStarted ==
    \A p \in Processes : main[p] \in {"ready", "select", "drain", "opsdrain"} =>
        \A l \in Loops : loop[p][l] # "off"

\* A loop returns only when rootCtx is done.
ReturnedByContext ==
    \A p \in Processes, l \in Loops : loop[p][l] = "done" => ctx[p] = "done"

ReadyInv == BootingIsQuiet /\ RunningIsStarted /\ ReturnedByContext

\* Any step of a goroutine, the ones that a fault makes included.
LoopStep(p, l) ==
    \/ Step(p, l) \/ Keep(p, l) \/ \E e \in Ids : FetchLost(p, l, e)
    \/ l = "reclaimer" /\ \E S \in SUBSET Ids : ClaimLost(p, S)

\* The steps of the specification: run() and the platform, or a goroutine.
LEMMA NextCases ==
    ASSUME NEW p \in Processes,
           Main(p) \/ Restart(p) \/ Misfortune(p) \/ \E l \in Loops : Step(p, l)
    PROVE  \/ Main(p) \/ Restart(p) \/ BootFails(p) \/ Crash(p) \/ Signal(p) \/ OpsFails(p)
           \/ \E l \in Loops : LoopStep(p, l)
<1>1. "reclaimer" \in Loops
  BY DEF Loops
<1> QED BY <1>1 DEF Misfortune, LoopStep

\* A goroutine moves only its own loop, which is running, and returns only
\* when rootCtx is done.
LEMMA LoopStepMoves ==
    ASSUME TypeInv, NEW p \in Processes, NEW l \in Loops, LoopStep(p, l)
    PROVE  /\ UNCHANGED <<main, ctx, life, opsErr>>
           /\ loop[p][l] \in {"wait", "call", "handle"}
           /\ loop'[p][l] \in {"wait", "call", "handle", "done"}
           /\ loop'[p][l] = "done" => ctx[p] = "done"
           /\ \A q \in Processes, k \in Loops : q # p \/ k # l => loop'[q][k] = loop[q][k]
<1> USE DEF process
<1> ProcessTypeOK
  BY DEF TypeInv
<1>1. CASE Quit(p, l) \/ Begin(p, l) \/ Nothing(p, l)
  BY <1>1, GotoMoves DEF Quit, Begin, Nothing
<1>2. ASSUME NEW e \in Ids, Deliver(p, l, e) \/ FetchLost(p, l, e)
      PROVE  /\ UNCHANGED <<main, ctx, life, opsErr>>
             /\ loop[p][l] = "call"
             /\ loop'[p][l] \in {"wait", "handle", "done"}
             /\ loop'[p][l] = "done" => ctx[p] = "done"
             /\ \A q \in Processes, k \in Loops : q # p \/ k # l => loop'[q][k] = loop[q][k]
  BY <1>2, GotoMoves DEF Deliver, FetchLost
<1>3. CASE Settle(p, l) \/ Reschedule(p, l) \/ Keep(p, l)
  <2>1. UNCHANGED <<main, ctx, life, opsErr>> /\ Working(p, l) /\ Handled(p, l)
    BY <1>3 DEF Settle, Reschedule, Keep
  <2> QED BY <2>1, HandledMoves DEF Working
<1>4. ASSUME l = "reclaimer", NEW S \in SUBSET Ids, Claim(p, S) \/ ClaimLost(p, S)
      PROVE  /\ UNCHANGED <<main, ctx, life, opsErr>>
             /\ loop[p][l] = "call"
             /\ loop'[p][l] \in {"handle", "wait"}
             /\ \A q \in Processes, k \in Loops : q # p \/ k # l => loop'[q][k] = loop[q][k]
  BY <1>4, GotoMoves DEF Claim, ClaimLost
<1>5. CASE l = "dispatcher" /\ (Remove(p) \/ \E e \in Ids : Publish(p, e))
  BY <1>5, GotoMoves DEF Remove, Publish
<1> QED BY <1>1, <1>2, <1>3, <1>4, <1>5 DEF LoopStep, Step

\* A process that ends abruptly, or starts again, has no loop.
LEMMA GoneIsOff ==
    ASSUME TypeInv, NEW p \in Processes, Die(p) \/ Restart(p)
    PROVE  /\ \A q \in Processes, l \in Loops :
                 loop'[q][l] = IF q = p THEN "off" ELSE loop[q][l]
           /\ \A q \in Processes, l \in Loops :
                 job'[q][l] = IF q = p THEN 0 ELSE job[q][l]
           /\ \A q \in Processes : batch'[q] = IF q = p THEN {} ELSE batch[q]
           /\ \A q \in Processes : q # p => /\ main'[q] = main[q] /\ ctx'[q] = ctx[q]
                                           /\ life'[q] = life[q]
           /\ Die(p) => main'[p] = "failed"
           /\ Restart(p) => main'[p] = "config" /\ life'[p] = "STARTING"
<1>1. /\ loop' = [loop EXCEPT ![p] = Off] /\ job' = [job EXCEPT ![p] = Idle]
      /\ batch' = [batch EXCEPT ![p] = {}]
  BY DEF Die, Restart
<1>2. /\ \A q \in Processes : q # p => main'[q] = main[q] /\ ctx'[q] = ctx[q] /\ life'[q] = life[q]
      /\ Die(p) => main'[p] = "failed"
      /\ Restart(p) => main'[p] = "config" /\ life'[p] = "STARTING"
  BY DEF TypeInv, ProcessTypeOK, Die, Restart
<1>3. \A q \in Processes : /\ loop'[q] = IF q = p THEN Off ELSE loop[q]
                           /\ job'[q] = IF q = p THEN Idle ELSE job[q]
                           /\ batch'[q] = IF q = p THEN {} ELSE batch[q]
  BY <1>1 DEF TypeInv, ProcessTypeOK
<1> QED BY <1>2, <1>3 DEF Off, Idle

\* Nothing is ready at the start.
LEMMA ReadyInvInit == Init => ReadyInv
  BY DEF Init, ReadyInv, BootingIsQuiet, RunningIsStarted, ReturnedByContext, Boots, Off

\* Every step keeps what readiness rests on.
LEMMA ReadyInvStep == TypeInv /\ ReadyInv /\ [Next]_vars => ReadyInv'
<1> SUFFICES ASSUME TypeInv, ReadyInv, [Next]_vars PROVE ReadyInv'
  OBVIOUS
<1> USE DEF ReadyInv, BootingIsQuiet, RunningIsStarted, ReturnedByContext, stream
<1>1. CASE UNCHANGED vars
  BY <1>1 DEF vars
<1>2. CASE Next
  <2> PICK p \in Processes :
        Main(p) \/ Restart(p) \/ Misfortune(p) \/ \E l \in Loops : Step(p, l)
    BY <1>2 DEF Next
  <2>9. CASE Die(p) \/ Restart(p)
    BY <2>9, GoneIsOff DEF Boots
  <2>11. ASSUME NEW l \in Loops, LoopStep(p, l) PROVE ReadyInv'
    <3>1. /\ UNCHANGED <<main, ctx, life>>
          /\ loop[p][l] # "off" /\ loop'[p][l] # "off"
          /\ loop'[p][l] = "done" => ctx[p] = "done"
          /\ \A q \in Processes, k \in Loops : q # p \/ k # l => loop'[q][k] = loop[q][k]
      BY <2>11, LoopStepMoves
    <3> QED BY <3>1
  <2> USE DEF TypeInv, ProcessTypeOK
  <2>1. CASE BootStep(p)
    <3>1. main' = [main EXCEPT ![p] = AfterBoot[main[p]]] /\ main[p] \in Boots
          /\ AfterBoot[main[p]] \in Boots \cup {"launch"}
          /\ UNCHANGED <<ctx, life, loop>>
      BY <2>1 DEF BootStep, Boots, AfterBoot
    <3> QED BY <3>1 DEF Boots
  <2>2. CASE Launch(p)
    BY <2>2 DEF Launch, Boots
  <2>3. CASE SetReady(p)
    BY <2>3 DEF SetReady, Boots
  <2>4. CASE SelectDone(p)
    BY <2>4 DEF SelectDone, Boots
  <2>5. CASE SelectOps(p)
    <3>1. /\ main' = [main EXCEPT ![p] = "opsdrain"] /\ main[p] = "select"
          /\ ctx' = [ctx EXCEPT ![p] = "done"]
          /\ UNCHANGED <<life, loop>>
      BY <2>5 DEF SelectOps
    <3> QED BY <3>1 DEF Boots
  <2>6. CASE Stop(p)
    BY <2>6 DEF Stop, Boots
  <2>7. CASE BootFails(p)
    BY <2>7 DEF BootFails, Boots
  <2>8. CASE OpsFails(p)
    BY <2>8 DEF OpsFails
  <2>10. CASE Crash(p) \/ Signal(p)
    <3>1. Die(p) \/ (/\ ctx' = [ctx EXCEPT ![p] = "done"]
                     /\ UNCHANGED <<main, life, loop>>)
      BY <2>10 DEF Crash, Signal
    <3> QED BY <2>9, <3>1
  <2> QED BY <2>1, <2>2, <2>3, <2>4, <2>5, <2>6, <2>7, <2>8, <2>9, <2>10, <2>11, NextCases DEF Main
<1> QED BY <1>1, <1>2

\* What readiness rests on holds throughout.
LEMMA ReadyInvAlways == Spec => []ReadyInv
  BY TypeInvAlways, ReadyInvInit, ReadyInvStep, PTL DEF Spec

\* A READY worker whose context is live runs all of its loops, whatever its
\* fetches and its ops servers do (main.go).
THEOREM ReadyMeansServing == Spec => []ReadyServes
<1>1. TypeInv /\ ReadyInv => ReadyServes
  <2> SUFFICES ASSUME TypeInv, ReadyInv, NEW p \in Processes, NEW l \in Loops,
                      life[p] = "READY", ctx[p] = "live", ~Ended(p)
               PROVE  loop[p][l] \in {"wait", "call", "handle"}
    BY DEF ReadyServes
  <2>1. main[p] \in {"ready", "select", "drain", "opsdrain"}
    BY DEF TypeInv, ProcessTypeOK, ReadyInv, BootingIsQuiet, Ended
  <2>2. loop[p][l] \in {"off", "wait", "call", "handle", "done"}
    BY DEF TypeInv, ProcessTypeOK
  <2> QED BY <2>1, <2>2 DEF ReadyInv, RunningIsStarted, ReturnedByContext
<1> QED BY <1>1, TypeInvAlways, ReadyInvAlways, PTL

-----------------------------------------------------------------------------
(* The drain *)

\* An entry a process answers for: kept by a fault, waiting in the reclaimed
\* batch, or under Handle.
Held(p, e) ==
    \/ e \in kept \/ e \in batch[p]
    \/ \E l \in Loops : Working(p, l) /\ job[p][l] = e

\* As long as a process has not failed it answers for every entry it took.
TakenIsHeld ==
    \A p \in Processes, e \in Ids :
        main[p] # "failed" /\ entry[e] = "pending" /\ taker[e] = p => Held(p, e)

\* Only a reclaimer that handles an entry has more of them waiting.
BatchHasHandler ==
    \A p \in Processes : batch[p] # {} => loop[p]["reclaimer"] = "handle"

\* wg.Wait: a process that stopped has returned from every loop.
StoppedIsDone ==
    \A p \in Processes : main[p] = "stopped" => \A l \in Loops : loop[p][l] = "done"

DrainInv == TakenIsHeld /\ BatchHasHandler /\ StoppedIsDone

\* Nothing is taken at the start.
LEMMA DrainInvInit == Init => DrainInv
  BY NobodyIsNoProcess
     DEF Init, DrainInv, TakenIsHeld, BatchHasHandler, StoppedIsDone

\* run() and the platform: a process that dies is failed, one that starts
\* again has a new name and took nothing yet.
LEMMA DrainInvMain ==
    ASSUME TypeInv, ReadyInv, DrainInv, NEW p \in Processes,
           Main(p) \/ Restart(p) \/ BootFails(p) \/ Crash(p) \/ Signal(p) \/ OpsFails(p)
    PROVE  DrainInv'
<1> "reclaimer" \in Loops
  BY DEF Loops
<1>1. CASE Die(p) \/ Restart(p)
  <2>1. /\ \A q \in Processes, l \in Loops : q # p => loop'[q][l] = loop[q][l] /\ job'[q][l] = job[q][l]
        /\ batch'[p] = {}
        /\ \A q \in Processes : q # p => main'[q] = main[q] /\ batch'[q] = batch[q]
        /\ main'[p] # "stopped"
    BY <1>1, GoneIsOff
  <2>2. entry' = entry /\ kept' = kept
    BY <1>1 DEF Die, Restart, stream
  <2>3. main'[p] = "failed" \/ \A e \in Ids : taker'[e] # p
    BY <1>1, GoneIsOff, NobodyIsNoProcess DEF Restart
  <2>4. \A q \in Processes, e \in Ids : q # p /\ taker'[e] = q => taker[e] = q
    BY <1>1, NobodyIsNoProcess DEF Die, Restart, stream
  <2>5. TakenIsHeld'
    <3> SUFFICES ASSUME NEW q \in Processes, NEW e \in Ids, q # p, main[q] # "failed",
                        entry[e] = "pending", taker[e] = q
                 PROVE  Held(q, e)'
      BY <2>1, <2>2, <2>3, <2>4 DEF TakenIsHeld
    <3>1. Held(q, e)
      BY DEF DrainInv, TakenIsHeld
    <3> QED BY <2>1, <2>2, <3>1 DEF Held, Working
  <2> QED BY <2>1, <2>5 DEF DrainInv, BatchHasHandler, StoppedIsDone
<1>2. CASE Launch(p)
  <2>1. /\ main[p] = "launch" /\ main' = [main EXCEPT ![p] = "ready"]
        /\ loop' = [loop EXCEPT ![p] = [l \in Loops |-> "wait"]]
        /\ UNCHANGED <<job, batch, entry, taker, kept>>
    BY <1>2 DEF Launch, stream
  <2>2. \A l \in Loops : loop[p][l] = "off"
    BY <2>1 DEF ReadyInv, BootingIsQuiet
  <2>3. \A q \in Processes, l \in Loops :
            loop'[q][l] = IF q = p THEN "wait" ELSE loop[q][l]
    BY <2>1 DEF TypeInv, ProcessTypeOK
  <2>4. \A q \in Processes : main'[q] = IF q = p THEN "ready" ELSE main[q]
    BY <2>1 DEF TypeInv, ProcessTypeOK
  <2> QED BY <2>1, <2>2, <2>3, <2>4
          DEF DrainInv, TakenIsHeld, BatchHasHandler, StoppedIsDone, Held, Working
<1>3. CASE BootStep(p) \/ BootFails(p) \/ SetReady(p) \/ SelectDone(p) \/ SelectOps(p)
           \/ Stop(p) \/ OpsFails(p) \/ (Signal(p) /\ ~Die(p))
  <2>1. UNCHANGED <<loop, job, batch, entry, taker, kept>>
    BY <1>3 DEF BootStep, BootFails, SetReady, SelectDone, SelectOps, Stop, OpsFails, Signal, stream
  <2>2. \A q \in Processes :
            /\ main'[q] # "failed" => main[q] # "failed"
            /\ main'[q] = "stopped" => main[q] = "stopped" \/ \A l \in Loops : loop[q][l] = "done"
    BY <1>3 DEF BootStep, BootFails, SetReady, SelectDone, SelectOps, Stop, OpsFails, Signal,
                TypeInv, ProcessTypeOK, AfterBoot, Boots
  <2>3. \A q \in Processes, e \in Ids : Held(q, e) => Held(q, e)'
    BY <2>1 DEF Held, Working
  <2>4. TakenIsHeld'
    BY <2>1, <2>2, <2>3 DEF DrainInv, TakenIsHeld
  <2>5. StoppedIsDone'
    BY <2>1, <2>2 DEF DrainInv, StoppedIsDone
  <2> QED BY <2>1, <2>4, <2>5 DEF DrainInv, BatchHasHandler
<1>4. Crash(p) => Die(p)
  BY DEF Crash
<1>5. Main(p) => BootStep(p) \/ Launch(p) \/ SetReady(p) \/ SelectDone(p) \/ SelectOps(p) \/ Stop(p)
  BY DEF Main
<1> QED BY <1>1, <1>2, <1>3, <1>4, <1>5

\* A goroutine: what it drops is acked or kept, what it takes is in its hands.
LEMMA DrainInvLoop ==
    ASSUME TypeInv, DrainInv, NEW p \in Processes, NEW l \in Loops, LoopStep(p, l)
    PROVE  DrainInv'
<1> ProcessTypeOK /\ "reclaimer" \in Loops
  BY DEF TypeInv, Loops
<1>1. /\ main' = main
      /\ loop[p][l] \in {"wait", "call", "handle"}
      /\ \A q \in Processes, k \in Loops : q # p \/ k # l => loop'[q][k] = loop[q][k]
  BY LoopStepMoves
<1>2. StoppedIsDone'
  <2>1. main[p] # "stopped"
    BY <1>1 DEF DrainInv, StoppedIsDone
  <2> QED BY <1>1, <2>1 DEF DrainInv, StoppedIsDone
<1>3. CASE Quit(p, l) \/ Begin(p, l) \/ Nothing(p, l)
  <2>1. UNCHANGED <<job, batch, entry, taker, kept>> /\ loop[p][l] # "handle"
    BY <1>3 DEF Quit, Begin, Nothing, stream
  <2> QED BY <1>1, <1>2, <2>1 DEF DrainInv, TakenIsHeld, BatchHasHandler, Held, Working
<1>4. ASSUME NEW e \in Ids, Deliver(p, l, e) \/ FetchLost(p, l, e) PROVE DrainInv'
  <2>1. /\ l # "reclaimer" /\ loop[p][l] = "call" /\ batch' = batch
        /\ entry' = [entry EXCEPT ![e] = "pending"]
        /\ taker' = [taker EXCEPT ![e] = p]
        /\ kept \subseteq kept'
    BY <1>4, LoopsDistinct DEF Deliver, FetchLost
  <2>2. \A q \in Processes, k \in Loops : q # p \/ k # l => job'[q][k] = job[q][k]
    BY <1>4 DEF Deliver, FetchLost, ProcessTypeOK
  <2>3. Held(p, e)'
    <3>1. CASE Deliver(p, l, e)
      <4>1. loop'[p][l] = "handle"
        BY <3>1, GotoMoves DEF Deliver
      <4>2. job'[p][l] = e
        BY <3>1 DEF Deliver, ProcessTypeOK
      <4> QED BY <4>1, <4>2 DEF Held, Working
    <3>2. CASE FetchLost(p, l, e)
      BY <3>2 DEF FetchLost, Held
    <3> QED BY <1>4, <3>1, <3>2
  <2>4. TakenIsHeld'
    <3> SUFFICES ASSUME NEW q \in Processes, NEW f \in Ids, main[q] # "failed",
                        entry'[f] = "pending", taker'[f] = q
                 PROVE  Held(q, f)'
      BY <1>1 DEF TakenIsHeld
    <3>1. CASE f = e
      BY <2>1, <2>3, <3>1 DEF ProcessTypeOK
    <3>2. CASE f # e
      <4>1. Held(q, f)
        BY <2>1, <3>2 DEF DrainInv, TakenIsHeld, ProcessTypeOK
      <4> QED BY <1>1, <2>1, <2>2, <4>1 DEF Held, Working
    <3> QED BY <3>1, <3>2
  <2>5. BatchHasHandler'
    BY <1>1, <2>1 DEF DrainInv, BatchHasHandler
  <2> QED BY <1>2, <2>4, <2>5 DEF DrainInv
<1>5. ASSUME l = "reclaimer", NEW S \in SUBSET Ids, Claim(p, S) PROVE DrainInv'
  <2>1. PICK e \in S : /\ job' = [job EXCEPT ![p][l] = e]
                       /\ batch' = [batch EXCEPT ![p] = S \ {e}]
    BY <1>5 DEF Claim, Oldest
  <2>2. /\ \A q \in Processes, k \in Loops : q # p \/ k # l => job'[q][k] = job[q][k]
        /\ job'[p][l] = e
        /\ \A q \in Processes : batch'[q] = IF q = p THEN S \ {e} ELSE batch[q]
    BY <2>1 DEF ProcessTypeOK
  <2>3. /\ loop[p][l] = "call" /\ entry' = entry /\ kept' = kept \ S
        /\ taker' = [f \in Ids |-> IF f \in S THEN p ELSE taker[f]]
    BY <1>5 DEF Claim
  <2>4. loop'[p][l] = "handle"
    BY <1>5, GotoMoves DEF Claim
  <2>5. batch[p] = {}
    BY <1>5, <2>3 DEF DrainInv, BatchHasHandler
  <2>6. TakenIsHeld'
    <3> SUFFICES ASSUME NEW q \in Processes, NEW f \in Ids, main[q] # "failed",
                        entry[f] = "pending", taker'[f] = q
                 PROVE  Held(q, f)'
      BY <1>1, <2>3 DEF TakenIsHeld
    <3>1. CASE f \in S
      BY <2>2, <2>3, <2>4, <3>1 DEF Held, Working
    <3>2. CASE f \notin S
      <4>1. Held(q, f)
        BY <2>3, <3>2 DEF DrainInv, TakenIsHeld
      <4> QED BY <1>1, <2>2, <2>3, <2>5, <3>2, <4>1 DEF Held, Working
    <3> QED BY <3>1, <3>2
  <2>7. BatchHasHandler'
    BY <1>1, <1>5, <2>2, <2>4 DEF DrainInv, BatchHasHandler
  <2> QED BY <1>2, <2>6, <2>7 DEF DrainInv
<1>6. CASE Settle(p, l) \/ Reschedule(p, l) \/ Keep(p, l)
  <2> DEFINE e == job[p][l]
  <2>1. Working(p, l) /\ Handled(p, l) /\ taker' = taker
    BY <1>6 DEF Settle, Reschedule, Keep
  <2>2. e \in Ids
    BY <2>1 DEF TypeInv, InStream, ProcessTypeOK, Ids
  <2>3. /\ \A f \in Ids : f # e => entry'[f] = entry[f]
        /\ entry'[e] = "acked" \/ e \in kept'
        /\ kept \subseteq kept'
    BY <1>6, <2>2 DEF Settle, Reschedule, Keep, Ack, ProcessTypeOK
  <2>4. /\ \A q \in Processes, k \in Loops : q # p \/ k # l => job'[q][k] = job[q][k]
        /\ \A q \in Processes : q # p => batch'[q] = batch[q]
        /\ \/ /\ loop'[p][l] = "wait" /\ batch' = batch /\ (l # "reclaimer" \/ batch[p] = {})
           \/ /\ loop' = loop /\ job'[p][l] \in batch[p] /\ l = "reclaimer"
              /\ batch'[p] = batch[p] \ {job'[p][l]}
    BY <2>1, HandledMoves
  <2>5. TakenIsHeld'
    <3> SUFFICES ASSUME NEW q \in Processes, NEW f \in Ids, main[q] # "failed",
                        entry'[f] = "pending", taker[f] = q
                 PROVE  Held(q, f)'
      BY <1>1, <2>1 DEF TakenIsHeld
    <3>1. CASE f = e
      BY <2>3, <3>1 DEF Held
    <3>2. CASE f # e
      <4>1. Held(q, f)
        BY <2>3, <3>2 DEF DrainInv, TakenIsHeld
      <4>2. CASE f \in kept \/ q # p
        BY <1>1, <2>3, <2>4, <4>1, <4>2 DEF Held, Working
      <4>3. CASE q = p /\ f \in batch[p]
        <5>1. CASE f \in batch'[p]
          BY <4>3, <5>1 DEF Held
        <5>2. CASE f \notin batch'[p]
          <6>1. loop' = loop /\ job'[p][l] = f
            BY <2>4, <4>3, <5>2
          <6> QED BY <2>1, <4>3, <6>1 DEF Held, Working
        <5> QED BY <5>1, <5>2
      <4>4. CASE q = p /\ \E k \in Loops : Working(p, k) /\ job[p][k] = f
        BY <1>1, <2>4, <3>2, <4>4 DEF Held, Working
      <4> QED BY <4>1, <4>2, <4>3, <4>4 DEF Held
    <3> QED BY <3>1, <3>2
  <2>6. BatchHasHandler'
    BY <1>1, <2>1, <2>4 DEF DrainInv, BatchHasHandler, Working
  <2> QED BY <1>2, <2>5, <2>6 DEF DrainInv
<1>7. CASE l = "dispatcher" /\ (Remove(p) \/ \E e \in Ids : Publish(p, e))
  <2>1. /\ loop[p][l] = "call" /\ UNCHANGED <<batch, taker, kept>>
        /\ \A e \in Ids : entry'[e] = "pending" => entry[e] = "pending"
    BY <1>7 DEF Remove, Publish, ProcessTypeOK
  <2>2. \A q \in Processes, k \in Loops : q # p \/ k # l => job'[q][k] = job[q][k]
    BY <1>7 DEF Remove, Publish, ProcessTypeOK
  <2>3. TakenIsHeld'
    BY <1>1, <2>1, <2>2 DEF DrainInv, TakenIsHeld, Held, Working
  <2>4. BatchHasHandler'
    BY <1>1, <1>7, <2>1 DEF DrainInv, BatchHasHandler
  <2> QED BY <1>2, <2>3, <2>4 DEF DrainInv
<1>8. ASSUME l = "reclaimer", NEW S \in SUBSET Ids, ClaimLost(p, S) PROVE DrainInv'
  <2>1. /\ loop[p][l] = "call" /\ UNCHANGED <<entry, job, batch>> /\ kept' = kept \cup S
        /\ taker' = [f \in Ids |-> IF f \in S THEN p ELSE taker[f]]
    BY <1>8 DEF ClaimLost
  <2>2. TakenIsHeld'
    <3> SUFFICES ASSUME NEW q \in Processes, NEW f \in Ids, main[q] # "failed",
                        entry[f] = "pending", taker'[f] = q
                 PROVE  Held(q, f)'
      BY <1>1, <2>1 DEF TakenIsHeld
    <3>1. CASE f \in S
      BY <2>1, <3>1 DEF Held
    <3>2. CASE f \notin S
      <4>1. Held(q, f)
        BY <2>1, <3>2 DEF DrainInv, TakenIsHeld
      <4> QED BY <1>1, <2>1, <4>1 DEF Held, Working
    <3> QED BY <3>1, <3>2
  <2>3. BatchHasHandler'
    BY <1>1, <1>8, <2>1 DEF DrainInv, BatchHasHandler
  <2> QED BY <1>2, <2>2, <2>3 DEF DrainInv
<1> QED BY <1>3, <1>4, <1>5, <1>6, <1>7, <1>8 DEF LoopStep, Step

\* Every step keeps what a process has taken in the hands of a loop.
LEMMA DrainInvStep == TypeInv /\ ReadyInv /\ DrainInv /\ [Next]_vars => DrainInv'
<1> SUFFICES ASSUME TypeInv, ReadyInv, DrainInv, [Next]_vars PROVE DrainInv'
  OBVIOUS
<1>1. CASE UNCHANGED vars
  BY <1>1 DEF vars, DrainInv, TakenIsHeld, BatchHasHandler, StoppedIsDone, Held, Working
<1>2. CASE Next
  BY <1>2, NextCases, DrainInvMain, DrainInvLoop DEF Next
<1> QED BY <1>1, <1>2

\* A process that stopped cleanly finished every job and every reclaimed entry:
\* what it took is acked, or left pending by Handle itself or by a lost answer
\* (main.go, FR-017).
THEOREM DrainIsClean == Spec => []DrainLeavesNothing
<1>1. DrainInv => DrainLeavesNothing
  BY DEF DrainInv, TakenIsHeld, BatchHasHandler, StoppedIsDone, Held, Working, DrainLeavesNothing, Loops
<1> QED BY <1>1, TypeInvAlways, ReadyInvAlways, DrainInvInit, DrainInvStep, PTL DEF Spec

-----------------------------------------------------------------------------
(* No request is stranded *)

\* An entry some process will still work on, or a stored retry.
Alive(e) == entry[e] \in {"new", "pending"} \/ e \in scheduled

\* An envelope that was published and is about to be removed has a successor:
\* its request is decided, or a later attempt of it is alive.
PublishedHasSuccessor ==
    \A p \in Processes :
        LET e == job[p]["dispatcher"] IN
        e # 0 => \/ request[e] \in decided
                 \/ \E f \in Ids : request[f] = request[e] /\ attempt[f] > attempt[e] /\ Alive(f)

StrandInv == NothingStranded /\ PublishedHasSuccessor

\* Nothing is stranded at the start.
LEMMA StrandInvInit == Init => StrandInv
<1> SUFFICES ASSUME Init PROVE StrandInv
  OBVIOUS
<1>1. NothingStranded
  BY BoundsType DEF Init, NothingStranded, Ids
<1>2. PublishedHasSuccessor
  BY DEF Init, PublishedHasSuccessor, Idle, Loops
<1> QED BY <1>1, <1>2 DEF StrandInv

\* A step that decides more, keeps every message and loses no live entry whose
\* request it does not decide keeps the invariant.
LEMMA StrandFrame ==
    ASSUME StrandInv, UNCHANGED <<attempt, request>>, decided \subseteq decided',
           \A e \in Ids : Alive(e) => Alive(e)' \/ request[e] \in decided',
           \A p \in Processes : job'[p]["dispatcher"] \in {0, job[p]["dispatcher"]}
    PROVE  StrandInv'
<1>1. NothingStranded'
  BY DEF StrandInv, NothingStranded, Alive
<1>2. PublishedHasSuccessor'
  <2> SUFFICES ASSUME NEW p \in Processes, job'[p]["dispatcher"] # 0
               PROVE  LET e == job'[p]["dispatcher"] IN
                      \/ request[e] \in decided'
                      \/ \E f \in Ids : request[f] = request[e] /\ attempt[f] > attempt[e] /\ Alive(f)'
    BY DEF PublishedHasSuccessor
  <2> DEFINE e == job[p]["dispatcher"]
  <2>1. job'[p]["dispatcher"] = e /\ e # 0
    OBVIOUS
  <2>2. CASE request[e] \in decided
    BY <2>1, <2>2
  <2>3. ASSUME NEW f \in Ids, request[f] = request[e], attempt[f] > attempt[e], Alive(f)
        PROVE  \/ request[e] \in decided'
               \/ \E g \in Ids : request[g] = request[e] /\ attempt[g] > attempt[e] /\ Alive(g)'
    BY <2>3
  <2>4. \/ request[e] \in decided
        \/ \E f \in Ids : request[f] = request[e] /\ attempt[f] > attempt[e] /\ Alive(f)
    BY <2>1 DEF StrandInv, PublishedHasSuccessor
  <2> QED BY <2>1, <2>2, <2>3, <2>4
<1> QED BY <1>1, <1>2 DEF StrandInv

\* An envelope is published as a later attempt before it is removed.
LEMMA StrandPublish ==
    ASSUME TypeInv, StrandInv, NEW p \in Processes, NEW e \in Ids, Publish(p, e)
    PROVE  StrandInv'
<1> ProcessTypeOK /\ "dispatcher" \in Loops
  BY DEF TypeInv, Loops
<1> PICK n \in Ids : n = last + 1
  BY BoundsType DEF Publish, ProcessTypeOK, Ids
<1>1. /\ last' = n /\ n = last + 1 /\ last \in Nat /\ e \in scheduled /\ e \in 1..last
      /\ decided' = decided /\ scheduled' = scheduled
  BY BoundsType DEF Publish, TypeInv, Numbered, ProcessTypeOK, Ids
<1>2. /\ \A f \in Ids : f # n => entry'[f] = entry[f] /\ attempt'[f] = attempt[f] /\ request'[f] = request[f]
      /\ entry'[n] = "new" /\ attempt'[n] = attempt[e] + 1 /\ request'[n] = request[e]
  BY <1>1 DEF Publish, ProcessTypeOK
<1>3. \A f \in Ids : Alive(f) => f # n /\ Alive(f)'
  BY <1>1, <1>2 DEF Alive, TypeInv, Numbered, Ids
<1>4. NothingStranded'
  BY <1>1, <1>2, <1>3 DEF StrandInv, NothingStranded, Alive
<1>5. PublishedHasSuccessor'
  <2> SUFFICES ASSUME NEW q \in Processes, job'[q]["dispatcher"] # 0
               PROVE  LET g == job'[q]["dispatcher"] IN
                      \/ request'[g] \in decided'
                      \/ \E f \in Ids : request'[f] = request'[g] /\ attempt'[f] > attempt'[g] /\ Alive(f)'
    BY DEF PublishedHasSuccessor
  <2> DEFINE g == job'[q]["dispatcher"]
  <2>1. CASE q = p
    <3>1. g = e
      BY <2>1 DEF Publish, ProcessTypeOK
    <3>2. attempt[e] \in Nat /\ e # n
      BY <1>1, BoundsType DEF ProcessTypeOK
    <3>3. Alive(n)'
      BY <1>2 DEF Alive
    <3> QED BY <1>1, <1>2, <3>1, <3>2, <3>3
  <2>2. CASE q # p
    <3>1. g = job[q]["dispatcher"]
      BY <2>2 DEF Publish, ProcessTypeOK
    <3>2. g \in Ids /\ g # n
      BY <1>1, <3>1 DEF TypeInv, InStream, ProcessTypeOK, Ids
    <3>3. \/ request[g] \in decided
          \/ \E f \in Ids : request[f] = request[g] /\ attempt[f] > attempt[g] /\ Alive(f)
      BY <3>1 DEF StrandInv, PublishedHasSuccessor
    <3> QED BY <1>1, <1>2, <1>3, <3>2, <3>3
  <2> QED BY <2>1, <2>2
<1> QED BY <1>4, <1>5 DEF StrandInv

\* The removal takes away an entry that has a successor; what had that entry as
\* its successor has the later one.
LEMMA StrandRemove ==
    ASSUME TypeInv, StrandInv, NEW p \in Processes, Remove(p)
    PROVE  StrandInv'
<1> DEFINE e == job[p]["dispatcher"]
<1> ProcessTypeOK /\ "dispatcher" \in Loops
  BY DEF TypeInv, Loops
<1>1. e \in Ids /\ UNCHANGED <<entry, attempt, request, decided>>
  BY DEF Remove, ProcessTypeOK, Ids
<1>2. scheduled \ {e} \subseteq scheduled'
  BY DEF Remove
<1>3. \A q \in Processes : job'[q]["dispatcher"] \in {0, job[q]["dispatcher"]}
  BY DEF Remove, ProcessTypeOK
<1>4. \A f \in Ids : attempt[f] \in Nat
  BY BoundsType DEF ProcessTypeOK
<1>5. CASE request[e] \in decided
  <2>1. \A f \in Ids : Alive(f) => Alive(f)' \/ request[f] \in decided'
    BY <1>1, <1>2, <1>5 DEF Alive
  <2> QED BY <1>1, <1>3, <2>1, StrandFrame
<1>6. ASSUME NEW f \in Ids, request[f] = request[e], attempt[f] > attempt[e], Alive(f)
      PROVE  StrandInv'
  <2>1. f # e /\ Alive(f)'
    BY <1>1, <1>2, <1>4, <1>6 DEF Alive
  <2>2. \A g \in Ids : Alive(g) => g = e \/ Alive(g)'
    BY <1>1, <1>2 DEF Alive
  <2>3. NothingStranded'
    BY <1>1, <1>6, <2>1, <2>2 DEF StrandInv, NothingStranded, Alive
  <2>4. PublishedHasSuccessor'
    <3> SUFFICES ASSUME NEW q \in Processes, job'[q]["dispatcher"] # 0
                 PROVE  LET g == job'[q]["dispatcher"] IN
                        \/ request[g] \in decided
                        \/ \E h \in Ids : request[h] = request[g] /\ attempt[h] > attempt[g] /\ Alive(h)'
      BY <1>1 DEF PublishedHasSuccessor
    <3> DEFINE g == job[q]["dispatcher"]
    <3>1. job'[q]["dispatcher"] = g /\ g # 0 /\ g \in Ids
      BY <1>3 DEF ProcessTypeOK, Ids
    <3>2. CASE request[g] \in decided
      BY <3>1, <3>2
    <3>3. ASSUME NEW h \in Ids, request[h] = request[g], attempt[h] > attempt[g], Alive(h)
          PROVE  \E k \in Ids : request[k] = request[g] /\ attempt[k] > attempt[g] /\ Alive(k)'
      <4>1. CASE h = e
        BY <1>1, <1>4, <1>6, <2>1, <3>1, <3>3, <4>1
      <4>2. CASE h # e
        BY <2>2, <3>3, <4>2
      <4> QED BY <4>1, <4>2
    <3> QED BY <3>1, <3>2, <3>3 DEF StrandInv, PublishedHasSuccessor
  <2> QED BY <2>3, <2>4 DEF StrandInv
<1> QED BY <1>1, <1>5, <1>6 DEF StrandInv, PublishedHasSuccessor, Remove

\* Every step keeps an unfinished request in the stream, pending or in retry.
LEMMA StrandInvStep == TypeInv /\ StrandInv /\ [Next]_vars => StrandInv'
<1> SUFFICES ASSUME TypeInv, StrandInv, [Next]_vars PROVE StrandInv'
  OBVIOUS
<1> ProcessTypeOK /\ "dispatcher" \in Loops
  BY DEF TypeInv, Loops
<1> USE DEF stream, process
<1>1. CASE UNCHANGED vars
  BY <1>1 DEF vars, StrandInv, NothingStranded, PublishedHasSuccessor, Alive
<1>2. CASE Next
  <2> PICK p \in Processes :
        Main(p) \/ Restart(p) \/ Misfortune(p) \/ \E l \in Loops : Step(p, l)
    BY <1>2 DEF Next
  <2>1. CASE Main(p) \/ Restart(p) \/ BootFails(p) \/ Crash(p) \/ Signal(p) \/ OpsFails(p)
    <3>1. UNCHANGED <<entry, attempt, request, decided, scheduled>>
      BY <2>1 DEF Main, BootStep, Launch, SetReady, SelectDone, SelectOps, Stop, Restart,
                  BootFails, Crash, Signal, OpsFails, Die
    <3>2. job' = job \/ Die(p) \/ Restart(p)
      BY <2>1 DEF Main, BootStep, Launch, SetReady, SelectDone, SelectOps, Stop,
                  BootFails, Crash, Signal, OpsFails
    <3>3. \A q \in Processes : job'[q]["dispatcher"] \in {0, job[q]["dispatcher"]}
      BY <3>2, GoneIsOff
    <3> QED BY <3>1, <3>3, StrandFrame DEF Alive
  <2>2. ASSUME NEW l \in Loops, LoopStep(p, l) PROVE StrandInv'
    <3>1. CASE Quit(p, l) \/ Begin(p, l) \/ Nothing(p, l)
      <4>1. UNCHANGED <<job, entry, attempt, request, decided, scheduled>>
        BY <3>1 DEF Quit, Begin, Nothing
      <4> QED BY <4>1, StrandFrame DEF Alive
    <3>2. ASSUME NEW e \in Ids, Deliver(p, l, e) \/ FetchLost(p, l, e) PROVE StrandInv'
      <4>1. /\ UNCHANGED <<attempt, request, decided, scheduled>> /\ l # "dispatcher"
            /\ entry' = [entry EXCEPT ![e] = "pending"] /\ entry[e] = "new"
        BY <3>2, LoopsDistinct DEF Deliver, FetchLost
      <4>2. \A f \in Ids : Alive(f) => Alive(f)'
        BY <4>1 DEF Alive, ProcessTypeOK
      <4>3. \A q \in Processes : job'[q]["dispatcher"] = job[q]["dispatcher"]
        <5>1. job' = job \/ job' = [job EXCEPT ![p][l] = e]
          BY <3>2 DEF Deliver, FetchLost
        <5>2. e \in 0..MaxEntries
          BY BoundsType DEF Ids
        <5> QED BY <4>1, <5>1, <5>2, JobMoves
      <4> QED BY <4>1, <4>2, <4>3, StrandFrame
    <3>3. ASSUME l = "reclaimer", NEW S \in SUBSET Ids, Claim(p, S) PROVE StrandInv'
      <4>1. UNCHANGED <<entry, attempt, request, decided, scheduled>>
        BY <3>3 DEF Claim
      <4>2. PICK e \in S : job' = [job EXCEPT ![p]["reclaimer"] = e]
        BY <3>3 DEF Claim, Oldest
      <4>3. e \in 0..MaxEntries
        BY BoundsType DEF Ids
      <4>4. \A q \in Processes : job'[q]["dispatcher"] = job[q]["dispatcher"]
        BY <3>3, <4>2, <4>3, JobMoves
      <4> QED BY <4>1, <4>4, StrandFrame DEF Alive
    <3>6. ASSUME NEW S \in SUBSET Ids, ClaimLost(p, S) PROVE StrandInv'
      <4>1. UNCHANGED <<job, entry, attempt, request, decided, scheduled>>
        BY <3>6 DEF ClaimLost
      <4> QED BY <4>1, StrandFrame DEF Alive
    <3>4. CASE Settle(p, l) \/ Reschedule(p, l) \/ Keep(p, l)
      <4> DEFINE e == job[p][l]
      <4>1. Working(p, l) /\ Handled(p, l) /\ UNCHANGED <<attempt, request>>
        BY <3>4 DEF Settle, Reschedule, Keep
      <4>2. e \in Ids
        BY <4>1 DEF TypeInv, InStream, ProcessTypeOK, Ids
      <4>3. /\ decided \subseteq decided' /\ scheduled \subseteq scheduled'
            /\ \A f \in Ids : f # e => entry'[f] = entry[f]
            /\ entry'[e] = entry[e] \/ request[e] \in decided' \/ e \in scheduled'
        BY <3>4, <4>2 DEF Settle, Reschedule, Keep, Ack, ProcessTypeOK
      <4>4. \A f \in Ids : Alive(f) => Alive(f)' \/ request[f] \in decided'
        BY <4>1, <4>3 DEF Alive
      <4>5. \A q \in Processes, k \in Loops : q # p \/ k # l => job'[q][k] = job[q][k]
        BY <4>1, HandledMoves
      <4>6. job'[p][l] = 0 \/ l = "reclaimer"
        BY <4>1, HandledMoves
      <4>7. \A q \in Processes : job'[q]["dispatcher"] \in {0, job[q]["dispatcher"]}
        BY <4>5, <4>6
      <4> QED BY <4>1, <4>3, <4>4, <4>7, StrandFrame
    <3>5. CASE l = "dispatcher" /\ (Remove(p) \/ \E e \in Ids : Publish(p, e))
      BY <3>5, StrandPublish, StrandRemove
    <3> QED BY <2>2, <3>1, <3>2, <3>3, <3>4, <3>5, <3>6 DEF LoopStep, Step
  <2> QED BY <2>1, <2>2, NextCases
<1> QED BY <1>1, <1>2

\* Whatever is signalled, killed or restarted, an undecided request has an
\* entry that is not acked or a stored retry: the dispatcher removes an envelope
\* after it published it (dispatcher.go Tick), and Handle acks after it stored
\* the retry.
THEOREM NoRequestStranded == Spec => []NothingStranded
<1>1. StrandInv => NothingStranded
  BY DEF StrandInv
<1> QED BY <1>1, TypeInvAlways, StrandInvInit, StrandInvStep, PTL DEF Spec
=============================================================================
