--------------------------- MODULE ExecutorProofs ---------------------------
(***************************************************************************)
(* Theorems about MultiprocExecutor, for any number of workers and calls:  *)
(* a call gets its own replies.                                            *)
(*                                                                         *)
(* A reply says nothing of the call it answers; it is the right one        *)
(* because the calls a worker owes an answer pass through its queues in    *)
(* the order they were made, and the engine reads them in that order.  A   *)
(* deadline that passes leaves a reply behind and is excluded; a failed    *)
(* client call leaves replies behind in every queue but the first, so the  *)
(* ranks followed are the first one, and all where nothing raises.         *)
(***************************************************************************)
EXTENDS MultiprocExecutor, TLAPS

\* An engine with its workers, none of whose deadlines passes.
Deployed ==
  /\ NumWorkers \in Nat \ {0} /\ OutputRank \in Ranks
  /\ MaxCalls \in Nat /\ MaxFails \in Nat
  /\ AsyncOutput \in BOOLEAN /\ Timeouts = FALSE

Mqs(c) == ResponseMqs(call[c].kind)
Followed == {w \in Ranks : w = 1 \/ MaxFails = 0}
Reply == [call : Calls, ok : BOOLEAN]

\* The calls whose reply from w the engine has yet to read.
Owed(w) ==
  {c \in Calls : /\ outcome[c] = "pending" /\ Asked(w, c)
                 /\ c = futures[1] => \E i \in 1..Len(left) : left[i] = w}

ExecTypes ==
  /\ n \in 0..MaxCalls
  /\ call \in [Calls -> [kind : {"none", "step", "utility"}, timed : BOOLEAN]]
  /\ outcome \in [Calls -> {"none", "pending", "ok", "worker_failed", "cancelled", "executor_failed"}]
  /\ results \in [Calls -> Seq(Calls)]
  /\ futures \in Seq(Calls) /\ goal \in Calls \cup {0} /\ batch_queue \in Seq(Calls)
  /\ left \in Seq(Ranks)
  /\ rpc_broadcast_mq \in [Ranks -> Seq(Calls)]
  /\ busy \in [Ranks -> Calls \cup {0}]
  /\ async_queue \in [Ranks -> Seq(Reply)]
  /\ response_mq \in [Ranks -> Seq(Reply)]
  /\ alive \in [Ranks -> BOOLEAN] /\ output_thread \in [Ranks -> BOOLEAN]
  /\ monitor \in {"watching", "failed", "terminated", "done"}
  /\ fails \in 0..MaxFails

\* The calls in a queue of calls, and those answered in a queue of replies.
Queued(q) == {q[i] : i \in 1..Len(q)}
Answered(q) == {q[i].call : i \in 1..Len(q)}
RisingCalls(q) == \A i, j \in 1..Len(q) : i < j => q[i] < q[j]
RisingReplies(q) == \A i, j \in 1..Len(q) : i < j => q[i].call < q[j].call

\* The calls worker w has in its hands, in the places they pass through.
Replied(w) == Answered(response_mq[w])
Waits(w) == Answered(async_queue[w])
Runs(w) == {busy[w]} \ {0}
Sent(w) == Queued(rpc_broadcast_mq[w])

\* Terminate spares nobody, and nothing is queued that was not called.
ExecOrder ==
  /\ monitor \in {"terminated", "done"} => \A w \in Ranks : ~alive[w]
  /\ \A w \in Ranks : output_thread[w] => AsyncOutput
  /\ \A c \in Calls : c > n => outcome[c] = "none"
  /\ \A w \in Ranks : \A x \in Replied(w) \cup Waits(w) \cup Runs(w) \cup Sent(w) : x <= n

\* The futures are the pending calls in the order they were made.
FuturesSound ==
  /\ \A i, j \in 1..Len(futures) : i < j => futures[i] < futures[j]
  /\ \A i \in 1..Len(futures) : outcome[futures[i]] = "pending"
  /\ \A c \in Calls : outcome[c] = "pending" => \E i \in 1..Len(futures) : futures[i] = c
  /\ \A c \in Calls : outcome[c] = "pending" /\ call[c].kind # "step" => goal = c /\ c = n

\* left is what the head of the futures has yet to read, results what it has read.
ReadSoFar ==
  /\ \A c \in Calls :
       outcome[c] \in {"none", "pending"} /\ (futures = <<>> \/ c # futures[1]) => results[c] = <<>>
  /\ futures # <<>> =>
       /\ left # <<>> /\ Len(results[futures[1]]) + Len(left) = Len(Mqs(futures[1]))
       /\ \A i \in 1..Len(left) : left[i] = Mqs(futures[1])[Len(results[futures[1]]) + i]
  /\ \A c \in Calls : outcome[c] = "ok" => Len(results[c]) = Len(Mqs(c))
  /\ \A c \in Calls : outcome[c] \in {"pending", "ok"} =>
       \A i \in 1..Len(results[c]) : Mqs(c)[i] \in Followed => results[c][i] = c

\* Only a method that raises makes a reply that is not ok.
Fine(q) == \A i \in 1..Len(q) : q[i].ok \/ MaxFails # 0
Raised == \A w \in Ranks : Fine(async_queue[w]) /\ Fine(response_mq[w])

\* The replies in a response queue are the oldest ones owed, in order.
Oldest(w) ==
  /\ RisingReplies(response_mq[w])
  /\ monitor # "done" \/ futures # <<>> =>
       /\ Replied(w) \subseteq Owed(w)
       /\ \A x \in Replied(w), c \in Owed(w) : c < x => c \in Replied(w)

\* The calls on their way through worker w, older ones further on.
Before(S, T) == \A x \in S, y \in T : x < y
InOrder(w) ==
  /\ RisingReplies(async_queue[w]) /\ RisingCalls(rpc_broadcast_mq[w])
  /\ Before(Replied(w), Waits(w)) /\ Before(Replied(w), Runs(w)) /\ Before(Replied(w), Sent(w))
  /\ Before(Waits(w), Runs(w)) /\ Before(Waits(w), Sent(w)) /\ Before(Runs(w), Sent(w))

\* Worker w has in its hands exactly what it owes.
OnTheWay(w) ==
  /\ Waits(w) \subseteq Owed(w)
  /\ \A c \in Runs(w) \cup Sent(w) : Asked(w, c) => c \in Owed(w)
  /\ Owed(w) \subseteq Replied(w) \cup Waits(w) \cup Runs(w) \cup Sent(w)
  /\ ~AsyncOutput => async_queue[w] = <<>>

Works(w) == alive[w] /\ output_thread[w] = AsyncOutput

ExecInv ==
  /\ ExecTypes /\ ExecOrder /\ FuturesSound /\ ReadSoFar /\ Raised
  /\ \A w \in Followed : Oldest(w) /\ (Works(w) => InOrder(w) /\ OnTheWay(w))

\* The calls are numbered from 1.
LEMMA CallNumbers == ASSUME Deployed PROVE Calls = 1..MaxCalls /\ Calls \subseteq Nat \ {0} /\ MaxCalls \in Nat
<1>1. MaxCalls \in Nat
  BY Zenon DEF Deployed
<1>2. QED
  BY <1>1 DEF Calls

\* What Append does to a queue of calls.
LEMMA CallsAppend ==
  ASSUME NEW q \in Seq(Calls), NEW x \in Calls, Calls \subseteq Nat
  PROVE  /\ Append(q, x) \in Seq(Calls) /\ Queued(Append(q, x)) = Queued(q) \cup {x}
         /\ RisingCalls(q) /\ (\A y \in Queued(q) : y < x) => RisingCalls(Append(q, x))
<1>1. /\ Append(q, x) \in Seq(Calls) /\ Len(Append(q, x)) = Len(q) + 1
      /\ \A i \in 1..Len(q) : Append(q, x)[i] = q[i] /\ q[i] \in Calls
      /\ Append(q, x)[Len(q) + 1] = x /\ Len(q) \in Nat
  OBVIOUS
<1>. DEFINE p == Append(q, x)
<1>. HIDE DEF p
<1>2. /\ Len(p) = Len(q) + 1 /\ \A i \in 1..Len(q) : p[i] = q[i]
      /\ p[Len(q) + 1] = x /\ Len(q) \in Nat
  BY <1>1, Zenon DEF p
<1>3. Queued(p) = Queued(q) \cup {x}
  BY <1>2 DEF Queued
<1>4. RisingCalls(q) /\ (\A y \in Queued(q) : y < x) => RisingCalls(p)
  BY <1>1, <1>2 DEF Queued, RisingCalls
<1>5. QED
  BY <1>1, <1>3, <1>4, Zenon DEF p

\* What Tail does to a queue of calls: the head was the oldest.
LEMMA CallsTail ==
  ASSUME NEW q \in Seq(Calls), Calls \subseteq Nat, q # <<>>
  PROVE  /\ Tail(q) \in Seq(Calls) /\ Head(q) \in Calls
         /\ Queued(q) = {Head(q)} \cup Queued(Tail(q))
         /\ RisingCalls(q) => RisingCalls(Tail(q)) /\ \A y \in Queued(Tail(q)) : Head(q) < y
<1>1. /\ Tail(q) \in Seq(Calls) /\ Len(Tail(q)) = Len(q) - 1
      /\ \A i \in 1..(Len(q) - 1) : Tail(q)[i] = q[i + 1]
      /\ \A i \in 1..Len(q) : q[i] \in Calls
      /\ Head(q) = q[1] /\ Len(q) \in Nat /\ Len(q) >= 1
  OBVIOUS
<1>. DEFINE p == Tail(q)
<1>. HIDE DEF p
<1>2. Len(p) = Len(q) - 1 /\ \A i \in 1..(Len(q) - 1) : p[i] = q[i + 1]
  BY <1>1, Zenon DEF p
<1>3. \A i \in 1..Len(q) : i = 1 \/ (i - 1 \in 1..Len(p) /\ p[i - 1] = q[i])
  BY <1>1, <1>2
<1>4. Queued(q) = {q[1]} \cup Queued(p)
  BY <1>1, <1>2, <1>3 DEF Queued
<1>5. ASSUME RisingCalls(q) PROVE RisingCalls(p) /\ \A y \in Queued(p) : q[1] < y
  BY <1>1, <1>2, <1>5 DEF RisingCalls, Queued
<1>6. QED
  BY <1>1, <1>4, <1>5 DEF p

\* What Append does to a queue of replies.
LEMMA RepliesAppend ==
  ASSUME NEW q \in Seq(Reply), NEW r \in Reply, Calls \subseteq Nat
  PROVE  /\ Append(q, r) \in Seq(Reply) /\ Answered(Append(q, r)) = Answered(q) \cup {r.call}
         /\ RisingReplies(q) /\ (\A y \in Answered(q) : y < r.call) => RisingReplies(Append(q, r))
         /\ Fine(q) /\ (r.ok \/ MaxFails # 0) => Fine(Append(q, r))
<1>1. /\ Append(q, r) \in Seq(Reply) /\ Len(Append(q, r)) = Len(q) + 1
      /\ \A i \in 1..Len(q) : Append(q, r)[i] = q[i] /\ q[i] \in Reply
      /\ Append(q, r)[Len(q) + 1] = r /\ Len(q) \in Nat
  OBVIOUS
<1>. DEFINE p == Append(q, r)
<1>. HIDE DEF p
<1>2. /\ Len(p) = Len(q) + 1 /\ \A i \in 1..Len(q) : p[i] = q[i]
      /\ p[Len(q) + 1] = r /\ Len(q) \in Nat
  BY <1>1, Zenon DEF p
<1>3. r.call \in Nat /\ \A i \in 1..Len(q) : q[i].call \in Nat
  BY <1>1, Zenon DEF Reply
<1>4. Answered(p) = Answered(q) \cup {r.call}
  BY <1>2 DEF Answered
<1>5. RisingReplies(q) /\ (\A y \in Answered(q) : y < r.call) => RisingReplies(p)
  BY <1>2, <1>3 DEF Answered, RisingReplies
<1>6. Fine(q) /\ (r.ok \/ MaxFails # 0) => Fine(p)
  BY <1>2 DEF Fine
<1>7. QED
  BY <1>1, <1>4, <1>5, <1>6, Zenon DEF p

\* What Tail does to a queue of replies.
LEMMA RepliesTail ==
  ASSUME NEW q \in Seq(Reply), Calls \subseteq Nat, q # <<>>
  PROVE  /\ Tail(q) \in Seq(Reply) /\ Head(q) \in Reply /\ Head(q).call \in Calls
         /\ Answered(q) = {Head(q).call} \cup Answered(Tail(q))
         /\ RisingReplies(q) => /\ RisingReplies(Tail(q))
                                /\ \A y \in Answered(Tail(q)) : Head(q).call < y
         /\ Fine(q) => Fine(Tail(q)) /\ (Head(q).ok \/ MaxFails # 0)
<1>1. /\ Tail(q) \in Seq(Reply) /\ Len(Tail(q)) = Len(q) - 1
      /\ \A i \in 1..(Len(q) - 1) : Tail(q)[i] = q[i + 1]
      /\ \A i \in 1..Len(q) : q[i] \in Reply
      /\ Head(q) = q[1] /\ Len(q) \in Nat /\ Len(q) >= 1
  OBVIOUS
<1>. DEFINE p == Tail(q)
<1>. HIDE DEF p
<1>2. Len(p) = Len(q) - 1 /\ \A i \in 1..(Len(q) - 1) : p[i] = q[i + 1]
  BY <1>1, Zenon DEF p
<1>3. \A i \in 1..Len(q) : i = 1 \/ (i - 1 \in 1..Len(p) /\ p[i - 1] = q[i])
  BY <1>1, <1>2
<1>4. q[1].call \in Calls /\ \A i \in 1..Len(q) : q[i].call \in Nat
  <2>1. \A r \in Reply : r.call \in Calls
    BY Zenon DEF Reply
  <2>2. q[1] \in Reply
    BY <1>1
  <2>3. QED
    BY <1>1, <2>1, <2>2, Zenon
<1>5. Answered(q) = {q[1].call} \cup Answered(p)
  BY <1>1, <1>2, <1>3 DEF Answered
<1>6. ASSUME RisingReplies(q) PROVE RisingReplies(p) /\ \A y \in Answered(p) : q[1].call < y
  BY <1>1, <1>2, <1>4, <1>6 DEF RisingReplies, Answered
<1>7. Fine(q) => Fine(p) /\ (q[1].ok \/ MaxFails # 0)
  BY <1>1, <1>2 DEF Fine
<1>8. QED
  BY <1>1, <1>4, <1>5, <1>6, <1>7 DEF p

\* The queues a call reads are those of the ranks it asks, each once, the first rank's first.
LEMMA MqsRead ==
  ASSUME Deployed, NEW k
  PROVE  /\ ResponseMqs(k) \in Seq(Ranks) /\ Len(ResponseMqs(k)) >= 1
         /\ \A i, j \in 1..Len(ResponseMqs(k)) :
              ResponseMqs(k)[i] = ResponseMqs(k)[j] => i = j
         /\ \A i \in 1..Len(ResponseMqs(k)) : ResponseMqs(k)[i] = 1 => i = 1
         /\ \A w \in Ranks : (k = "step" => w = OutputRank) <=>
              \E i \in 1..Len(ResponseMqs(k)) : ResponseMqs(k)[i] = w
<1>1. CASE k = "step"
  <2>. DEFINE m == ResponseMqs(k)
  <2>1. m = <<OutputRank>> /\ OutputRank \in Ranks
    BY <1>1, Zenon DEF ResponseMqs, Deployed
  <2>. HIDE DEF m
  <2>2. m \in Seq(Ranks) /\ Len(m) = 1 /\ m[1] = OutputRank /\ OutputRank \in Ranks
    BY <2>1
  <2>3. /\ m \in Seq(Ranks) /\ Len(m) >= 1
        /\ \A i, j \in 1..Len(m) : m[i] = m[j] => i = j
        /\ \A i \in 1..Len(m) : m[i] = 1 => i = 1
        /\ \A w \in Ranks : w = OutputRank <=> \E i \in 1..Len(m) : m[i] = w
    BY <2>2
  <2>4. QED
    BY <1>1, <2>3, Zenon DEF m
<1>2. CASE k # "step"
  <2>1. ResponseMqs(k) = [w \in 1..NumWorkers |-> w]
    BY <1>2, Zenon DEF ResponseMqs, Ranks
  <2>2. NumWorkers \in Nat /\ NumWorkers >= 1
    BY DEF Deployed
  <2>3. [w \in 1..NumWorkers |-> w] \in Seq(1..NumWorkers) /\ Len([w \in 1..NumWorkers |-> w]) = NumWorkers
    BY <2>2
  <2>4. QED
    BY <1>2, <2>1, <2>2, <2>3, Zenon DEF Ranks
<1>3. QED
  BY <1>1, <1>2, Zenon

\* The types of the engine's state.
LEMMA EngineTypes ==
  ASSUME Deployed, ExecTypes
  PROVE  /\ n \in Nat /\ n <= MaxCalls /\ goal \in Calls \cup {0} /\ batch_queue \in Seq(Calls)
         /\ futures \in Seq(Calls) /\ Len(futures) \in Nat
         /\ \A i \in 1..Len(futures) : futures[i] \in Calls
         /\ futures # <<>> => Len(futures) >= 1 /\ futures[1] \in Calls
         /\ left \in Seq(Ranks) /\ Len(left) \in Nat /\ (left # <<>> => Len(left) >= 1 /\ left[1] \in Ranks)
         /\ \A c \in Calls : results[c] \in Seq(Calls) /\ Len(results[c]) \in Nat
<1>1. n \in 0..MaxCalls /\ goal \in Calls \cup {0} /\ batch_queue \in Seq(Calls)
  BY Zenon DEF ExecTypes
<1>2. futures \in Seq(Calls) /\ left \in Seq(Ranks) /\ \A c \in Calls : results[c] \in Seq(Calls)
  BY Zenon DEF ExecTypes
<1>3. n \in Nat /\ n <= MaxCalls
  BY <1>1, CallNumbers
<1>4. /\ Len(futures) \in Nat /\ \A i \in 1..Len(futures) : futures[i] \in Calls
      /\ futures # <<>> => Len(futures) >= 1 /\ futures[1] \in Calls
  BY <1>2
<1>5. Len(left) \in Nat /\ (left # <<>> => Len(left) >= 1 /\ left[1] \in Ranks)
  BY <1>2
<1>6. \A c \in Calls : Len(results[c]) \in Nat
  BY <1>2
<1>7. QED
  BY <1>1, <1>2, <1>3, <1>4, <1>5, <1>6, Zenon

\* What is in a worker's hands are calls.
LEMMA QueuedCalls ==
  ASSUME Deployed, ExecTypes, NEW w \in Ranks
  PROVE  Replied(w) \cup Waits(w) \cup Runs(w) \cup Sent(w) \subseteq Calls
<1>1. /\ rpc_broadcast_mq[w] \in Seq(Calls) /\ busy[w] \in Calls \cup {0}
      /\ async_queue[w] \in Seq(Reply) /\ response_mq[w] \in Seq(Reply)
  BY Zenon DEF ExecTypes
<1>2. ASSUME NEW q \in Seq(Reply) PROVE Answered(q) \subseteq Calls
  <2>1. \A i \in 1..Len(q) : q[i] \in Reply
    OBVIOUS
  <2>2. QED
    BY <2>1, Zenon DEF Answered, Reply
<1>3. Queued(rpc_broadcast_mq[w]) \subseteq Calls
  BY <1>1 DEF Queued
<1>4. QED
  BY <1>1, <1>2, <1>3, Zenon DEF Replied, Waits, Runs, Sent

\* Nothing is called yet.
LEMMA ExecInit == ASSUME Deployed, Init PROVE ExecInv
<1>1. ExecTypes
  BY DEF Deployed, Init, ExecTypes, Idle
<1>2. \A w \in Ranks : /\ Replied(w) = {} /\ Waits(w) = {} /\ Runs(w) = {} /\ Sent(w) = {}
                       /\ response_mq[w] = <<>> /\ async_queue[w] = <<>> /\ rpc_broadcast_mq[w] = <<>>
  BY DEF Init, Replied, Waits, Runs, Sent, Answered, Queued, Idle
<1>3. ExecOrder /\ FuturesSound /\ ReadSoFar /\ Raised
  <2>1. ExecOrder
    BY <1>2, Zenon DEF Init, ExecOrder
  <2>2. FuturesSound /\ ReadSoFar
    BY DEF Init, FuturesSound, ReadSoFar
  <2>3. Raised
    BY <1>2 DEF Raised, Fine
  <2>4. QED
    BY <2>1, <2>2, <2>3, Zenon
<1>4. ASSUME NEW w \in Followed PROVE Oldest(w) /\ InOrder(w) /\ OnTheWay(w)
  <2>1. w \in Ranks /\ Owed(w) = {}
    BY Zenon DEF Owed, Init, Followed
  <2>2. QED
    BY <1>2, <2>1 DEF Oldest, InOrder, OnTheWay, Before, RisingCalls, RisingReplies
<1>5. QED
  BY <1>1, <1>3, <1>4, Zenon DEF ExecInv

\* A worker's step leaves the engine's books, and what is owed, as they are.
LEMMA WorkerFrame ==
  ASSUME ExecInv, UNCHANGED engine
  PROVE  /\ \A w : Owed(w)' = Owed(w) /\ \A c : Asked(w, c)' = Asked(w, c)
         /\ FuturesSound' /\ ReadSoFar'
<1>1. \A w : Owed(w)' = Owed(w) /\ \A c : Asked(w, c)' = Asked(w, c)
  BY Zenon DEF Owed, engine, Asked
<1>2. FuturesSound' /\ ReadSoFar'
  BY Zenon DEF ExecInv, FuturesSound, ReadSoFar, engine, Mqs, ResponseMqs
<1>3. QED
  BY <1>1, <1>2, Zenon

\* A step that does not touch the queues of w.
LEMMA RankFrame ==
  ASSUME NEW w, Oldest(w) /\ (Works(w) => InOrder(w) /\ OnTheWay(w)),
         Owed(w)' = Owed(w), \A c : Asked(w, c)' = Asked(w, c),
         response_mq'[w] = response_mq[w], async_queue'[w] = async_queue[w],
         busy'[w] = busy[w], rpc_broadcast_mq'[w] = rpc_broadcast_mq[w],
         monitor' # "done" \/ futures' # <<>> => monitor # "done" \/ futures # <<>>,
         Works(w)' => Works(w)
  PROVE  Oldest(w)' /\ (Works(w)' => InOrder(w)' /\ OnTheWay(w)')
<1>1. Replied(w)' = Replied(w) /\ Waits(w)' = Waits(w) /\ Runs(w)' = Runs(w) /\ Sent(w)' = Sent(w)
  BY Zenon DEF Replied, Waits, Runs, Sent
<1>2. Oldest(w)'
  BY <1>1, Zenon DEF Oldest
<1>3. ASSUME InOrder(w), OnTheWay(w) PROVE InOrder(w)' /\ OnTheWay(w)'
  BY <1>1, <1>3, Zenon DEF InOrder, OnTheWay
<1>4. QED
  BY <1>2, <1>3, Zenon

\* A worker takes the oldest call of its queue.
LEMMA TakeInv == ASSUME Deployed, ExecInv, NEW v \in Ranks, Take(v) PROVE ExecInv'
<1>. DEFINE q == rpc_broadcast_mq[v]
<1>1. /\ UNCHANGED engine /\ q # <<>>
      /\ busy[v] = 0 /\ busy' = [busy EXCEPT ![v] = Head(q)]
      /\ rpc_broadcast_mq' = [rpc_broadcast_mq EXCEPT ![v] = Tail(q)]
      /\ async_queue' = async_queue /\ response_mq' = response_mq /\ output_thread' = output_thread
      /\ fails' = fails /\ alive' = alive /\ monitor' = monitor
  BY Zenon DEF Take, Idle
<1>2. /\ \A w : Owed(w)' = Owed(w) /\ \A c : Asked(w, c)' = Asked(w, c)
      /\ FuturesSound' /\ ReadSoFar'
  BY <1>1, WorkerFrame, Zenon
<1>3. q \in Seq(Calls) /\ Calls \subseteq Nat \ {0}
  BY CallNumbers, Zenon DEF ExecInv, ExecTypes
<1>4. Tail(q) \in Seq(Calls) /\ Head(q) \in Calls /\ Queued(q) = {Head(q)} \cup Queued(Tail(q))
  BY <1>1, <1>3, CallsTail, Zenon
<1>5. /\ rpc_broadcast_mq'[v] = Tail(q) /\ busy'[v] = Head(q)
      /\ \A w \in Ranks \ {v} : rpc_broadcast_mq'[w] = rpc_broadcast_mq[w] /\ busy'[w] = busy[w]
  BY <1>1, Zenon DEF ExecInv, ExecTypes
<1>6. /\ Runs(v) = {} /\ Runs(v)' = {Head(q)} /\ Sent(v) = {Head(q)} \cup Sent(v)'
      /\ Replied(v)' = Replied(v) /\ Waits(v)' = Waits(v)
  BY <1>1, <1>3, <1>4, <1>5, Zenon DEF Runs, Sent, Replied, Waits
<1>7. ExecTypes'
  BY <1>1, <1>3, <1>4, Zenon DEF ExecInv, ExecTypes, engine
<1>8. ExecOrder' /\ Raised'
  <2>1. \A w \in Ranks \ {v} : /\ Runs(w)' = Runs(w) /\ Sent(w)' = Sent(w)
                               /\ Replied(w)' = Replied(w) /\ Waits(w)' = Waits(w)
    BY <1>1, <1>5, Zenon DEF Runs, Sent, Replied, Waits
  <2>2. QED
    BY <1>1, <1>6, <2>1, Zenon DEF ExecInv, ExecOrder, Raised, engine
<1>9. ASSUME NEW w \in Followed PROVE Oldest(w)' /\ (Works(w)' => InOrder(w)' /\ OnTheWay(w)')
  <2>1. Works(w)' = Works(w) /\ w \in Ranks /\ futures' = futures
    BY <1>1, Zenon DEF Works, Followed, engine
  <2>2. Oldest(w) /\ (Works(w) => InOrder(w) /\ OnTheWay(w))
    BY Zenon DEF ExecInv
  <2>3. CASE w # v
    BY <1>1, <1>2, <1>5, <2>1, <2>2, <2>3, RankFrame, Zenon
  <2>4. CASE w = v
    <3>1. Oldest(v)'
      BY <1>1, <1>2, <1>6, <2>1, <2>2, <2>4, Zenon DEF Oldest
    <3>2. ASSUME InOrder(v) PROVE InOrder(v)'
      <4>1. RisingCalls(Tail(q)) /\ \A y \in Queued(Tail(q)) : Head(q) < y
        BY <1>1, <1>3, <3>2, CallsTail, Zenon DEF InOrder
      <4>2. QED
        BY <1>1, <1>5, <1>6, <3>2, <4>1, Zenon DEF InOrder, Before, Sent
    <3>3. ASSUME OnTheWay(v) PROVE OnTheWay(v)'
      BY <1>1, <1>2, <1>6, <3>3, Zenon DEF OnTheWay
    <3>4. QED
      BY <2>1, <2>2, <2>4, <3>1, <3>2, <3>3, Zenon
  <2>5. QED
    BY <2>3, <2>4, Zenon
<1>10. QED
  BY <1>2, <1>7, <1>8, <1>9, Zenon DEF ExecInv, Followed

\* A method returns or raises; the reply goes on if the call asked for it.
LEMMA RunInv ==
  ASSUME Deployed, ExecInv, NEW v \in Ranks, NEW ok \in BOOLEAN, Run(v, ok)
  PROVE  ExecInv'
<1>. DEFINE b == busy[v]
            r == [call |-> b, ok |-> ok]
<1>1. /\ UNCHANGED engine /\ alive[v] /\ b # 0 /\ (ok \/ fails < MaxFails)
      /\ fails' = IF ok THEN fails ELSE fails + 1
      /\ busy' = [busy EXCEPT ![v] = 0]
      /\ rpc_broadcast_mq' = rpc_broadcast_mq /\ output_thread' = output_thread
      /\ alive' = alive /\ monitor' = monitor
  BY Zenon DEF Run, Idle
<1>2. /\ \A w : Owed(w)' = Owed(w) /\ \A c : Asked(w, c)' = Asked(w, c)
      /\ FuturesSound' /\ ReadSoFar'
  BY <1>1, WorkerFrame, Zenon
<1>3. b \in Calls /\ r \in Reply /\ r.call = b /\ r.ok = ok /\ Calls \subseteq Nat \ {0}
  BY <1>1, CallNumbers, Zenon DEF ExecInv, ExecTypes, Reply
<1>. HIDE DEF r
<1>4. /\ busy'[v] = 0 /\ \A w \in Ranks \ {v} : busy'[w] = busy[w]
      /\ Runs(v) = {b} /\ Runs(v)' = {} /\ Sent(v)' = Sent(v)
  BY <1>1, <1>3, Zenon DEF ExecInv, ExecTypes, Runs, Sent
<1>5. \/ /\ ~Asked(v, b) /\ async_queue' = async_queue /\ response_mq' = response_mq
      \/ /\ Asked(v, b) /\ AsyncOutput /\ response_mq' = response_mq
         /\ async_queue' = [async_queue EXCEPT ![v] = Append(async_queue[v], r)]
      \/ /\ Asked(v, b) /\ ~AsyncOutput /\ async_queue' = async_queue
         /\ response_mq' = [response_mq EXCEPT ![v] = Append(response_mq[v], r)]
  BY Zenon DEF Run, r
<1>6. /\ async_queue[v] \in Seq(Reply) /\ response_mq[v] \in Seq(Reply)
      /\ Append(async_queue[v], r) \in Seq(Reply) /\ Append(response_mq[v], r) \in Seq(Reply)
  BY <1>3, RepliesAppend, Zenon DEF ExecInv, ExecTypes
<1>7. ExecTypes'
  <2>1. fails' \in 0..MaxFails
    <3>1. MaxFails \in Nat /\ fails \in 0..MaxFails
      BY Zenon DEF ExecInv, ExecTypes, Deployed
    <3>2. QED
      BY <1>1, <3>1
  <2>2. async_queue' \in [Ranks -> Seq(Reply)] /\ response_mq' \in [Ranks -> Seq(Reply)]
    BY <1>5, <1>6, ZenonT(30) DEF ExecInv, ExecTypes
  <2>3. QED
    BY <1>1, <2>1, <2>2, Zenon DEF ExecInv, ExecTypes, engine
<1>8. \A w \in Ranks \ {v} : async_queue'[w] = async_queue[w] /\ response_mq'[w] = response_mq[w]
  BY <1>5, Zenon DEF ExecInv, ExecTypes
<1>9. \/ ~Asked(v, b) /\ async_queue'[v] = async_queue[v] /\ response_mq'[v] = response_mq[v]
      \/ /\ Asked(v, b) /\ AsyncOutput /\ response_mq'[v] = response_mq[v]
         /\ async_queue'[v] = Append(async_queue[v], r)
      \/ /\ Asked(v, b) /\ ~AsyncOutput /\ async_queue'[v] = async_queue[v]
         /\ response_mq'[v] = Append(response_mq[v], r)
  BY <1>5, Zenon DEF ExecInv, ExecTypes
<1>10. /\ Answered(Append(async_queue[v], r)) = Waits(v) \cup {b}
       /\ Answered(Append(response_mq[v], r)) = Replied(v) \cup {b}
  BY <1>3, <1>6, RepliesAppend, Zenon DEF Waits, Replied
<1>11. ExecOrder'
  <2>1. \A w \in Ranks \ {v} : /\ Runs(w)' = Runs(w) /\ Sent(w)' = Sent(w)
                               /\ Replied(w)' = Replied(w) /\ Waits(w)' = Waits(w)
    BY <1>1, <1>4, <1>8, Zenon DEF Runs, Sent, Replied, Waits
  <2>2. Replied(v)' \cup Waits(v)' \subseteq Replied(v) \cup Waits(v) \cup {b}
    BY <1>9, <1>10, Zenon DEF Replied, Waits
  <2>3. QED
    BY <1>1, <1>4, <2>1, <2>2 DEF ExecInv, ExecOrder, engine
<1>12. Raised'
  <2>1. r.ok \/ MaxFails # 0
    <3>1. MaxFails \in Nat /\ fails \in 0..MaxFails
      BY Zenon DEF ExecInv, ExecTypes, Deployed
    <3>2. QED
      BY <1>1, <1>3, <3>1
  <2>2. Fine(async_queue[v]) /\ Fine(response_mq[v])
    BY Zenon DEF ExecInv, Raised
  <2>3. Fine(Append(async_queue[v], r)) /\ Fine(Append(response_mq[v], r))
    BY <1>3, <1>6, <2>1, <2>2, RepliesAppend, Zenon
  <2>4. QED
    BY <1>8, <1>9, <2>2, <2>3, Zenon DEF ExecInv, Raised
<1>13. ASSUME NEW w \in Followed PROVE Oldest(w)' /\ (Works(w)' => InOrder(w)' /\ OnTheWay(w)')
  <2>1. Works(w)' = Works(w) /\ w \in Ranks /\ futures' = futures
    BY <1>1, Zenon DEF Works, Followed, engine
  <2>2. Oldest(w) /\ (Works(w) => InOrder(w) /\ OnTheWay(w))
    BY Zenon DEF ExecInv
  <2>3. CASE w # v
    BY <1>1, <1>2, <1>4, <1>8, <2>1, <2>2, <2>3, RankFrame, Zenon
  <2>4. CASE w = v /\ ~Asked(v, b)
    <3>1. /\ async_queue'[v] = async_queue[v] /\ response_mq'[v] = response_mq[v]
          /\ Replied(v)' = Replied(v) /\ Waits(v)' = Waits(v)
      BY <1>9, <2>4, Zenon DEF Replied, Waits
    <3>2. Oldest(v)'
      BY <1>1, <1>2, <2>1, <2>2, <2>4, <3>1, Zenon DEF Oldest
    <3>3. ASSUME InOrder(v), OnTheWay(v) PROVE InOrder(v)' /\ OnTheWay(v)'
      <4>1. Owed(v) \subseteq Calls /\ b \notin Owed(v)
        BY <2>4, Zenon DEF Owed
      <4>2. QED
        BY <1>1, <1>2, <1>4, <3>1, <3>3, <4>1 DEF InOrder, OnTheWay, Before
    <3>4. QED
      BY <2>1, <2>2, <2>4, <3>2, <3>3, Zenon
  <2>5. CASE w = v /\ Asked(v, b) /\ AsyncOutput
    <3>1. /\ async_queue'[v] = Append(async_queue[v], r) /\ response_mq'[v] = response_mq[v]
          /\ Replied(v)' = Replied(v) /\ Waits(v)' = Waits(v) \cup {b}
      BY <1>9, <1>10, <2>5, Zenon DEF Replied, Waits
    <3>2. Oldest(v)'
      BY <1>1, <1>2, <2>1, <2>2, <2>5, <3>1, Zenon DEF Oldest
    <3>3. ASSUME InOrder(v), OnTheWay(v) PROVE InOrder(v)' /\ OnTheWay(v)'
      <4>1. RisingReplies(Append(async_queue[v], r))
        BY <1>3, <1>4, <1>6, <3>3, RepliesAppend, Zenon DEF InOrder, Before, Waits
      <4>2. QED
        BY <1>1, <1>2, <1>4, <2>5, <3>1, <3>3, <4>1 DEF InOrder, OnTheWay, Before
    <3>4. QED
      BY <2>1, <2>2, <2>5, <3>2, <3>3, Zenon
  <2>6. CASE w = v /\ Asked(v, b) /\ ~AsyncOutput
    <3>1. /\ async_queue'[v] = async_queue[v] /\ response_mq'[v] = Append(response_mq[v], r)
          /\ Replied(v)' = Replied(v) \cup {b} /\ Waits(v)' = Waits(v)
      BY <1>9, <1>10, <2>6, Zenon DEF Replied, Waits
    <3>2. InOrder(v) /\ OnTheWay(v) /\ Oldest(v) /\ monitor # "done"
      <4>1. ~output_thread[v] /\ monitor # "done"
        BY <1>1, <2>6, Zenon DEF ExecInv, ExecOrder
      <4>2. Works(v)
        BY <1>1, <2>6, <4>1, Zenon DEF Works, ExecInv, ExecTypes, Deployed
      <4>3. QED
        BY <2>2, <2>6, <4>1, <4>2, Zenon
    <3>3. Waits(v) = {}
      BY <2>6, <3>2 DEF OnTheWay, Waits, Answered
    <3>4. RisingReplies(Append(response_mq[v], r))
      BY <1>3, <1>4, <1>6, <3>2, RepliesAppend, Zenon DEF InOrder, Oldest, Before, Replied
    <3>5. Owed(v) \subseteq Nat /\ Replied(v) \subseteq Nat /\ Sent(v) \subseteq Nat
      <4>1. Sent(v) \subseteq Calls
        BY QueuedCalls, Zenon DEF ExecInv
      <4>2. Sent(v) \subseteq Nat
        BY <1>3, <4>1, Zenon
      <4>3. QED
        BY <1>3, <3>2, <4>2, Zenon DEF Owed, Oldest
    <3>6. Oldest(v)'
      <4>1. b \in Owed(v) /\ Replied(v) \subseteq Owed(v)
        BY <1>4, <2>6, <3>2, Zenon DEF OnTheWay, Oldest
      <4>2. ASSUME NEW c \in Owed(v), c < b PROVE c \in Replied(v)
        <5>1. c \in Replied(v) \/ c = b \/ c \in Sent(v)
          BY <1>4, <3>2, <3>3, Zenon DEF OnTheWay
        <5>2. c \in Sent(v) => b < c
          BY <1>4, <3>2, Zenon DEF InOrder, Before
        <5>3. c \in Nat /\ b \in Nat
          BY <1>3, <3>5, Zenon
        <5>4. c # b /\ ~(b < c)
          BY <4>2, <5>3
        <5>5. QED
          BY <5>1, <5>2, <5>4, Zenon
      <4>3. \A x \in Replied(v), c \in Owed(v) : c < x => c \in Replied(v)
        BY <3>2, Zenon DEF Oldest
      <4>4. \A x \in Replied(v)', c \in Owed(v)' : c < x => c \in Replied(v)'
        BY <1>2, <3>1, <4>2, <4>3, Zenon
      <4>5. Replied(v)' \subseteq Owed(v)' /\ RisingReplies(response_mq[v])'
        BY <1>2, <3>1, <3>4, <4>1, Zenon DEF RisingReplies
      <4>6. QED
        BY <4>4, <4>5, Zenon DEF Oldest
    <3>7. InOrder(v)' /\ OnTheWay(v)'
      BY <1>1, <1>2, <1>4, <2>6, <3>1, <3>2, <3>3, <3>4, ZenonT(30) DEF InOrder, OnTheWay, Before
    <3>8. QED
      BY <2>6, <3>6, <3>7, Zenon
  <2>7. QED
    BY <2>3, <2>4, <2>5, <2>6, Zenon DEF Deployed
<1>14. QED
  BY <1>2, <1>7, <1>11, <1>12, <1>13, Zenon DEF ExecInv, Followed

\* The output thread passes the oldest reply on.
LEMMA AsyncOutputInv ==
  ASSUME Deployed, ExecInv, NEW v \in Ranks, async_output(v)
  PROVE  ExecInv'
<1>. DEFINE q == async_queue[v]
            r == Head(q)
<1>1. /\ UNCHANGED engine /\ alive[v] /\ output_thread[v] /\ q # <<>>
      /\ response_mq' = [response_mq EXCEPT ![v] = Append(response_mq[v], r)]
      /\ async_queue' = [async_queue EXCEPT ![v] = Tail(q)]
      /\ rpc_broadcast_mq' = rpc_broadcast_mq /\ busy' = busy /\ output_thread' = output_thread
      /\ fails' = fails /\ alive' = alive /\ monitor' = monitor
  BY Zenon DEF async_output
<1>2. /\ \A w : Owed(w)' = Owed(w) /\ \A c : Asked(w, c)' = Asked(w, c)
      /\ FuturesSound' /\ ReadSoFar'
  BY <1>1, WorkerFrame, Zenon
<1>3. q \in Seq(Reply) /\ response_mq[v] \in Seq(Reply) /\ Calls \subseteq Nat
  BY CallNumbers, Zenon DEF ExecInv, ExecTypes
<1>4. Fine(q) /\ Fine(response_mq[v])
  BY Zenon DEF ExecInv, Raised
<1>5. /\ Tail(q) \in Seq(Reply) /\ r \in Reply /\ r.call \in Calls
      /\ Answered(q) = {r.call} \cup Answered(Tail(q))
      /\ RisingReplies(q) => RisingReplies(Tail(q)) /\ \A y \in Answered(Tail(q)) : r.call < y
      /\ Fine(Tail(q)) /\ (r.ok \/ MaxFails # 0)
  BY <1>1, <1>3, <1>4, RepliesTail, Zenon
<1>. HIDE DEF r
<1>6. /\ Append(response_mq[v], r) \in Seq(Reply)
      /\ Answered(Append(response_mq[v], r)) = Replied(v) \cup {r.call}
      /\ RisingReplies(response_mq[v]) /\ (\A y \in Replied(v) : y < r.call) =>
           RisingReplies(Append(response_mq[v], r))
      /\ Fine(Append(response_mq[v], r))
  BY <1>3, <1>4, <1>5, RepliesAppend, Zenon DEF Replied
<1>7. /\ response_mq'[v] = Append(response_mq[v], r) /\ async_queue'[v] = Tail(q)
      /\ \A w \in Ranks \ {v} : response_mq'[w] = response_mq[w] /\ async_queue'[w] = async_queue[w]
  BY <1>1, Zenon DEF ExecInv, ExecTypes
<1>8. /\ Waits(v) = {r.call} \cup Waits(v)' /\ Replied(v)' = Replied(v) \cup {r.call}
      /\ Runs(v)' = Runs(v) /\ Sent(v)' = Sent(v)
  BY <1>1, <1>5, <1>6, <1>7, Zenon DEF Waits, Replied, Runs, Sent
<1>9. ExecTypes'
  BY <1>1, <1>3, <1>5, <1>6, Zenon DEF ExecInv, ExecTypes, engine
<1>10. ExecOrder'
  <2>1. \A w \in Ranks \ {v} : /\ Runs(w)' = Runs(w) /\ Sent(w)' = Sent(w)
                               /\ Replied(w)' = Replied(w) /\ Waits(w)' = Waits(w)
    BY <1>1, <1>7, Zenon DEF Runs, Sent, Replied, Waits
  <2>2. QED
    BY <1>1, <1>8, <2>1, Zenon DEF ExecInv, ExecOrder, engine
<1>11. Raised'
  BY <1>5, <1>6, <1>7, Zenon DEF ExecInv, Raised
<1>12. ASSUME NEW w \in Followed PROVE Oldest(w)' /\ (Works(w)' => InOrder(w)' /\ OnTheWay(w)')
  <2>1. Works(w)' = Works(w) /\ w \in Ranks /\ futures' = futures
    BY <1>1, Zenon DEF Works, Followed, engine
  <2>2. Oldest(w) /\ (Works(w) => InOrder(w) /\ OnTheWay(w))
    BY Zenon DEF ExecInv
  <2>3. CASE w # v
    BY <1>1, <1>2, <1>7, <2>1, <2>2, <2>3, RankFrame, Zenon
  <2>4. CASE w = v
    <3>1. InOrder(v) /\ OnTheWay(v) /\ Oldest(v) /\ monitor # "done" /\ AsyncOutput
      <4>1. AsyncOutput /\ monitor # "done"
        BY <1>1, Zenon DEF ExecInv, ExecOrder
      <4>2. Works(v)
        BY <1>1, <4>1, Zenon DEF Works, ExecInv, ExecTypes, Deployed
      <4>3. QED
        BY <2>2, <2>4, <4>1, <4>2, Zenon
    <3>2. RisingReplies(Tail(q)) /\ \A y \in Waits(v)' : r.call < y
      BY <1>5, <1>7, <3>1, Zenon DEF InOrder, Waits
    <3>3. RisingReplies(Append(response_mq[v], r))
      BY <1>6, <1>8, <3>1, Zenon DEF InOrder, Oldest, Before
    <3>4. Owed(v) \subseteq Nat /\ r.call \in Nat
      BY <1>3, <1>5, Zenon DEF Owed
    <3>5. \A c \in Owed(v) : c < r.call => c \in Replied(v)
      <4>1. ASSUME NEW c \in Owed(v), c < r.call, c \notin Replied(v) PROVE FALSE
        <5>1. c \in Waits(v) \cup Runs(v) \cup Sent(v)
          BY <3>1, <4>1, Zenon DEF OnTheWay
        <5>2. \A y \in Waits(v)' \cup Runs(v) \cup Sent(v) : r.call < y
          BY <1>8, <3>1, <3>2, Zenon DEF InOrder, Before
        <5>3. c = r.call \/ r.call < c
          BY <1>8, <5>1, <5>2, Zenon
        <5>4. QED
          BY <3>4, <4>1, <5>3
      <4>2. QED
        BY <4>1, Zenon
    <3>6. Oldest(v)'
      BY <1>1, <1>2, <1>7, <1>8, <3>1, <3>3, <3>5, Zenon DEF Oldest, OnTheWay
    <3>7. InOrder(v)'
      <4>1. Before(Replied(v)', Waits(v)') /\ Before(Replied(v)', Runs(v)') /\ Before(Replied(v)', Sent(v)')
        BY <1>8, <3>1, <3>2, ZenonT(30) DEF InOrder, Before
      <4>2. Before(Waits(v)', Runs(v)') /\ Before(Waits(v)', Sent(v)') /\ Before(Runs(v)', Sent(v)')
        BY <1>8, <3>1, Zenon DEF InOrder, Before
      <4>3. QED
        BY <1>1, <1>7, <3>1, <3>2, <4>1, <4>2, Zenon DEF InOrder
    <3>8. OnTheWay(v)'
      BY <1>2, <1>8, <3>1, Zenon DEF OnTheWay
    <3>9. QED
      BY <2>4, <3>6, <3>7, <3>8, Zenon
  <2>5. QED
    BY <2>3, <2>4, Zenon
<1>13. QED
  BY <1>2, <1>9, <1>10, <1>11, <1>12, Zenon DEF ExecInv, Followed

\* The output thread ends; its worker answers nothing any more.
LEMMA AsyncOutputRaisesInv ==
  ASSUME Deployed, ExecInv, NEW v \in Ranks, async_output_raises(v)
  PROVE  ExecInv'
<1>. DEFINE q == async_queue[v]
<1>1. /\ UNCHANGED engine /\ output_thread[v] /\ q # <<>>
      /\ fails < MaxFails /\ fails' = fails + 1
      /\ output_thread' = [output_thread EXCEPT ![v] = FALSE]
      /\ async_queue' = [async_queue EXCEPT ![v] = Tail(q)]
      /\ rpc_broadcast_mq' = rpc_broadcast_mq /\ busy' = busy /\ response_mq' = response_mq
      /\ alive' = alive /\ monitor' = monitor
  BY Zenon DEF async_output_raises
<1>2. /\ \A w : Owed(w)' = Owed(w) /\ \A c : Asked(w, c)' = Asked(w, c)
      /\ FuturesSound' /\ ReadSoFar'
  BY <1>1, WorkerFrame, Zenon
<1>3. q \in Seq(Reply) /\ Calls \subseteq Nat
  BY CallNumbers, Zenon DEF ExecInv, ExecTypes
<1>4. Fine(q) /\ AsyncOutput
  BY <1>1, Zenon DEF ExecInv, Raised, ExecOrder
<1>5. /\ Tail(q) \in Seq(Reply) /\ Fine(Tail(q))
      /\ Answered(q) = {Head(q).call} \cup Answered(Tail(q))
  BY <1>1, <1>3, <1>4, RepliesTail, Zenon
<1>6. /\ async_queue'[v] = Tail(q) /\ ~output_thread'[v]
      /\ \A w \in Ranks \ {v} : async_queue'[w] = async_queue[w] /\ output_thread'[w] = output_thread[w]
  BY <1>1, Zenon DEF ExecInv, ExecTypes
<1>7. ExecTypes'
  <2>1. MaxFails \in Nat /\ fails \in 0..MaxFails
    BY Zenon DEF ExecInv, ExecTypes, Deployed
  <2>2. fails' \in 0..MaxFails
    BY <1>1, <2>1
  <2>3. QED
    BY <1>1, <1>5, <2>2, Zenon DEF ExecInv, ExecTypes, engine
<1>8. ExecOrder' /\ Raised'
  <2>1. \A w \in Ranks : /\ Runs(w)' = Runs(w) /\ Sent(w)' = Sent(w)
                         /\ Replied(w)' = Replied(w) /\ Waits(w)' \subseteq Waits(w)
    BY <1>1, <1>5, <1>6, Zenon DEF Runs, Sent, Replied, Waits
  <2>2. QED
    BY <1>1, <1>4, <1>5, <1>6, <2>1 DEF ExecInv, ExecOrder, Raised, engine
<1>9. ASSUME NEW w \in Followed PROVE Oldest(w)' /\ (Works(w)' => InOrder(w)' /\ OnTheWay(w)')
  <2>1. w \in Ranks /\ futures' = futures
    BY <1>1, Zenon DEF Followed, engine
  <2>2. Oldest(w) /\ (Works(w) => InOrder(w) /\ OnTheWay(w))
    BY Zenon DEF ExecInv
  <2>3. CASE w # v
    <3>1. Works(w)' = Works(w)
      BY <1>1, <1>6, <2>1, <2>3, Zenon DEF Works
    <3>2. QED
      BY <1>1, <1>2, <1>6, <2>1, <2>2, <2>3, <3>1, RankFrame, Zenon
  <2>4. CASE w = v
    <3>1. ~Works(v)'
      <4>1. output_thread'[v] = FALSE
        BY <1>1, Zenon DEF ExecInv, ExecTypes
      <4>2. QED
        BY <1>4, <4>1, Zenon DEF Works
    <3>2. Oldest(v)'
      BY <1>1, <1>2, <2>1, <2>2, <2>4, Zenon DEF Oldest, Replied
    <3>3. QED
      BY <2>4, <3>1, <3>2, Zenon
  <2>5. QED
    BY <2>3, <2>4, Zenon
<1>10. QED
  BY <1>2, <1>7, <1>8, <1>9, Zenon DEF ExecInv, Followed

\* Processes die and the monitor notices; no queue changes.
LEMMA DeathInv ==
  ASSUME Deployed, ExecInv,
         (\E v \in Ranks : Crash(v)) \/ Monitor
  PROVE  ExecInv'
<1>1. /\ UNCHANGED engine
      /\ UNCHANGED <<rpc_broadcast_mq, busy, async_queue, response_mq, output_thread, fails>>
  BY Zenon DEF Crash, Monitor, Notice, Terminate, SetShutdownEvent, workers
<1>2. /\ \A w : Owed(w)' = Owed(w) /\ \A c : Asked(w, c)' = Asked(w, c)
      /\ FuturesSound' /\ ReadSoFar'
  BY <1>1, WorkerFrame, Zenon
<1>3. /\ alive' \in [Ranks -> BOOLEAN] /\ \A w \in Ranks : alive'[w] => alive[w]
      /\ monitor' \in {"watching", "failed", "terminated", "done"}
      /\ monitor' # "done" => monitor # "done"
      /\ monitor' \in {"terminated", "done"} => \A w \in Ranks : ~alive'[w]
  BY ZenonT(30) DEF Crash, Monitor, Notice, Terminate, SetShutdownEvent, ExecInv, ExecTypes, ExecOrder
<1>4. ExecTypes' /\ Raised'
  BY <1>1, <1>3, Zenon DEF ExecInv, ExecTypes, Raised, engine
<1>5. ExecOrder'
  BY <1>1, <1>3, Zenon DEF ExecInv, ExecOrder, engine, Replied, Waits, Runs, Sent
<1>6. ASSUME NEW w \in Followed PROVE Oldest(w)' /\ (Works(w)' => InOrder(w)' /\ OnTheWay(w)')
  <2>1. w \in Ranks /\ futures' = futures
    BY <1>1, Zenon DEF Followed, engine
  <2>2. Oldest(w) /\ (Works(w) => InOrder(w) /\ OnTheWay(w))
    BY Zenon DEF ExecInv
  <2>3. Works(w)' => Works(w)
    BY <1>1, <1>3, <2>1, Zenon DEF Works
  <2>4. QED
    BY <1>1, <1>2, <1>3, <2>1, <2>2, <2>3, RankFrame, Zenon
<1>7. QED
  BY <1>2, <1>4, <1>5, <1>6, Zenon DEF ExecInv, Followed

\* The engine does not wait for anything.
LEMMA EngineQuiet ==
  ASSUME Deployed, ExecInv,
         Result \/ Return \/ HandleExecutorFailed
  PROVE  ExecInv'
<1>1. /\ UNCHANGED <<n, call, outcome, results, futures, left>>
      /\ UNCHANGED <<rpc_broadcast_mq, busy, async_queue, response_mq, output_thread, fails, alive, monitor>>
  BY Zenon DEF Result, Return, HandleExecutorFailed, workers
<1>2. goal' \in Calls \cup {0} /\ batch_queue' \in Seq(Calls)
  <2>1. goal \in Calls \cup {0} /\ batch_queue \in Seq(Calls)
    BY EngineTypes, Zenon DEF ExecInv
  <2>2. QED
    BY <2>1 DEF Result, Return, HandleExecutorFailed
<1>3. goal' = goal \/ goal = 0 \/ outcome[goal] # "pending"
  BY ZenonT(30) DEF Result, Return, HandleExecutorFailed
<1>4. ExecTypes' /\ Raised'
  BY <1>1, <1>2, Zenon DEF ExecInv, ExecTypes, Raised
<1>5. ExecOrder'
  BY <1>1, ZenonT(30) DEF ExecInv, ExecOrder, Replied, Waits, Runs, Sent
<1>6. FuturesSound'
  BY <1>1, <1>3, CallNumbers, Zenon DEF ExecInv, FuturesSound
<1>7. ReadSoFar'
  BY <1>1, Zenon DEF ExecInv, ReadSoFar, Mqs, ResponseMqs
<1>8. ASSUME NEW w \in Followed PROVE Oldest(w)' /\ (Works(w)' => InOrder(w)' /\ OnTheWay(w)')
  <2>1. Oldest(w) /\ (Works(w) => InOrder(w) /\ OnTheWay(w))
    BY Zenon DEF ExecInv
  <2>2. Owed(w)' = Owed(w) /\ \A c : Asked(w, c)' = Asked(w, c)
    BY <1>1, Zenon DEF Owed, Asked
  <2>3. Works(w)' => Works(w)
    BY <1>1, Zenon DEF Works
  <2>4. QED
    BY <1>1, <2>1, <2>2, <2>3, RankFrame, Zenon
<1>9. QED
  BY <1>4, <1>5, <1>6, <1>7, <1>8, Zenon DEF ExecInv, Followed

\* A call on a failed executor is over at once.
LEMMA CallFailsInv ==
  ASSUME Deployed, ExecInv, NEW kind \in {"step", "utility"}, CallFails(kind)
  PROVE  ExecInv'
<1>. DEFINE m == n + 1
<1>1. /\ UNCHANGED <<results, futures, left, goal, batch_queue>>
      /\ UNCHANGED <<rpc_broadcast_mq, busy, async_queue, response_mq, output_thread, fails, alive, monitor>>
      /\ goal = 0 /\ n < MaxCalls /\ n' = m
  BY Zenon DEF CallFails, workers
<1>0. /\ outcome' = [outcome EXCEPT ![m] = "executor_failed"]
      /\ call' = [call EXCEPT ![m] = [call[m] EXCEPT !.kind = kind]]
  BY Zenon DEF CallFails
<1>2. m \in Calls /\ n \in Nat /\ m > n /\ m \in 0..MaxCalls /\ Calls \subseteq Nat \ {0}
  BY <1>1, CallNumbers, EngineTypes DEF ExecInv
<1>. HIDE DEF m
<1>3. /\ outcome[m] = "none" /\ outcome'[m] = "executor_failed"
      /\ \A c \in Calls : c # m => outcome'[c] = outcome[c] /\ call'[c] = call[c]
  <2>1. outcome[m] = "none"
    BY <1>1, <1>2, Zenon DEF ExecInv, ExecOrder
  <2>2. DOMAIN outcome = Calls /\ DOMAIN call = Calls
    BY Zenon DEF ExecInv, ExecTypes
  <2>3. QED
    BY <1>0, <1>1, <1>2, <2>1, <2>2, Zenon
<1>4. ExecTypes'
  <2>1. call' \in [Calls -> [kind : {"none", "step", "utility"}, timed : BOOLEAN]]
    BY <1>0, ZenonT(30) DEF ExecInv, ExecTypes
  <2>2. outcome' \in [Calls -> {"none", "pending", "ok", "worker_failed", "cancelled", "executor_failed"}]
    BY <1>0, Zenon DEF ExecInv, ExecTypes
  <2>3. QED
    BY <1>1, <1>2, <2>1, <2>2, Zenon DEF ExecInv, ExecTypes
<1>5. Raised'
  BY <1>1, ZenonT(30) DEF ExecInv, Raised
<1>6. \A w \in Ranks : /\ Replied(w)' = Replied(w) /\ Waits(w)' = Waits(w) /\ Runs(w)' = Runs(w) /\ Sent(w)' = Sent(w)
  BY <1>1, ZenonT(30) DEF Replied, Waits, Runs, Sent
<1>7. ExecOrder'
  <2>1. \A w \in Ranks : \A x \in Replied(w) \cup Waits(w) \cup Runs(w) \cup Sent(w) : x \in Nat
    BY <1>2, QueuedCalls, Zenon DEF ExecInv
  <2>2. \A w \in Ranks : \A x \in Replied(w)' \cup Waits(w)' \cup Runs(w)' \cup Sent(w)' : x <= n'
    BY <1>1, <1>2, <1>6, <2>1 DEF ExecInv, ExecOrder
  <2>3. \A c \in Calls : c > n' => outcome'[c] = "none"
    <3>1. \A c \in Calls : c > m => c > n /\ c # m
      BY <1>2
    <3>2. QED
      BY <1>1, <1>3, <3>1, Zenon DEF ExecInv, ExecOrder
  <2>4. QED
    BY <1>1, <2>2, <2>3, Zenon DEF ExecInv, ExecOrder
<1>8. \A c \in Calls : outcome'[c] = "pending" => outcome[c] = "pending" /\ c # m
  BY <1>3, Zenon
<1>9. /\ \A i \in 1..Len(futures) : futures[i] \in Calls /\ futures[i] # m
      /\ futures # <<>> => futures[1] \in Calls /\ futures[1] # m
  <2>1. \A i \in 1..Len(futures) : futures[i] \in Calls /\ futures[i] # m
    BY <1>3, EngineTypes, Zenon DEF ExecInv, FuturesSound
  <2>2. futures # <<>> => 1 \in 1..Len(futures)
    BY EngineTypes DEF ExecInv
  <2>3. QED
    BY <2>1, <2>2, Zenon
<1>10. FuturesSound'
  <2>1. \A c \in Calls : ~(outcome[c] = "pending" /\ call[c].kind # "step")
    BY <1>1, <1>2, Zenon DEF ExecInv, FuturesSound
  <2>2. \A c \in Calls : ~(outcome'[c] = "pending" /\ call'[c].kind # "step")
    BY <1>3, <1>8, <2>1, Zenon
  <2>3. QED
    BY <1>1, <1>3, <1>8, <1>9, <2>2, ZenonT(30) DEF ExecInv, FuturesSound
<1>11. \A c \in Calls : c # m => Mqs(c)' = Mqs(c)
  BY <1>3, Zenon DEF Mqs, ResponseMqs
<1>12. ReadSoFar'
  <2>1. \A c \in Calls : outcome'[c] \in {"none", "pending", "ok"} => c # m /\ outcome[c] = outcome'[c]
    BY <1>3, Zenon
  <2>2. results' = results /\ futures' = futures /\ left' = left
    BY <1>1, Zenon
  <2>3. \A c \in Calls :
          outcome'[c] \in {"none", "pending"} /\ (futures' = <<>> \/ c # futures'[1]) => results'[c] = <<>>
    BY <2>1, <2>2, Zenon DEF ExecInv, ReadSoFar
  <2>4. PICK h : h = futures[1]
    BY Zenon
  <2>5. ASSUME futures # <<>>
        PROVE  /\ left # <<>> /\ Len(results[h]) + Len(left) = Len(Mqs(h)')
               /\ \A i \in 1..Len(left) : left[i] = Mqs(h)'[Len(results[h]) + i]
    <3>1. Mqs(h)' = Mqs(h)
      BY <1>9, <1>11, <2>4, <2>5, Zenon
    <3>2. QED
      BY <2>4, <2>5, <3>1, Zenon DEF ExecInv, ReadSoFar
  <2>6. \A c \in Calls : outcome'[c] = "ok" => Len(results'[c]) = Len(Mqs(c)')
    BY <1>11, <2>1, <2>2, Zenon DEF ExecInv, ReadSoFar
  <2>7. ASSUME NEW c \in Calls, outcome'[c] \in {"pending", "ok"},
               NEW i \in 1..Len(results[c]), Mqs(c)'[i] \in Followed
        PROVE  results[c][i] = c
    <3>1. c # m /\ outcome[c] \in {"pending", "ok"} /\ Mqs(c)' = Mqs(c)
      BY <1>11, <2>1, <2>7, Zenon
    <3>2. QED
      BY <2>7, <3>1, Zenon DEF ExecInv, ReadSoFar
  <2>8. QED
    BY <2>2, <2>3, <2>4, <2>5, <2>6, <2>7, Zenon DEF ReadSoFar, Followed
<1>13. ASSUME NEW w \in Followed PROVE Oldest(w)' /\ (Works(w)' => InOrder(w)' /\ OnTheWay(w)')
  <2>1. Oldest(w) /\ (Works(w) => InOrder(w) /\ OnTheWay(w)) /\ w \in Ranks
    BY Zenon DEF ExecInv, Followed
  <2>2. Owed(w)' = Owed(w)
    BY <1>1, <1>3, <1>8, Zenon DEF Owed, Asked
  <2>3. Works(w)' => Works(w)
    BY <1>1, Zenon DEF Works
  <2>4. \A c \in Runs(w) \cup Sent(w) : Asked(w, c)' = Asked(w, c)
    <3>1. \A c \in Runs(w) \cup Sent(w) : c \in Calls /\ c # m
      <4>1. \A c \in Runs(w) \cup Sent(w) : c \in Calls /\ c <= n
        BY <2>1, QueuedCalls, Zenon DEF ExecInv, ExecOrder
      <4>2. QED
        BY <1>1, <1>2, <4>1
    <3>2. QED
      BY <1>3, <3>1, Zenon DEF Asked
  <2>5. Oldest(w)'
    BY <1>1, <1>6, <2>1, <2>2, Zenon DEF Oldest
  <2>6. ASSUME InOrder(w), OnTheWay(w) PROVE InOrder(w)' /\ OnTheWay(w)'
    BY <1>1, <1>6, <2>1, <2>2, <2>4, <2>6, Zenon DEF InOrder, OnTheWay
  <2>7. QED
    BY <2>1, <2>3, <2>5, <2>6, Zenon
<1>14. QED
  BY <1>4, <1>5, <1>7, <1>10, <1>12, <1>13, Zenon DEF ExecInv, Followed

\* A new call is sent to all workers and waits behind the others.
LEMMA CollectiveRpcInv ==
  ASSUME Deployed, ExecInv, NEW kind \in {"step", "utility"}, NEW timed \in BOOLEAN,
         NEW non_block \in BOOLEAN, kind = "step" \/ ~non_block,
         collective_rpc(kind, timed, non_block), batch_queue' \in Seq(Calls)
  PROVE  ExecInv'
<1>0. PICK m : m = n + 1
  BY Zenon
<1>1. /\ results' = results /\ UNCHANGED <<busy, async_queue, response_mq, output_thread, fails, alive, monitor>>
      /\ goal = 0 /\ n < MaxCalls /\ n' = m /\ monitor = "watching"
      /\ futures' = Append(futures, m)
      /\ goal' = IF non_block THEN 0 ELSE m
  BY <1>0, Zenon DEF collective_rpc, is_failed
<1>2. /\ call' = [call EXCEPT ![m] = [kind |-> kind, timed |-> timed]]
      /\ outcome' = [outcome EXCEPT ![m] = "pending"]
  BY <1>0, Zenon DEF collective_rpc
<1>3. rpc_broadcast_mq' = [w \in Ranks |-> Append(rpc_broadcast_mq[w], m)]
  BY <1>0, Zenon DEF collective_rpc
<1>4. left' = IF futures = <<>> THEN ResponseMqs(kind) ELSE left
  BY Zenon DEF collective_rpc
<1>5. m \in Calls /\ n \in Nat /\ m > n /\ m \in 0..MaxCalls /\ Calls \subseteq Nat \ {0}
  BY <1>0, <1>1, CallNumbers, EngineTypes DEF ExecInv
<1>6. /\ outcome[m] = "none" /\ outcome'[m] = "pending" /\ call'[m].kind = kind
      /\ \A c \in Calls : c # m => outcome'[c] = outcome[c] /\ call'[c] = call[c]
  <2>1. outcome[m] = "none"
    BY <1>5, Zenon DEF ExecInv, ExecOrder
  <2>2. DOMAIN outcome = Calls /\ DOMAIN call = Calls
    BY Zenon DEF ExecInv, ExecTypes
  <2>3. QED
    BY <1>2, <1>5, <2>1, <2>2, Zenon
<1>7. /\ futures \in Seq(Calls) /\ Len(futures) \in Nat
      /\ futures' \in Seq(Calls) /\ futures' # <<>> /\ Len(futures') = Len(futures) + 1
      /\ \A i \in 1..Len(futures) : futures'[i] = futures[i] /\ futures[i] \in Calls /\ futures[i] # m
      /\ futures'[Len(futures) + 1] = m
      /\ IF futures = <<>> THEN futures'[1] = m
         ELSE futures'[1] = futures[1] /\ futures[1] \in Calls /\ futures[1] # m
  <2>1. futures \in Seq(Calls) /\ Len(futures) \in Nat /\ \A i \in 1..Len(futures) : futures[i] \in Calls
    BY EngineTypes, Zenon DEF ExecInv
  <2>2. \A i \in 1..Len(futures) : futures[i] # m
    BY <1>6, Zenon DEF ExecInv, FuturesSound
  <2>3. /\ futures' \in Seq(Calls) /\ futures' # <<>> /\ Len(futures') = Len(futures) + 1
        /\ \A i \in 1..Len(futures) : futures'[i] = futures[i]
        /\ futures'[Len(futures) + 1] = m
    BY <1>1, <1>5, <2>1
  <2>4. IF futures = <<>> THEN futures'[1] = m ELSE 1 \in 1..Len(futures)
    BY <1>1, <1>5, <2>1
  <2>5. QED
    BY <2>1, <2>2, <2>3, <2>4, Zenon
<1>8. \A w \in Ranks : /\ rpc_broadcast_mq'[w] = Append(rpc_broadcast_mq[w], m)
                       /\ rpc_broadcast_mq[w] \in Seq(Calls) /\ rpc_broadcast_mq'[w] \in Seq(Calls)
                       /\ Sent(w)' = Sent(w) \cup {m}
                       /\ Replied(w)' = Replied(w) /\ Waits(w)' = Waits(w) /\ Runs(w)' = Runs(w)
  <2>1. \A w \in Ranks : rpc_broadcast_mq'[w] = Append(rpc_broadcast_mq[w], m) /\ rpc_broadcast_mq[w] \in Seq(Calls)
    BY <1>3, Zenon DEF ExecInv, ExecTypes
  <2>2. \A w \in Ranks : /\ Append(rpc_broadcast_mq[w], m) \in Seq(Calls)
                         /\ Queued(Append(rpc_broadcast_mq[w], m)) = Queued(rpc_broadcast_mq[w]) \cup {m}
    BY <1>5, <2>1, CallsAppend, Zenon
  <2>3. QED
    BY <1>1, <2>1, <2>2, Zenon DEF Sent, Replied, Waits, Runs
<1>9. ExecTypes'
  <2>1. call' \in [Calls -> [kind : {"none", "step", "utility"}, timed : BOOLEAN]]
    BY <1>2, Zenon DEF ExecInv, ExecTypes
  <2>2. outcome' \in [Calls -> {"none", "pending", "ok", "worker_failed", "cancelled", "executor_failed"}]
    BY <1>2, Zenon DEF ExecInv, ExecTypes
  <2>3. goal' \in Calls \cup {0} /\ n' \in 0..MaxCalls
    BY <1>1, <1>5, Zenon
  <2>4. rpc_broadcast_mq' \in [Ranks -> Seq(Calls)]
    BY <1>3, <1>8, Zenon
  <2>5. left' \in Seq(Ranks)
    BY <1>4, MqsRead, EngineTypes, Zenon DEF ExecInv
  <2>6. QED
    BY <1>1, <1>7, <2>1, <2>2, <2>3, <2>4, <2>5, Zenon DEF ExecInv, ExecTypes
<1>10. Raised'
  BY <1>1, Zenon DEF ExecInv, Raised
<1>11. \A w \in Ranks : \A x \in Replied(w) \cup Waits(w) \cup Runs(w) \cup Sent(w) : x \in Calls /\ x <= n /\ x < m /\ x # m
  <2>1. \A w \in Ranks : \A x \in Replied(w) \cup Waits(w) \cup Runs(w) \cup Sent(w) : x \in Calls /\ x <= n
    BY QueuedCalls, Zenon DEF ExecInv, ExecOrder
  <2>2. \A x \in Calls : x <= n => x < m /\ x # m
    BY <1>5
  <2>3. QED
    BY <2>1, <2>2, Zenon
<1>12. ExecOrder'
  <2>1. \A c \in Calls : c > m => c > n /\ c # m
    BY <1>5
  <2>2. \A c \in Calls : c > n' => outcome'[c] = "none"
    BY <1>1, <1>6, <2>1, Zenon DEF ExecInv, ExecOrder
  <2>3. \A x \in Calls : (x <= n => x <= m) /\ m <= m
    BY <1>5
  <2>4. \A w \in Ranks : \A x \in Replied(w)' \cup Waits(w)' \cup Runs(w)' \cup Sent(w)' : x <= n'
    <3>1. \A w \in Ranks : \A x \in Replied(w)' \cup Waits(w)' \cup Runs(w)' \cup Sent(w)' :
            x = m \/ x \in Replied(w) \cup Waits(w) \cup Runs(w) \cup Sent(w)
      BY <1>8
    <3>2. QED
      BY <1>1, <1>5, <1>11, <2>3, <3>1, Zenon
  <2>5. QED
    BY <1>1, <2>2, <2>4, Zenon DEF ExecInv, ExecOrder
<1>13. FuturesSound'
  <2>1. \A i \in 1..Len(futures) : futures[i] < m
    <3>1. \A c \in Calls : outcome[c] = "pending" => ~(c > n)
      BY Zenon DEF ExecInv, ExecOrder
    <3>2. \A i \in 1..Len(futures) : ~(futures[i] > n) /\ futures[i] \in Calls
      BY <1>7, <3>1, Zenon DEF ExecInv, FuturesSound
    <3>3. \A c \in Calls : ~(c > n) => c < m
      BY <1>5
    <3>4. QED
      BY <3>2, <3>3, Zenon
  <2>2. \A i, j \in 1..Len(futures') : i < j => futures'[i] < futures'[j]
    <3>1. \A i \in 1..Len(futures') : i \in 1..Len(futures) \/ i = Len(futures) + 1
      BY <1>7
    <3>2. ASSUME NEW i \in 1..Len(futures'), NEW j \in 1..Len(futures'), i < j
          PROVE  i \in 1..Len(futures) /\ (j \in 1..Len(futures) \/ futures'[j] = m)
      BY <1>7, <3>1, <3>2
    <3>3. QED
      BY <1>7, <2>1, <3>2, Zenon DEF ExecInv, FuturesSound
  <2>3. \A i \in 1..Len(futures') : outcome'[futures'[i]] = "pending"
    BY <1>6, <1>7 DEF ExecInv, FuturesSound
  <2>4. \A c \in Calls : outcome'[c] = "pending" => \E i \in 1..Len(futures') : futures'[i] = c
    BY <1>6, <1>7, SMTT(30) DEF ExecInv, FuturesSound
  <2>5. \A c \in Calls : ~(outcome[c] = "pending" /\ call[c].kind # "step")
    BY <1>1, <1>5, Zenon DEF ExecInv, FuturesSound
  <2>6. \A c \in Calls : outcome'[c] = "pending" /\ call'[c].kind # "step" => c = m /\ kind # "step"
    BY <1>6, <2>5, Zenon
  <2>7. QED
    BY <1>1, <2>2, <2>3, <2>4, <2>6, Zenon DEF FuturesSound
<1>14. \A c \in Calls : c # m => Mqs(c)' = Mqs(c)
  BY <1>6, Zenon DEF Mqs, ResponseMqs
<1>15. Mqs(m)' = ResponseMqs(kind)
  <2>1. Mqs(m)' = IF call'[m].kind = "step" THEN <<OutputRank>> ELSE [w \in Ranks |-> w]
    BY Zenon DEF Mqs, ResponseMqs
  <2>2. ResponseMqs(kind) = IF kind = "step" THEN <<OutputRank>> ELSE [w \in Ranks |-> w]
    BY Zenon DEF ResponseMqs
  <2>3. QED
    BY <1>6, <2>1, <2>2, Zenon
<1>16. results[m] = <<>> /\ Len(results[m]) = 0
  <2>1. results[m] = <<>>
    BY <1>5, <1>6, <1>7, Zenon DEF ExecInv, ReadSoFar
  <2>2. QED
    BY <2>1, Zenon
<1>17. ReadSoFar'
  <2>1. \A c \in Calls :
          outcome'[c] \in {"none", "pending"} /\ (futures' = <<>> \/ c # futures'[1]) => results'[c] = <<>>
    BY <1>1, <1>6, <1>7, <1>16, ZenonT(30) DEF ExecInv, ReadSoFar
  <2>2. PICK h : h = futures'[1]
    BY Zenon
  <2>6. /\ left' # <<>> /\ Len(results'[h]) + Len(left') = Len(Mqs(h)')
        /\ \A i \in 1..Len(left') : left'[i] = Mqs(h)'[Len(results'[h]) + i]
    <3>1. CASE futures = <<>>
      <4>1. PICK M : M = ResponseMqs(kind)
        BY Zenon
      <4>2. M \in Seq(Ranks) /\ Len(M) \in Nat /\ M # <<>>
        BY <4>1, MqsRead
      <4>3. left' = M /\ h = m /\ Mqs(h)' = M /\ Len(results'[h]) = 0
        BY <1>1, <1>4, <1>7, <1>15, <1>16, <2>2, <3>1, <4>1, Zenon
      <4>4. QED
        BY <4>2, <4>3
    <3>2. CASE futures # <<>>
      <4>1. h = futures[1] /\ Mqs(h)' = Mqs(h) /\ left' = left
        BY <1>4, <1>7, <1>14, <2>2, <3>2, Zenon
      <4>2. QED
        BY <1>1, <3>2, <4>1, Zenon DEF ExecInv, ReadSoFar
    <3>3. QED
      BY <3>1, <3>2, Zenon
  <2>3. \A c \in Calls : outcome'[c] = "ok" => Len(results'[c]) = Len(Mqs(c)')
    BY <1>1, <1>6, <1>14, Zenon DEF ExecInv, ReadSoFar
  <2>4. \A c \in Calls : outcome'[c] \in {"pending", "ok"} =>
          \A i \in 1..Len(results'[c]) : Mqs(c)'[i] \in Followed => results'[c][i] = c
    BY <1>1, <1>6, <1>14, <1>16 DEF ExecInv, ReadSoFar
  <2>5. QED
    BY <2>1, <2>2, <2>3, <2>4, <2>6, Zenon DEF ReadSoFar, Followed
<1>18. ASSUME NEW w \in Followed PROVE Oldest(w)' /\ (Works(w)' => InOrder(w)' /\ OnTheWay(w)')
  <2>1. Oldest(w) /\ (Works(w) => InOrder(w) /\ OnTheWay(w)) /\ w \in Ranks
    BY Zenon DEF ExecInv, Followed
  <2>2. Works(w)' => Works(w)
    BY <1>1, Zenon DEF Works
  <2>3. Owed(w)' = Owed(w) \cup {c \in {m} : Asked(w, c)'}
    <3>1. \A c \in Calls : c # m => Asked(w, c)' = Asked(w, c)
      BY <1>6, Zenon DEF Asked
    <3>2. m \notin Owed(w)
      BY <1>6, Zenon DEF Owed
    <3>3. CASE futures # <<>>
      BY <1>4, <1>5, <1>6, <1>7, <3>1, <3>2, <3>3, ZenonT(30) DEF Owed
    <3>4. CASE futures = <<>>
      <4>1. \A c \in Calls : outcome[c] # "pending"
        BY <3>4 DEF ExecInv, FuturesSound
      <4>2. Asked(w, m)' => \E i \in 1..Len(left') : left'[i] = w
        <5>1. Asked(w, m)' = (kind = "step" => w = OutputRank)
          BY <1>6, Zenon DEF Asked
        <5>2. left' = ResponseMqs(kind)
          BY <1>4, <3>4, Zenon
        <5>3. QED
          BY <2>1, <5>1, <5>2, MqsRead, ZenonT(30)
      <4>3. QED
        <5>1. Owed(w) = {}
          BY <4>1, Zenon DEF Owed
        <5>2. Owed(w)' = {c \in {m} : Asked(w, c)'}
          BY <1>5, <1>6, <4>1, <4>2, ZenonT(30) DEF Owed
        <5>3. QED
          BY <5>1, <5>2, Zenon
    <3>5. QED
      BY <3>3, <3>4, Zenon
  <2>4. \A c \in Runs(w) \cup Sent(w) : Asked(w, c)' = Asked(w, c)
    BY <1>6, <1>11, <2>1, Zenon DEF Asked
  <2>5. Oldest(w)'
    <3>1. \A x \in Replied(w) : ~(m < x)
      <4>1. \A x \in Calls : x < m => ~(m < x)
        BY <1>5
      <4>2. QED
        BY <1>11, <2>1, <4>1, Zenon
    <3>2. QED
      BY <1>1, <1>8, <2>1, <2>3, <3>1, Zenon DEF Oldest
  <2>6. ASSUME InOrder(w) PROVE InOrder(w)'
    <3>1. RisingCalls(Append(rpc_broadcast_mq[w], m))
      BY <1>5, <1>8, <1>11, <2>1, <2>6, CallsAppend, Zenon DEF InOrder, Sent
    <3>2. /\ Before(Replied(w), Sent(w) \cup {m}) /\ Before(Waits(w), Sent(w) \cup {m})
          /\ Before(Runs(w), Sent(w) \cup {m})
      BY <1>11, <2>1, <2>6, Zenon DEF InOrder, Before
    <3>3. QED
      BY <1>1, <1>8, <2>1, <2>6, <3>1, <3>2, ZenonT(30) DEF InOrder
  <2>7. ASSUME OnTheWay(w) PROVE OnTheWay(w)'
    BY <1>1, <1>8, <2>1, <2>3, <2>4, <2>7, Zenon DEF OnTheWay
  <2>8. QED
    BY <2>1, <2>2, <2>5, <2>6, <2>7, Zenon
<1>19. QED
  BY <1>9, <1>10, <1>12, <1>13, <1>17, <1>18, Zenon DEF ExecInv, Followed

\* The call the engine waits for is among the futures.
LEMMA SomeFuture ==
  ASSUME Deployed, ExecInv, goal # 0, outcome[goal] = "pending"
  PROVE  futures # <<>>
<1>1. \E i \in 1..Len(futures) : futures[i] = goal
  BY EngineTypes, Zenon DEF ExecInv, FuturesSound
<1>2. QED
  BY <1>1

\* The oldest future is what the queue read next owes first.
LEMMA WaitedFor ==
  ASSUME Deployed, ExecInv, futures # <<>>
  PROVE  /\ left # <<>>
         /\ Head(futures) = futures[1] /\ Head(left) = left[1]
         /\ futures[1] \in Calls /\ left[1] \in Ranks
         /\ outcome[futures[1]] = "pending"
         /\ left[1] = Mqs(futures[1])[Len(results[futures[1]]) + 1]
         /\ Asked(left[1], futures[1]) /\ futures[1] \in Owed(left[1])
         /\ \A d \in Calls : outcome[d] = "pending" => futures[1] <= d
<1>2. left # <<>>
  BY Zenon DEF ExecInv, ReadSoFar
<1>3. /\ Len(futures) \in Nat /\ Len(futures) >= 1 /\ futures[1] \in Calls
      /\ Len(left) \in Nat /\ Len(left) >= 1 /\ left[1] \in Ranks
      /\ \A i \in 1..Len(futures) : futures[i] \in Calls
      /\ Len(results[futures[1]]) \in Nat
  BY <1>2, EngineTypes, Zenon DEF ExecInv
<1>4. outcome[futures[1]] = "pending"
  BY <1>3 DEF ExecInv, FuturesSound
<1>5. /\ left[1] = Mqs(futures[1])[Len(results[futures[1]]) + 1]
      /\ Len(results[futures[1]]) + 1 \in 1..Len(Mqs(futures[1]))
  <2>1. /\ Len(results[futures[1]]) + Len(left) = Len(Mqs(futures[1]))
        /\ \A i \in 1..Len(left) : left[i] = Mqs(futures[1])[Len(results[futures[1]]) + i]
    BY Zenon DEF ExecInv, ReadSoFar
  <2>2. 1 \in 1..Len(left) /\ Len(results[futures[1]]) + 1 \in 1..Len(Mqs(futures[1]))
    BY <1>3, <2>1
  <2>3. QED
    BY <2>1, <2>2, Zenon
<1>6. Asked(left[1], futures[1])
  BY <1>3, <1>5, MqsRead DEF Mqs, Asked
<1>7. futures[1] \in Owed(left[1])
  <2>1. \E i \in 1..Len(left) : left[i] = left[1]
    BY <1>3
  <2>2. QED
    BY <1>3, <1>4, <1>6, <2>1, Zenon DEF Owed
<1>8. \A d \in Calls : outcome[d] = "pending" => futures[1] <= d
  <2>1. ASSUME NEW d \in Calls, outcome[d] = "pending" PROVE futures[1] <= d
    <3>1. PICK i \in 1..Len(futures) : futures[i] = d
      BY <2>1, Zenon DEF ExecInv, FuturesSound
    <3>2. i = 1 \/ futures[1] < futures[i]
      BY <1>3 DEF ExecInv, FuturesSound
    <3>3. QED
      BY <1>3, <3>1, <3>2, CallNumbers
  <2>2. QED
    BY <2>1, Zenon
<1>9. QED
  BY <1>2, <1>3, <1>4, <1>5, <1>6, <1>7, <1>8

\* The reply at the head of a followed queue is the waiting call's own.
LEMMA RightReply ==
  ASSUME Deployed, ExecInv, futures # <<>>, left[1] \in Followed,
         response_mq[left[1]] # <<>>
  PROVE  Head(response_mq[left[1]]).call = futures[1]
<1>. DEFINE v == left[1]
            q == response_mq[v]
<1>1. /\ v \in Ranks /\ futures[1] \in Owed(v)
      /\ \A d \in Calls : outcome[d] = "pending" => futures[1] <= d
  BY WaitedFor, Zenon
<1>2. RisingReplies(q) /\ Replied(v) \subseteq Owed(v)
      /\ \A x \in Replied(v), d \in Owed(v) : d < x => d \in Replied(v)
  BY <1>1, Zenon DEF ExecInv, Oldest
<1>3. q \in Seq(Reply) /\ Calls \subseteq Nat
  BY <1>1, CallNumbers, Zenon DEF ExecInv, ExecTypes
<1>4. /\ Head(q).call \in Calls /\ Replied(v) = {Head(q).call} \cup Answered(Tail(q))
      /\ \A y \in Answered(Tail(q)) : Head(q).call < y
  BY <1>2, <1>3, RepliesTail, Zenon DEF Replied
<1>5. PICK x, c : x = Head(q).call /\ c = futures[1]
  BY Zenon
<1>6. x \in Nat /\ c \in Nat /\ c <= x /\ c \in Owed(v)
  BY <1>1, <1>2, <1>3, <1>4, <1>5, Zenon DEF Owed
<1>7. ASSUME c < x PROVE FALSE
  <2>1. c \in Replied(v)
    BY <1>2, <1>4, <1>5, <1>6, <1>7, Zenon
  <2>2. c = x \/ x < c
    BY <1>4, <1>5, <2>1, Zenon
  <2>3. QED
    BY <1>6, <1>7, <2>2
<1>8. x = c
  BY <1>6, <1>7
<1>9. QED
  BY <1>5, <1>8, Zenon

\* A call is over: the next one is to be read from all the queues it asks.
LEMMA CompleteStep ==
  ASSUME Deployed, ExecInv, futures # <<>>,
         NEW how \in {"ok", "worker_failed", "cancelled"}, Complete(how),
         UNCHANGED <<call, goal, n>>
  PROVE  /\ FuturesSound' /\ futures' \in Seq(Calls) /\ left' \in Seq(Ranks)
         /\ outcome' = [outcome EXCEPT ![futures[1]] = how]
         /\ \A w \in Ranks : Owed(w)' = Owed(w) \ {futures[1]}
         /\ futures' # <<>> => /\ futures'[1] \in Calls /\ futures'[1] # futures[1]
                               /\ outcome[futures'[1]] = "pending" /\ left' = Mqs(futures'[1])
                               /\ call[futures[1]].kind = "step"
<1>. DEFINE p == Tail(futures)
<1>1. /\ futures # <<>> /\ Head(futures) = futures[1] /\ futures[1] \in Calls
      /\ outcome[futures[1]] = "pending" /\ futures \in Seq(Calls) /\ Len(futures) \in Nat
      /\ \A i \in 1..Len(futures) : futures[i] \in Calls
      /\ Len(futures) >= 1
  BY WaitedFor, EngineTypes, Zenon DEF ExecInv
<1>2. PICK c : c = futures[1]
  BY Zenon
<1>3. /\ outcome' = [outcome EXCEPT ![c] = how] /\ futures' = p
      /\ left' = IF p = <<>> THEN <<>> ELSE ResponseMqs(call[futures[2]].kind)
  BY <1>1, <1>2, Zenon DEF Complete
<1>4. /\ p \in Seq(Calls) /\ Len(p) = Len(futures) - 1 /\ (p # <<>> => Len(p) >= 1)
      /\ \A i \in 1..(Len(futures) - 1) : p[i] = futures[i + 1]
  BY <1>1
<1>. HIDE DEF p
<1>5. /\ outcome'[c] = how /\ c \in Calls /\ outcome[c] = "pending"
      /\ \A d \in Calls : d # c => outcome'[d] = outcome[d]
  <2>1. DOMAIN outcome = Calls
    BY Zenon DEF ExecInv, ExecTypes
  <2>2. QED
    BY <1>1, <1>2, <1>3, <2>1, Zenon
<1>6. \A i \in 1..Len(futures) : i = 1 \/ (i - 1 \in 1..Len(p) /\ p[i - 1] = futures[i])
  BY <1>1, <1>4
<1>7. /\ \A i, j \in 1..Len(futures) : i < j => futures[i] < futures[j]
      /\ \A i \in 1..Len(futures) : outcome[futures[i]] = "pending"
      /\ \A d \in Calls : outcome[d] = "pending" => \E i \in 1..Len(futures) : futures[i] = d
      /\ \A d \in Calls : outcome[d] = "pending" /\ call[d].kind # "step" => goal = d /\ d = n
  BY Zenon DEF ExecInv, FuturesSound
<1>8. \A i \in 1..Len(p) : p[i] \in Calls /\ c < p[i] /\ p[i] # c /\ outcome[p[i]] = "pending"
  <2>1. \A i \in 1..Len(p) : p[i] = futures[i + 1] /\ i + 1 \in 1..Len(futures) /\ 1 < i + 1
    BY <1>1, <1>4
  <2>2. \A i \in 1..Len(p) : p[i] \in Calls /\ c < p[i] /\ outcome[p[i]] = "pending"
    BY <1>1, <1>2, <1>7, <2>1, SMTT(30)
  <2>3. \A x \in Calls : c < x => x # c
    BY <1>5, CallNumbers
  <2>4. QED
    BY <2>2, <2>3, Zenon
<1>9. FuturesSound'
  <2>1. \A i, j \in 1..Len(p) : i < j => p[i] < p[j]
    <3>1. ASSUME NEW i \in 1..Len(p), NEW j \in 1..Len(p), i < j PROVE p[i] < p[j]
      <4>1. i + 1 \in 1..Len(futures) /\ j + 1 \in 1..Len(futures) /\ i + 1 < j + 1
            /\ p[i] = futures[i + 1] /\ p[j] = futures[j + 1]
        BY <1>1, <1>4, <3>1
      <4>2. QED
        BY <1>7, <4>1, ZenonT(30)
    <3>2. QED
      BY <3>1, Zenon
  <2>2. \A i \in 1..Len(p) : outcome'[p[i]] = "pending"
    BY <1>5, <1>8, Zenon
  <2>3. \A d \in Calls : outcome'[d] = "pending" => d # c /\ outcome[d] = "pending"
    BY <1>5, Zenon
  <2>4. \A d \in Calls : outcome'[d] = "pending" => \E i \in 1..Len(p) : p[i] = d
    <3>1. ASSUME NEW d \in Calls, outcome'[d] = "pending" PROVE \E i \in 1..Len(p) : p[i] = d
      <4>1. PICK i \in 1..Len(futures) : futures[i] = d
        BY <1>7, <2>3, <3>1, Zenon
      <4>2. i # 1
        BY <1>2, <2>3, <3>1, <4>1, Zenon
      <4>3. QED
        BY <1>6, <4>1, <4>2, Zenon
    <3>2. QED
      BY <3>1, Zenon
  <2>5. QED
    BY <1>3, <1>7, <2>1, <2>2, <2>3, <2>4, Zenon DEF FuturesSound
<1>10. ASSUME p # <<>>
       PROVE  /\ p[1] \in Calls /\ p[1] # c /\ c < p[1] /\ outcome[p[1]] = "pending" /\ p[1] = futures[2]
              /\ left' = Mqs(p[1]) /\ call[c].kind = "step"
  <2>1. 1 \in 1..Len(p) /\ p[1] = futures[2]
    BY <1>1, <1>4, <1>10
  <2>2. p[1] \in Calls /\ p[1] # c /\ c < p[1] /\ outcome[p[1]] = "pending"
    BY <1>8, <2>1, Zenon
  <2>3. left' = Mqs(p[1])
    BY <1>3, <1>10, <2>1, Zenon DEF Mqs
  <2>4. ~(p[1] > n)
    BY <2>2, Zenon DEF ExecInv, ExecOrder
  <2>5. c # n
    BY <1>5, <2>2, <2>4, CallNumbers, EngineTypes, Zenon DEF ExecInv
  <2>6. QED
    BY <1>5, <1>7, <2>1, <2>2, <2>3, <2>5, Zenon
<1>11. ASSUME NEW w \in Ranks PROVE Owed(w)' = Owed(w) \ {c}
  <2>1. ASSUME NEW d \in Calls PROVE d \in Owed(w)' <=> d \in Owed(w) \ {c}
    <3>1. Asked(w, d)' = Asked(w, d)
      BY Zenon DEF Asked
    <3>2. CASE outcome'[d] # "pending"
      BY <1>5, <2>1, <3>2, Zenon DEF Owed
    <3>3. CASE outcome'[d] = "pending"
      <4>1. d # c /\ outcome[d] = "pending"
        BY <1>5, <3>3, Zenon
      <4>2. d \in Owed(w) <=> Asked(w, d)
        BY <1>2, <4>1, Zenon DEF Owed
      <4>3. ASSUME d = futures'[1], Asked(w, d) PROVE \E i \in 1..Len(left') : left'[i] = w
        <5>1. p # <<>>
          <6>1. PICK i \in 1..Len(p) : p[i] = d
            BY <1>3, <1>9, <3>3, Zenon DEF FuturesSound
          <6>2. QED
            BY <6>1
        <5>2. left' = ResponseMqs(call[d].kind)
          BY <1>3, <1>10, <4>3, <5>1, Zenon DEF Mqs
        <5>3. QED
          BY <4>3, <5>2, MqsRead DEF Asked
      <4>4. QED
        BY <3>1, <3>3, <4>1, <4>2, <4>3, Zenon DEF Owed
    <3>4. QED
      BY <3>2, <3>3, Zenon
  <2>2. Owed(w) \subseteq Calls /\ Owed(w)' \subseteq Calls
    BY Zenon DEF Owed, Calls
  <2>3. QED
    BY <2>1, <2>2, Zenon
<1>12. left' \in Seq(Ranks)
  BY <1>3, MqsRead
<1>13. QED
  BY <1>2, <1>3, <1>4, <1>9, <1>10, <1>11, <1>12, Zenon

\* What reading a reply does to the calls owed: the oldest is off the books of
\* the rank it was read from, and the ranks left unread are not followed.
LEMMA DequeueOwed ==
  ASSUME Deployed, ExecInv, Dequeue, futures # <<>>,
         NEW w \in Followed
  PROVE  Owed(w)' = IF w = left[1] THEN Owed(w) \ {futures[1]} ELSE Owed(w)
<1>1. PICK c, v, k : c = futures[1] /\ v = left[1] /\ k = Len(results[futures[1]])
  BY Zenon
<1>2. /\ c \in Calls /\ v \in Ranks /\ Head(futures) = c /\ Head(left) = v /\ c \in Owed(v)
      /\ outcome[c] = "pending" /\ left # <<>> /\ w \in Ranks /\ k \in Nat
  BY <1>1, WaitedFor, EngineTypes, Zenon DEF Followed, ExecInv
<1>3. /\ \A i \in 1..Len(left) : left[i] = Mqs(c)[k + i]
      /\ k + Len(left) = Len(Mqs(c)) /\ Len(left) \in Nat /\ Len(left) >= 1 /\ Len(Mqs(c)) \in Nat
  <2>1. Len(left) \in Nat /\ Len(left) >= 1
    BY <1>2, EngineTypes, Zenon DEF ExecInv
  <2>2. QED
    BY <1>1, <1>2, <2>1 DEF ExecInv, ReadSoFar
<1>4. /\ \A i, j \in 1..Len(Mqs(c)) : Mqs(c)[i] = Mqs(c)[j] => i = j
      /\ \A i \in 1..Len(Mqs(c)) : Mqs(c)[i] = 1 => i = 1
  BY MqsRead, Zenon DEF Mqs
<1>5. \A i \in 1..Len(left) : left[i] = v => i = 1
  <2>1. \A i \in 1..Len(left) : k + i \in 1..Len(Mqs(c)) /\ (k + i = k + 1 => i = 1)
    BY <1>2, <1>3
  <2>2. 1 \in 1..Len(left)
    BY <1>3
  <2>3. QED
    BY <1>1, <1>3, <1>4, <2>1, <2>2, SMTT(30)
<1>6. call' = call /\ goal' = goal /\ n' = n
  BY Zenon DEF Dequeue
<1>7. CASE outcome' = outcome /\ futures' = futures /\ left' = Tail(left)
  <2>1. /\ \A i \in 1..Len(left') : left'[i] = left[i + 1] /\ i + 1 \in 1..Len(left) /\ i + 1 # 1
        /\ \A i \in 1..Len(left) : i = 1 \/ (i - 1 \in 1..Len(left') /\ left'[i - 1] = left[i])
    <3>1. left \in Seq(Ranks)
      BY EngineTypes, Zenon DEF ExecInv
    <3>2. QED
      BY <1>2, <1>3, <1>7, <3>1
  <2>2. \A d : Asked(w, d)' = Asked(w, d)
    BY <1>6, Zenon DEF Asked
  <2>3. (\E i \in 1..Len(left') : left'[i] = w) <=> w # v /\ \E i \in 1..Len(left) : left[i] = w
    <3>1. ASSUME NEW i \in 1..Len(left'), left'[i] = w
          PROVE  w # v /\ \E j \in 1..Len(left) : left[j] = w
      BY <1>5, <2>1, <3>1, ZenonT(30)
    <3>2. ASSUME w # v, NEW i \in 1..Len(left), left[i] = w
          PROVE  \E j \in 1..Len(left') : left'[j] = w
      <4>1. i # 1
        BY <1>1, <3>2, Zenon
      <4>2. QED
        BY <2>1, <3>2, <4>1, Zenon
    <3>3. QED
      BY <3>1, <3>2, Zenon
  <2>4. QED
    BY <1>1, <1>2, <1>7, <2>2, <2>3, Zenon DEF Owed
<1>8. CASE \E how \in {"ok", "worker_failed"} :
             Complete(how) /\ (how = "ok" => Len(left) = 1)
                                /\ (how = "worker_failed" => MaxFails # 0)
  <2>1. Owed(w)' = Owed(w) \ {c}
    BY <1>1, <1>2, <1>6, <1>8, CompleteStep, Zenon
  <2>2. ASSUME w # v, c \in Owed(w) PROVE FALSE
    <3>1. PICK i \in 1..Len(left) : left[i] = w
      BY <1>1, <2>2, Zenon DEF Owed
    <3>2. i # 1
      BY <1>1, <2>2, <3>1, Zenon
    <3>3. MaxFails # 0
      BY <1>3, <1>8, <3>2
    <3>4. w = 1 /\ k + i \in 1..Len(Mqs(c)) /\ k + i # 1
      BY <1>2, <1>3, <3>2, <3>3 DEF Followed
    <3>5. QED
      BY <1>3, <1>4, <3>1, <3>4, Zenon
  <2>3. QED
    BY <1>1, <2>1, <2>2, Zenon
<1>9. MaxFails # 0 \/ Head(response_mq[v]).ok
  <2>1. response_mq[v] \in Seq(Reply) /\ Fine(response_mq[v]) /\ response_mq[v] # <<>>
    BY <1>2, Zenon DEF Dequeue, ExecInv, ExecTypes, Raised
  <2>2. QED
    BY <2>1, CallNumbers, RepliesTail, Zenon
<1>10. QED
  BY <1>2, <1>7, <1>8, <1>9, Zenon DEF Dequeue

\* A reply is read for the oldest future.
LEMMA DequeueInv == ASSUME Deployed, ExecInv, Dequeue PROVE ExecInv'
<1>1. futures # <<>>
  BY SomeFuture, Zenon DEF Dequeue
<1>2. PICK c, v, q, k : c = futures[1] /\ v = left[1] /\ q = response_mq[v] /\ k = Len(results[c])
  BY Zenon
<1>3. /\ c \in Calls /\ v \in Ranks /\ Head(futures) = c /\ Head(left) = v /\ c \in Owed(v)
      /\ outcome[c] = "pending" /\ left # <<>> /\ k \in Nat /\ results[c] \in Seq(Calls)
      /\ left \in Seq(Ranks) /\ Len(left) \in Nat /\ Len(left) >= 1
  BY <1>1, <1>2, WaitedFor, EngineTypes, Zenon DEF ExecInv
<1>4. PICK r : r = Head(q)
  BY Zenon
<1>5. /\ q # <<>> /\ response_mq' = [response_mq EXCEPT ![v] = Tail(q)]
      /\ UNCHANGED <<n, call, batch_queue, goal, stopped, rpc_broadcast_mq, busy, async_queue,
                     output_thread, fails, alive, monitor>>
      /\ IF r.ok
         THEN /\ results' = [results EXCEPT ![c] = Append(results[c], r.call)]
              /\ IF Len(left) = 1 THEN Complete("ok")
                 ELSE left' = Tail(left) /\ outcome' = outcome /\ futures' = futures
         ELSE Complete("worker_failed") /\ results' = results
  BY <1>2, <1>3, <1>4, Zenon DEF Dequeue
<1>6. q \in Seq(Reply) /\ Calls \subseteq Nat \ {0} /\ Fine(q)
  BY <1>2, <1>3, CallNumbers, Zenon DEF ExecInv, ExecTypes, Raised
<1>7. /\ Tail(q) \in Seq(Reply) /\ r \in Reply /\ r.call \in Calls /\ r.ok \in BOOLEAN
      /\ Answered(q) = {r.call} \cup Answered(Tail(q))
      /\ RisingReplies(q) => RisingReplies(Tail(q)) /\ \A y \in Answered(Tail(q)) : r.call < y
      /\ Fine(Tail(q)) /\ (r.ok \/ MaxFails # 0)
  BY <1>4, <1>5, <1>6, RepliesTail, Zenon DEF Reply
<1>8. /\ response_mq'[v] = Tail(q) /\ response_mq' \in [Ranks -> Seq(Reply)]
      /\ \A w \in Ranks \ {v} : response_mq'[w] = response_mq[w]
  BY <1>3, <1>5, <1>7, Zenon DEF ExecInv, ExecTypes
<1>9. v \in Followed => r.call = c
  BY <1>1, <1>2, <1>4, <1>5, RightReply, Zenon
<1>10. \/ /\ r.ok /\ Len(left) = 1 /\ Complete("ok")
       \/ ~r.ok /\ Complete("worker_failed")
       \/ /\ r.ok /\ Len(left) > 1
          /\ left' = Tail(left) /\ outcome' = outcome /\ futures' = futures
  <2>6. PICK m : m = Len(left)
    BY Zenon
  <2>7. m \in Nat /\ m >= 1
    BY <1>3, <2>6, Zenon
  <2>8. (m = 1 \/ m > 1) /\ ~(m = 1 /\ m > 1)
    BY <2>7
  <2>1. (Len(left) = 1 \/ Len(left) > 1) /\ ~(Len(left) = 1 /\ Len(left) > 1)
    BY <2>6, <2>8, Zenon
  <2>2. CASE ~r.ok
    <3>1. Complete("worker_failed")
      BY <1>5, <2>2, Zenon
    <3>2. QED
      BY <2>2, <3>1, Zenon
  <2>3. CASE r.ok /\ Len(left) = 1
    <3>1. Complete("ok")
      BY <1>5, <2>3, Zenon
    <3>2. QED
      BY <2>3, <3>1, Zenon
  <2>4. CASE r.ok /\ Len(left) > 1
    <3>1. Len(left) # 1
      BY <2>1, <2>4, Zenon
    <3>2. left' = Tail(left) /\ outcome' = outcome /\ futures' = futures
      BY <1>5, <2>4, <3>1, Zenon
    <3>3. QED
      BY <2>4, <3>2, Zenon
  <2>5. QED
    BY <2>1, <2>2, <2>3, <2>4, Zenon
<1>11. FuturesSound' /\ futures' \in Seq(Calls) /\ left' \in Seq(Ranks)
       /\ outcome' \in [Calls -> {"none", "pending", "ok", "worker_failed", "cancelled", "executor_failed"}]
  <2>1. CASE \E how \in {"ok", "worker_failed"} : Complete(how)
    <3>1. /\ FuturesSound' /\ futures' \in Seq(Calls) /\ left' \in Seq(Ranks)
          /\ \E how \in {"ok", "worker_failed"} : outcome' = [outcome EXCEPT ![c] = how]
      BY <1>1, <1>2, <1>5, <2>1, CompleteStep, Zenon
    <3>2. QED
      BY <3>1, ZenonT(30) DEF ExecInv, ExecTypes
  <2>2. CASE left' = Tail(left) /\ outcome' = outcome /\ futures' = futures
    <3>1. FuturesSound'
      BY <1>5, <2>2, Zenon DEF ExecInv, FuturesSound
    <3>2. left' \in Seq(Ranks)
      BY <1>3, <2>2
    <3>3. QED
      BY <2>2, <3>1, <3>2, Zenon DEF ExecInv, ExecTypes
  <2>3. QED
    BY <1>10, <2>1, <2>2, Zenon
<1>12. /\ results' \in [Calls -> Seq(Calls)]
       /\ \A d \in Calls : d # c => results'[d] = results[d]
       /\ r.ok => /\ Len(results'[c]) = k + 1 /\ results'[c][k + 1] = r.call
                  /\ \A i \in 1..k : results'[c][i] = results[c][i]
  <2>1. results \in [Calls -> Seq(Calls)]
    BY Zenon DEF ExecInv, ExecTypes
  <2>2. /\ Append(results[c], r.call) \in Seq(Calls) /\ Len(Append(results[c], r.call)) = k + 1
        /\ Append(results[c], r.call)[k + 1] = r.call
        /\ \A i \in 1..k : Append(results[c], r.call)[i] = results[c][i]
    BY <1>2, <1>3, <1>7
  <2>3. QED
    BY <1>3, <1>5, <2>1, <2>2, Zenon
<1>13. ExecTypes'
  BY <1>5, <1>8, <1>11, <1>12, Zenon DEF ExecInv, ExecTypes
<1>14. Raised'
  BY <1>5, <1>7, <1>8, Zenon DEF ExecInv, Raised
<1>15. /\ Replied(v) = {r.call} \cup Replied(v)'
       /\ \A w \in Ranks : Replied(w)' \subseteq Replied(w) /\ Waits(w)' = Waits(w) /\ Runs(w)' = Runs(w) /\ Sent(w)' = Sent(w)
  BY <1>2, <1>5, <1>7, <1>8, Zenon DEF Replied, Waits, Runs, Sent
<1>16. /\ \A d \in Calls : d # c => outcome'[d] = outcome[d]
       /\ outcome'[c] = (IF ~r.ok THEN "worker_failed" ELSE IF Len(left) = 1 THEN "ok" ELSE "pending")
  <2>1. DOMAIN outcome = Calls
    BY Zenon DEF ExecInv, ExecTypes
  <2>2. \/ r.ok /\ Len(left) # 1 /\ outcome' = outcome
        \/ r.ok /\ Len(left) = 1 /\ outcome' = [outcome EXCEPT ![c] = "ok"]
        \/ ~r.ok /\ outcome' = [outcome EXCEPT ![c] = "worker_failed"]
    BY <1>1, <1>2, <1>3, <1>5, <1>10, CompleteStep, Zenon
  <2>3. QED
    BY <1>3, <2>1, <2>2, Zenon
<1>20. ExecOrder'
  <2>1. \A d \in Calls : d > n => d # c
    BY <1>3, Zenon DEF ExecInv, ExecOrder
  <2>2. QED
    BY <1>5, <1>15, <1>16, <2>1, ZenonT(30) DEF ExecInv, ExecOrder
<1>17. ReadSoFar'
  <2>1. /\ k + Len(left) = Len(Mqs(c)) /\ \A i \in 1..Len(left) : left[i] = Mqs(c)[k + i]
        /\ \A i \in 1..k : Mqs(c)[i] \in Followed => results[c][i] = c
        /\ \A d \in Calls : outcome[d] \in {"none", "pending"} /\ d # c => results[d] = <<>>
    BY <1>1, <1>2, <1>3, Zenon DEF ExecInv, ReadSoFar
  <2>2. \A d : Mqs(d)' = Mqs(d)
    BY <1>5, Zenon DEF Mqs, ResponseMqs
  <2>3. outcome'[c] = "pending" => futures' = futures
    BY <1>10, <1>16, Zenon
  <2>4. \A d \in Calls :
          outcome'[d] \in {"none", "pending"} /\ (futures' = <<>> \/ d # futures'[1]) => results'[d] = <<>>
    <3>1. ASSUME NEW d \in Calls, outcome'[d] \in {"none", "pending"},
                 futures' = <<>> \/ d # futures'[1]
          PROVE  results'[d] = <<>>
      <4>1. CASE d = c
        <5>1. outcome'[c] = "pending"
          BY <1>16, <3>1, <4>1, Zenon
        <5>2. QED
          BY <1>1, <1>2, <2>3, <3>1, <4>1, <5>1, Zenon
      <4>2. CASE d # c
        <5>1. outcome'[d] = outcome[d] /\ results'[d] = results[d]
          BY <1>12, <1>16, <4>2, Zenon
        <5>2. QED
          BY <2>1, <3>1, <4>2, <5>1, Zenon
      <4>3. QED
        BY <4>1, <4>2, Zenon
    <3>2. QED
      BY <3>1, Zenon
  <2>5. ASSUME r.ok
        PROVE  \A i \in 1..Len(results'[c]) : Mqs(c)[i] \in Followed => results'[c][i] = c
    <3>1. ASSUME NEW i \in 1..Len(results'[c]), Mqs(c)[i] \in Followed PROVE results'[c][i] = c
      <4>1. i \in 1..k \/ i = k + 1
        BY <1>3, <1>12, <2>5
      <4>2. CASE i \in 1..k
        BY <1>12, <2>1, <2>5, <3>1, <4>2, Zenon
      <4>3. CASE i = k + 1
        <5>1. 1 \in 1..Len(left)
          BY <1>3
        <5>2. Mqs(c)[i] = v
          BY <1>2, <2>1, <4>3, <5>1, Zenon
        <5>3. QED
          BY <1>9, <1>12, <2>5, <3>1, <4>3, <5>2, Zenon
      <4>4. QED
        BY <4>1, <4>2, <4>3, Zenon
    <3>2. QED
      BY <3>1, Zenon
  <2>6. \A d \in Calls : outcome'[d] = "ok" => Len(results'[d]) = Len(Mqs(d))
    <3>1. outcome'[c] = "ok" => Len(results'[c]) = Len(Mqs(c))
      BY <1>12, <1>16, <2>1, Zenon
    <3>2. QED
      BY <1>12, <1>16, <3>1 DEF ExecInv, ReadSoFar
  <2>7. \A d \in Calls : outcome'[d] \in {"pending", "ok"} =>
          \A i \in 1..Len(results'[d]) : Mqs(d)[i] \in Followed => results'[d][i] = d
    <3>1. ASSUME NEW d \in Calls, d # c, outcome'[d] \in {"pending", "ok"},
                 NEW i \in 1..Len(results'[d]), Mqs(d)[i] \in Followed
          PROVE  results'[d][i] = d
      <4>1. results'[d] = results[d] /\ outcome[d] \in {"pending", "ok"}
        BY <1>12, <1>16, <3>1, Zenon
      <4>2. QED
        BY <3>1, <4>1, Zenon DEF ExecInv, ReadSoFar
    <3>2. outcome'[c] \in {"pending", "ok"} => r.ok
      BY <1>16, Zenon
    <3>3. QED
      BY <2>5, <3>1, <3>2, Zenon
  <2>8. PICK h : h = futures'[1]
    BY Zenon
  <2>9. ASSUME futures' # <<>>
        PROVE  /\ left' # <<>> /\ Len(results'[h]) + Len(left') = Len(Mqs(h))
               /\ \A i \in 1..Len(left') : left'[i] = Mqs(h)[Len(results'[h]) + i]
    <3>1. CASE \E how \in {"ok", "worker_failed"} : Complete(how)
      <4>1. h \in Calls /\ h # c /\ outcome[h] = "pending" /\ left' = Mqs(h)
        BY <1>1, <1>2, <1>5, <2>8, <2>9, <3>1, CompleteStep, Zenon
      <4>2. PICK M : M = Mqs(h)
        BY Zenon
      <4>3. M \in Seq(Ranks) /\ Len(M) \in Nat /\ M # <<>>
        BY <4>2, MqsRead DEF Mqs
      <4>4. Len(results'[h]) = 0
        <5>1. results'[h] = <<>>
          BY <1>12, <2>1, <4>1, Zenon
        <5>2. QED
          BY <5>1
      <4>5. QED
        BY <4>1, <4>2, <4>3, <4>4
    <3>2. CASE r.ok /\ Len(left) > 1 /\ left' = Tail(left) /\ futures' = futures
      <4>1. h = c /\ Len(results'[h]) = k + 1
        BY <1>2, <1>12, <2>8, <3>2, Zenon
      <4>2. /\ left' # <<>> /\ Len(left') = Len(left) - 1
            /\ \A i \in 1..Len(left') : left'[i] = left[i + 1] /\ i + 1 \in 1..Len(left)
        <5>1. PICK L : L = left
          BY Zenon
        <5>2. L \in Seq(Ranks) /\ Len(L) > 1
          BY <1>3, <3>2, <5>1, Zenon
        <5>3. /\ Tail(L) # <<>> /\ Len(Tail(L)) = Len(L) - 1
              /\ \A i \in 1..Len(Tail(L)) : Tail(L)[i] = L[i + 1] /\ i + 1 \in 1..Len(L)
          <6>1. Len(Tail(L)) = Len(L) - 1 /\ Len(L) \in Nat
            BY <5>2
          <6>2. \A i \in 1..Len(Tail(L)) : i + 1 \in 1..Len(L)
            BY <6>1
          <6>3. ASSUME NEW i \in 1..Len(Tail(L)) PROVE Tail(L)[i] = L[i + 1]
            BY <5>2, <6>1, <6>3
          <6>4. Tail(L) # <<>>
            <7>1. PICK m : m = Len(L)
              BY ZenonT(30)
            <7>2. m \in Nat /\ m > 1 /\ Len(Tail(L)) = m - 1
              BY <5>2, <6>1, <7>1, Zenon
            <7>3. m - 1 # 0
              BY <7>2
            <7>4. Len(<<>>) = 0
              BY Zenon
            <7>5. QED
              BY <7>2, <7>3, <7>4, Zenon
          <6>5. QED
            BY <6>1, <6>2, <6>3, <6>4, Zenon
        <5>4. QED
          BY <3>2, <5>1, <5>3, Zenon
      <4>3. \A i \in 1..Len(left') : k + (i + 1) = (k + 1) + i
        BY <1>3, <4>2
      <4>4. k + 1 + (Len(left) - 1) = k + Len(left)
        BY <1>3
      <4>5. QED
        BY <2>1, <4>1, <4>2, <4>3, <4>4
    <3>3. QED
      BY <1>10, <3>1, <3>2, Zenon
  <2>10. QED
    BY <2>2, <2>4, <2>6, <2>7, <2>8, <2>9, Zenon DEF ReadSoFar, Followed
<1>18. ASSUME NEW w \in Followed PROVE Oldest(w)' /\ (Works(w)' => InOrder(w)' /\ OnTheWay(w)')
  <2>1. Oldest(w) /\ (Works(w) => InOrder(w) /\ OnTheWay(w)) /\ w \in Ranks
    BY Zenon DEF ExecInv, Followed
  <2>2. Owed(w)' = IF w = v THEN Owed(w) \ {c} ELSE Owed(w)
    BY <1>1, <1>2, DequeueOwed, Zenon
  <2>3. Works(w)' => Works(w)
    BY <1>5, Zenon DEF Works
  <2>4. \A d : Asked(w, d)' = Asked(w, d)
    BY <1>5, Zenon DEF Asked
  <2>5. CASE w # v
    BY <1>1, <1>5, <1>8, <2>1, <2>2, <2>3, <2>4, <2>5, RankFrame, Zenon
  <2>6. CASE w = v
    <3>1. r.call = c
      BY <1>9, <2>6, Zenon
    <3>2. /\ RisingReplies(Tail(q)) /\ \A y \in Replied(v)' : c < y
          /\ Replied(v) \subseteq Owed(v)
          /\ \A x \in Replied(v), d \in Owed(v) : d < x => d \in Replied(v)
      BY <1>1, <1>2, <1>7, <1>8, <2>1, <2>6, <3>1, ZenonT(30) DEF Oldest, Replied
    <3>3. \A y \in Replied(v)' : y # c
      <4>1. \A y \in Calls : c < y => y # c
        BY <1>3, <1>6
      <4>2. Replied(v)' \subseteq Calls
        BY <1>15, <3>2, Zenon DEF Owed
      <4>3. QED
        BY <3>2, <4>1, <4>2, Zenon
    <3>4. Oldest(v)'
      BY <1>8, <1>15, <2>2, <2>6, <3>1, <3>2, <3>3, Zenon DEF Oldest
    <3>5. ASSUME InOrder(v), OnTheWay(v) PROVE InOrder(v)' /\ OnTheWay(v)'
      <4>1. InOrder(v)'
        BY <1>3, <1>5, <1>15, <3>5, Zenon DEF InOrder, Before
      <4>2. \A y \in Waits(v) \cup Runs(v) \cup Sent(v) : y # c
        <5>1. \A y \in Waits(v) \cup Runs(v) \cup Sent(v) : c < y /\ y \in Calls
          BY <1>3, <1>15, <3>1, <3>5, QueuedCalls, ZenonT(30) DEF InOrder, Before, ExecInv
        <5>2. \A y \in Calls : c < y => y # c
          BY <1>3, <1>6
        <5>3. QED
          BY <5>1, <5>2, Zenon
      <4>3. OnTheWay(v)'
        <5>1. /\ Waits(v)' = Waits(v) /\ Runs(v)' = Runs(v) /\ Sent(v)' = Sent(v)
              /\ Replied(v) = {c} \cup Replied(v)' /\ Owed(v)' = Owed(v) \ {c}
              /\ async_queue' = async_queue /\ \A d : Asked(v, d)' = Asked(v, d)
          BY <1>3, <1>5, <1>15, <2>2, <2>4, <2>6, <3>1, Zenon
        <5>2. Waits(v)' \subseteq Owed(v)'
          BY <3>5, <4>2, <5>1, Zenon DEF OnTheWay
        <5>3. \A d \in Runs(v)' \cup Sent(v)' : Asked(v, d)' => d \in Owed(v)'
          BY <3>5, <4>2, <5>1, Zenon DEF OnTheWay
        <5>4. Owed(v)' \subseteq Replied(v)' \cup Waits(v)' \cup Runs(v)' \cup Sent(v)'
          BY <3>5, <5>1, Zenon DEF OnTheWay
        <5>5. ~AsyncOutput => async_queue'[v] = <<>>
          BY <3>5, <5>1, Zenon DEF OnTheWay
        <5>6. QED
          BY <5>2, <5>3, <5>4, <5>5, Zenon DEF OnTheWay
      <4>4. QED
        BY <4>1, <4>3, Zenon
    <3>6. QED
      BY <2>1, <2>3, <2>6, <3>4, <3>5, Zenon
  <2>7. QED
    BY <2>5, <2>6, Zenon
<1>19. QED
  BY <1>11, <1>13, <1>14, <1>17, <1>18, <1>20, Zenon DEF ExecInv, Followed

\* The wait is cancelled once everybody is dead: replies are never read again,
\* or the queue left unread was the only one to read and is empty.
LEMMA GiveUpInv == ASSUME Deployed, ExecInv, GiveUp("cancelled") PROVE ExecInv'
<1>1. futures # <<>>
  BY SomeFuture, Zenon DEF GiveUp
<1>2. PICK c, v : c = futures[1] /\ v = left[1]
  BY Zenon
<1>3. /\ c \in Calls /\ v \in Ranks /\ Head(left) = v /\ outcome[c] = "pending" /\ Asked(v, c)
  BY <1>1, <1>2, WaitedFor, Zenon
<1>4. /\ Complete("cancelled") /\ response_mq[v] = <<>> /\ monitor = "done"
      /\ UNCHANGED <<n, call, results, batch_queue, goal>>
      /\ UNCHANGED <<rpc_broadcast_mq, busy, async_queue, response_mq, output_thread, fails, alive, monitor>>
  BY <1>3, Zenon DEF GiveUp, workers
<1>5. /\ FuturesSound' /\ futures' \in Seq(Calls) /\ left' \in Seq(Ranks)
      /\ outcome' = [outcome EXCEPT ![c] = "cancelled"]
      /\ \A w \in Ranks : Owed(w)' = Owed(w) \ {c}
      /\ futures' # <<>> => /\ futures'[1] \in Calls /\ futures'[1] # c
                            /\ outcome[futures'[1]] = "pending" /\ left' = Mqs(futures'[1])
                            /\ call[c].kind = "step"
  BY <1>1, <1>2, <1>4, CompleteStep, Zenon
<1>6. ExecTypes'
  <2>1. outcome' \in [Calls -> {"none", "pending", "ok", "worker_failed", "cancelled", "executor_failed"}]
    BY <1>5, ZenonT(30) DEF ExecInv, ExecTypes
  <2>2. QED
    BY <1>4, <1>5, <2>1, Zenon DEF ExecInv, ExecTypes
<1>7. Raised'
  BY <1>4, Zenon DEF ExecInv, Raised
<1>8. outcome'[c] = "cancelled" /\ \A d \in Calls : d # c => outcome'[d] = outcome[d]
  <2>1. DOMAIN outcome = Calls
    BY Zenon DEF ExecInv, ExecTypes
  <2>2. QED
    BY <1>3, <1>5, <2>1, Zenon
<1>9. \A w : Replied(w)' = Replied(w) /\ Waits(w)' = Waits(w) /\ Runs(w)' = Runs(w) /\ Sent(w)' = Sent(w)
  BY <1>4, Zenon DEF Replied, Waits, Runs, Sent
<1>10. ExecOrder'
  <2>1. \A d \in Calls : d > n => d # c
    BY <1>3, ZenonT(30) DEF ExecInv, ExecOrder
  <2>2. QED
    BY <1>4, <1>8, <1>9, <2>1, Zenon DEF ExecInv, ExecOrder
<1>11. ReadSoFar'
  <2>1. \A d : Mqs(d)' = Mqs(d)
    BY <1>4, Zenon DEF Mqs, ResponseMqs
  <2>2. \A d \in Calls : outcome[d] \in {"none", "pending"} /\ d # c => results[d] = <<>>
    BY <1>1, <1>2, Zenon DEF ExecInv, ReadSoFar
  <2>3. PICK h : h = futures'[1]
    BY Zenon
  <2>4. ASSUME futures' # <<>>
        PROVE  /\ left' # <<>> /\ Len(results[h]) + Len(left') = Len(Mqs(h))
               /\ \A i \in 1..Len(left') : left'[i] = Mqs(h)[Len(results[h]) + i]
    <3>1. h \in Calls /\ h # c /\ outcome[h] = "pending" /\ left' = Mqs(h)
      BY <1>5, <2>3, <2>4, Zenon
    <3>2. PICK M : M = Mqs(h)
      BY Zenon
    <3>3. M \in Seq(Ranks) /\ Len(M) \in Nat /\ M # <<>>
      BY <3>2, MqsRead DEF Mqs
    <3>4. results[h] = <<>>
      BY <2>2, <3>1, Zenon
    <3>5. Len(results[h]) = 0
      BY <3>4
    <3>6. QED
      BY <3>1, <3>2, <3>3, <3>5
  <2>5. \A d \in Calls : outcome'[d] \in {"none", "pending"} => results'[d] = <<>>
    BY <1>4, <1>8, <2>2, Zenon
  <2>6. /\ \A d \in Calls : outcome'[d] = "ok" => Len(results'[d]) = Len(Mqs(d))
        /\ \A d \in Calls : outcome'[d] \in {"pending", "ok"} =>
             \A i \in 1..Len(results'[d]) : Mqs(d)[i] \in Followed => results'[d][i] = d
    BY <1>4, <1>8, Zenon DEF ExecInv, ReadSoFar
  <2>7. QED
    BY <1>4, <2>1, <2>3, <2>4, <2>5, <2>6, ZenonT(30) DEF ReadSoFar, Followed
<1>12. ASSUME NEW w \in Followed PROVE Oldest(w)' /\ (Works(w)' => InOrder(w)' /\ OnTheWay(w)')
  <2>1. Oldest(w) /\ w \in Ranks
    BY Zenon DEF ExecInv, Followed
  <2>2. ~Works(w)'
    BY <1>4, <2>1, Zenon DEF Works, ExecInv, ExecOrder
  <2>3. Oldest(w)'
    <3>1. CASE futures' = <<>>
      BY <1>4, <2>1, <3>1, Zenon DEF Oldest
    <3>2. CASE futures' # <<>> /\ c \in Owed(w)
      <4>1. w = v
        BY <1>3, <1>5, <3>2, Zenon DEF Owed, Asked
      <4>2. Replied(w) = {}
        BY <1>4, <4>1 DEF Replied, Answered
      <4>3. QED
        BY <1>4, <1>9, <2>1, <4>2, Zenon DEF Oldest
    <3>3. CASE c \notin Owed(w)
      BY <1>1, <1>4, <1>5, <1>9, <2>1, <3>3, Zenon DEF Oldest
    <3>4. QED
      BY <3>1, <3>2, <3>3, Zenon
  <2>4. QED
    BY <2>2, <2>3, Zenon
<1>13. QED
  BY <1>5, <1>6, <1>7, <1>10, <1>11, <1>12, Zenon DEF ExecInv, Followed

\* Every step keeps the invariant.
LEMMA ExecNext == ASSUME Deployed, ExecInv, [Next]_vars PROVE ExecInv'
<1>1. CASE UNCHANGED vars
  <2>1. engine' = engine
    BY <1>1, Zenon DEF vars
  <2>2. UNCHANGED <<rpc_broadcast_mq, busy, async_queue, response_mq, output_thread, fails, alive, monitor>>
    BY <1>1, Zenon DEF vars, workers
  <2>3. /\ \A w : Owed(w)' = Owed(w) /\ \A c : Asked(w, c)' = Asked(w, c)
        /\ FuturesSound' /\ ReadSoFar'
    BY <2>1, WorkerFrame, Zenon
  <2>4. ExecTypes' /\ Raised'
    BY <2>1, <2>2, Zenon DEF ExecInv, ExecTypes, Raised, engine
  <2>5. ExecOrder'
    BY <2>1, <2>2, ZenonT(30) DEF ExecInv, ExecOrder, engine, Replied, Waits, Runs, Sent
  <2>6. ASSUME NEW w \in Followed PROVE Oldest(w)' /\ (Works(w)' => InOrder(w)' /\ OnTheWay(w)')
    <3>1. Oldest(w) /\ (Works(w) => InOrder(w) /\ OnTheWay(w))
      BY Zenon DEF ExecInv
    <3>2. (Works(w)' => Works(w)) /\ futures' = futures
      BY <2>1, <2>2, Zenon DEF Works, engine
    <3>3. QED
      BY <2>2, <2>3, <3>1, <3>2, RankFrame, Zenon
  <2>7. QED
    BY <2>3, <2>4, <2>5, <2>6, Zenon DEF ExecInv, Followed
<1>2. ASSUME NEW kind \in {"step", "utility"}, CallFails(kind) PROVE ExecInv'
  BY <1>2, CallFailsInv, Zenon
<1>3. CASE step_with_batch_queue
  <2>1. collective_rpc("step", TRUE, TRUE) /\ batch_queue' = Append(batch_queue, n')
    BY <1>3, ZenonT(30) DEF step_with_batch_queue
  <2>2. n' = n + 1 /\ n < MaxCalls
    BY <2>1, Zenon DEF collective_rpc
  <2>3. n' \in Calls /\ batch_queue \in Seq(Calls)
    BY <2>2, CallNumbers, EngineTypes DEF ExecInv
  <2>4. batch_queue' \in Seq(Calls)
    BY <2>1, <2>3
  <2>5. QED
    BY <2>1, <2>4, CollectiveRpcInv, Zenon
<1>4. ASSUME NEW timed \in {FALSE, Timeouts}, BlockingStep(timed) \/ UtilityCall(timed)
      PROVE  ExecInv'
  <2>1. timed \in BOOLEAN
    BY Zenon DEF Deployed
  <2>2. PICK kind \in {"step", "utility"} : collective_rpc(kind, timed, FALSE) /\ batch_queue' = batch_queue
    BY <1>4, Zenon DEF BlockingStep, UtilityCall
  <2>3. batch_queue' \in Seq(Calls)
    BY <2>2, EngineTypes, Zenon DEF ExecInv
  <2>4. QED
    BY <2>1, <2>2, <2>3, CollectiveRpcInv, Zenon
<1>5. CASE Result \/ Return \/ HandleExecutorFailed
  BY <1>5, EngineQuiet, Zenon
<1>6. CASE Dequeue
  BY <1>6, DequeueInv, Zenon
<1>7. CASE GiveUp("cancelled")
  BY <1>7, GiveUpInv, Zenon
<1>8. ~GiveUp("timeout")
  BY Zenon DEF GiveUp, Deployed
<1>9. ASSUME NEW w \in Ranks,
             Take(w) \/ async_output(w) \/ async_output_raises(w)
               \/ \E ok \in BOOLEAN : Run(w, ok)
      PROVE  ExecInv'
  BY <1>9, TakeInv, AsyncOutputInv, AsyncOutputRaisesInv, RunInv, Zenon
<1>10. CASE (\E w \in Ranks : Crash(w)) \/ Monitor
  BY <1>10, DeathInv, Zenon
<1>11. QED
  BY <1>1, <1>2, <1>3, <1>4, <1>5, <1>6, <1>7, <1>8, <1>9, <1>10, ZenonT(30) DEF Next, Waiting

\* The executor's invariant holds throughout.
LEMMA ExecAlways == ASSUME Deployed PROVE Spec => []ExecInv
<1>1. Init => ExecInv
  BY ExecInit, Zenon
<1>2. ExecInv /\ [Next]_vars => ExecInv'
  BY ExecNext, Zenon
<1>3. QED
  BY <1>1, <1>2, PTL DEF Spec

\* Whoever dies and whenever, as long as no method raises and no deadline passes,
\* every call returns the replies of all the workers it asked, computed for it.
THEOREM CallsGetTheirOwn ==
  ASSUME Deployed, MaxFails = 0
  PROVE  Spec => []OwnReplies
<1>1. ASSUME ExecInv PROVE OwnReplies
  <2>1. ASSUME NEW c \in Calls, outcome[c] = "ok"
        PROVE  results[c] = [i \in DOMAIN Mqs(c) |-> c]
    <3>1. /\ Len(results[c]) = Len(Mqs(c)) /\ results[c] \in Seq(Calls)
          /\ \A i \in 1..Len(results[c]) : Mqs(c)[i] \in Followed => results[c][i] = c
      BY <1>1, <2>1, EngineTypes, Zenon DEF ExecInv, ReadSoFar
    <3>2. Mqs(c) \in Seq(Ranks) /\ DOMAIN Mqs(c) = 1..Len(Mqs(c)) /\ \A i \in 1..Len(Mqs(c)) : Mqs(c)[i] \in Ranks
      <4>1. Mqs(c) \in Seq(Ranks)
        BY MqsRead, Zenon DEF Mqs
      <4>2. QED
        BY <4>1
    <3>3. Followed = Ranks
      BY Zenon DEF Followed
    <3>4. \A i \in 1..Len(results[c]) : results[c][i] = c
      BY <3>1, <3>2, <3>3, Zenon
    <3>5. QED
      BY <3>1, <3>2, <3>4
  <2>2. QED
    BY <2>1, Zenon DEF OwnReplies, Mqs
<1>2. QED
  BY <1>1, ExecAlways, PTL

\* Where the first rank answers the steps, a step gets its own output also after
\* client calls that failed on some worker, or when an output thread has ended.
THEOREM StepsGetTheirOwn ==
  ASSUME Deployed, OutputRank = 1
  PROVE  Spec => []StepReplies
<1>1. ASSUME ExecInv PROVE StepReplies
  <2>1. ASSUME NEW c \in Calls, outcome[c] = "ok", call[c].kind = "step"
        PROVE  results[c] = <<c>>
    <3>1. Mqs(c) = <<1>>
      BY <2>1, Zenon DEF Mqs, ResponseMqs
    <3>2. /\ Len(results[c]) = Len(Mqs(c)) /\ results[c] \in Seq(Calls)
          /\ \A i \in 1..Len(results[c]) : Mqs(c)[i] \in Followed => results[c][i] = c
      BY <1>1, <2>1, EngineTypes, Zenon DEF ExecInv, ReadSoFar
    <3>3. 1 \in Followed
      BY Zenon DEF Followed, Deployed
    <3>4. Len(results[c]) = 1 /\ results[c][1] = c
      BY <3>1, <3>2, <3>3
    <3>5. QED
      BY <3>2, <3>4
  <2>2. QED
    BY <2>1, Zenon DEF StepReplies
<1>2. QED
  BY <1>1, ExecAlways, PTL
=============================================================================
