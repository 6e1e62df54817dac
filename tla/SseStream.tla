----------------------------- MODULE SseStream -----------------------------
(***************************************************************************)
(* One chat answer of services/agent-api: the task of the runner emits     *)
(* frames into the bounded queue of an SSEEmitter (sse_emitter.py), and    *)
(* the response generator reads it, with heartbeats while it is empty, for *)
(* a client that may leave (http/streaming.py).  Everything runs on one    *)
(* event loop: an action is what happens between two suspensions.          *)
(*                                                                         *)
(* A frame is its sequence id; None in the queue is close()'s sentinel.    *)
(***************************************************************************)
EXTENDS Naturals, Sequences

CONSTANTS
  QueueSize,  (* max_queue_size                                            *)
  MaxFrames   (* bound: frames a runner emits before its terminal one      *)

(* SSEEmitter takes any size above 0.  With 1, close() would push the last *)
(* frame out; the routes use StreamSettings, whose size is 256.            *)
ASSUME StreamAssumption ==
  /\ QueueSize \in Nat /\ QueueSize >= 2
  /\ MaxFrames \in Nat

VARIABLES
  queue,     (* _queue                                                     *)
  sequence,  (* _sequence_id                                               *)
  closed,    (* _closed                                                    *)
  dropped,   (* _dropped                                                   *)
  runner,    (* the task of _invoke_runner                                 *)
  terminal,  (* id of its done or task_error frame, 0 before that          *)
  reader,    (* where the response generator is suspended                  *)
  client,    (* is the client still there                                  *)
  sent,      (* the ids handed to the client                               *)
  timedOut   (* the generator has left on a heartbeat timeout              *)

vars == <<queue, sequence, closed, dropped, runner, terminal, reader, client,
          sent, timedOut>>

None == 0

(* Fault: the bound is not enforced.                                       *)
Unbounded(q, x) == Append(q, x)

(* Fault: the newest frame gives way.                                      *)
DropNewest(q, x) ==
  Append(IF Len(q) < QueueSize THEN q ELSE SubSeq(q, 1, Len(q) - 1), x)

(* _enqueue: put_nowait, once the oldest item of a full queue is dropped.  *)
Put(q, x) == Append(IF Len(q) < QueueSize THEN q ELSE Tail(q), x)

(* Fault: the frame that gives way is not counted.                         *)
NotCounted(q) == 0
Lost(q) == IF Len(q) < QueueSize \/ Head(q) = None THEN 0 ELSE 1

(* Fault: the runner's task ends without closing the emitter.              *)
LeaveOpen(q, n) ==
  /\ queue' = q
  /\ dropped' = n
  /\ UNCHANGED closed

(* close, with q queued and n dropped: None is enqueued the first time.    *)
Close(q, n) ==
  /\ closed' = TRUE
  /\ queue' = IF closed THEN q ELSE Put(q, None)
  /\ dropped' = IF closed THEN n ELSE n + Lost(q)

(* Fault: the item stays in the queue.                                     *)
Peek(q) == q
Rest(q) == Tail(q)
-----------------------------------------------------------------------------
(* meta is queued before the runner's task exists.  In blocking mode there *)
(* is no reader.                                                           *)
Init ==
  /\ queue = <<1>>
  /\ sequence = 1
  /\ closed = FALSE
  /\ dropped = 0
  /\ runner = "running"
  /\ terminal = 0
  /\ reader \in {"sending", "none"}
  /\ client = "connected"
  /\ sent = <<>>
  /\ timedOut = FALSE

(* The runner, or a node of its graph, emits a frame.                      *)
EmitFrame ==
  /\ runner = "running" /\ sequence <= MaxFrames
  /\ sequence' = sequence + 1
  /\ queue' = Put(queue, sequence + 1)
  /\ dropped' = dropped + Lost(queue)
  /\ UNCHANGED <<closed, runner, terminal, reader, client, sent, timedOut>>

(* run_chat returns or raises: done or task_error, and close in finally.   *)
Finish ==
  /\ runner = "running"
  /\ runner' = "done"
  /\ sequence' = sequence + 1
  /\ terminal' = sequence + 1
  /\ Close(Put(queue, sequence + 1), dropped + Lost(queue))
  /\ UNCHANGED <<reader, client, sent, timedOut>>

(* The generator was cancelled in its await of the task, and so is it:     *)
(* CancelledError passes the except clauses and reaches finally.           *)
CancelRunner ==
  /\ runner = "running" /\ reader = "cancelled"
  /\ runner' = "done"
  /\ Close(queue, dropped)
  /\ UNCHANGED <<sequence, terminal, reader, client, sent, timedOut>>

(* queue.get returns: a frame to yield, or None, which ends the loop.      *)
Take ==
  /\ queue # <<>>
  /\ queue' = Rest(queue)
  /\ IF Head(queue) = None
       THEN reader' = "leaving" /\ UNCHANGED sent
       ELSE reader' = "sending" /\ sent' = Append(sent, Head(queue))
  /\ UNCHANGED <<sequence, closed, dropped, runner, terminal, client, timedOut>>

(* The transport has taken the last chunk; the loop goes on.               *)
Resume ==
  /\ reader = "sending"
  /\ \/ Take
     \/ /\ queue = <<>>
        /\ reader' = "waiting"
        /\ UNCHANGED <<queue, sequence, closed, dropped, runner, terminal,
                       client, sent, timedOut>>

Wake == reader = "waiting" /\ Take

(* wait_for raises TimeoutError: the queue is empty, or an item has come   *)
(* and the timer fired before the generator was resumed with it.           *)
Timeout ==
  /\ reader = "waiting"
  /\ reader' = IF closed THEN "leaving" ELSE "sending"
  /\ timedOut' = closed
  /\ UNCHANGED <<queue, sequence, closed, dropped, runner, terminal, client,
                 sent>>

(* The client leaves.  In its await of the queue iter_sse is cancelled and *)
(* closes the emitter; between two chunks the generator is only finalised. *)
Disconnect ==
  /\ client = "connected"
  /\ client' = "gone"
  /\ \/ reader = "waiting" /\ reader' = "cancelled" /\ Close(queue, dropped)
     \/ reader = "sending" /\ reader' = "leaving"
        /\ UNCHANGED <<queue, closed, dropped>>
  /\ UNCHANGED <<sequence, runner, terminal, sent, timedOut>>

(* _stream_generator: finally: await runner_task.                          *)
EndStream ==
  /\ reader \in {"leaving", "cancelled"} /\ runner = "done"
  /\ reader' = "ended"
  /\ UNCHANGED <<queue, sequence, closed, dropped, runner, terminal, client,
                 sent, timedOut>>

RunnerStep == EmitFrame \/ Finish \/ CancelRunner
ReaderStep == Resume \/ Wake \/ Timeout \/ EndStream

Next == RunnerStep \/ ReaderStep \/ Disconnect

Spec == Init /\ [][Next]_vars

(* Model and tool calls have timeouts, so run_chat ends; the transport     *)
(* takes a chunk or the client is gone.  Nobody has to leave.              *)
FairSpec == Spec /\ WF_vars(RunnerStep) /\ WF_vars(ReaderStep)
-----------------------------------------------------------------------------
(* Variables keep their types; the queue keeps its bound.                  *)
TypeOK ==
  /\ queue \in Seq(Nat) /\ Len(queue) <= QueueSize
  /\ sequence \in 1..(MaxFrames + 2)
  /\ closed \in BOOLEAN
  /\ dropped \in Nat
  /\ runner \in {"running", "done"}
  /\ terminal \in Nat
  /\ reader \in {"none", "sending", "waiting", "cancelled", "leaving", "ended"}
  /\ client \in {"connected", "gone"}
  /\ sent \in Seq(Nat)
  /\ timedOut \in BOOLEAN

(* close enqueues None once, so the queue never holds two.                 *)
Sentinels(q) == IF \E i \in 1..Len(q) : q[i] = None THEN 1 ELSE 0
FrameCount(q) == Len(q) - Sentinels(q)

(* Every frame is handed over, still queued, or counted by dropped_events: *)
(* the counter tells exactly the gaps in what a client gets.               *)
EveryFrameAccounted ==
  sequence = Len(sent) + FrameCount(queue) + dropped

SentinelAfter(q, i) ==
  IF \E j \in (i + 1)..Len(q) : q[j] = None THEN 1 ELSE 0

(* Back pressure loses the oldest frames: the queue holds an unbroken run  *)
(* of the newest ids, all of them newer than what was handed over.         *)
NewestKept ==
  /\ \A i \in 1..Len(queue) : queue[i] # None =>
       queue[i] + (Len(queue) - i) = sequence + SentinelAfter(queue, i)
  /\ \A k \in 1..Len(sent) : sent[k] + FrameCount(queue) <= sequence

(* A client that stayed, and whose stream ended, got the terminal frame    *)
(* last, however slow it was, unless a heartbeat timeout ended the stream. *)
TerminalDelivered ==
  reader = "ended" /\ client = "connected" /\ ~timedOut =>
    /\ terminal # 0
    /\ sent # <<>> /\ sent[Len(sent)] = terminal

(* Every stream ends: the generator neither waits for a runner that is     *)
(* gone nor sends heartbeats for ever.                                     *)
StreamEnds == reader # "none" ~> reader = "ended"

Stream == INSTANCE EventStream WITH
  LastFrame <- MaxFrames + 2,
  numbered <- sequence,
  received <- sent,
  open <- reader # "ended"

(* The stream is the lossy, ordered channel that clients may rely on.      *)
OrderedStream == Stream!Spec
-----------------------------------------------------------------------------
(* The inductive invariant.                                                *)

NoSentinel == \A i \in 1..Len(queue) : queue[i] # None
OneSentinel ==
  \A i, j \in 1..Len(queue) : queue[i] = None /\ queue[j] = None => i = j

(* Without a cancelled generator the emitter is open while the runner runs,*)
(* and then ends with the terminal frame and None.                         *)
OpenWhileRunning == NoSentinel /\ ~closed /\ terminal = 0

EndsWithTerminal ==
  /\ closed
  /\ terminal = sequence /\ terminal # 0
  /\ queue # <<>> /\ queue[Len(queue)] = None
  /\ \A i \in 1..(Len(queue) - 1) : queue[i] # None
  /\ IF Len(queue) = 1
       THEN sent # <<>> /\ sent[Len(sent)] = terminal
       ELSE queue[Len(queue) - 1] = terminal

Delivered == terminal # 0 /\ sent # <<>> /\ sent[Len(sent)] = terminal

ConnectedInv ==
  /\ reader # "cancelled"
  /\ reader \in {"sending", "waiting"} =>
       /\ ~timedOut
       /\ IF runner = "running" THEN OpenWhileRunning ELSE EndsWithTerminal
  /\ reader \in {"leaving", "ended"} =>
       runner = "done" /\ (timedOut \/ Delivered)

IInv ==
  /\ TypeOK
  /\ OneSentinel
  /\ ~closed => NoSentinel
  /\ runner = "running" => sequence <= MaxFrames + 1
  /\ EveryFrameAccounted
  /\ NewestKept
  /\ client = "connected" => ConnectedInv
-----------------------------------------------------------------------------
(* docs/interfaces/chat_response_rendering.md: a stream ends with done, or *)
(* with task_error, which clients treat as terminal (api_contracts.md).    *)
EndedMeansTerminal ==
  reader = "ended" /\ client = "connected" =>
    \E k \in 1..Len(sent) : sent[k] = terminal
=============================================================================
