---------------------------- MODULE ServeEngine ----------------------------
(***************************************************************************)
(* _Engine of serve.py: the lock that lets one generation at a time in,    *)
(* the abort event, and the single GPU thread that runs the generations    *)
(* handed to it while the lock's holder drains their text.                 *)
(*                                                                         *)
(* The holders are the HTTP threads of streaming chat completions, which   *)
(* are here, and the job worker, which is in JobServer.  The lock is       *)
(* released by whoever drains; the GPU thread knows nothing of it.         *)
(***************************************************************************)
EXTENDS Integers, SequencesExt

CONSTANTS Chats,      \* chat completion requests
          Worker,     \* the worker thread of _Jobs
          NoOne,      \* nobody
          MaxPieces   \* bound: pieces of text per generation (max_tokens)

ASSUME EngineConstants ==
    /\ Worker \notin Chats /\ NoOne \notin Chats \cup {Worker}
    /\ MaxPieces \in Nat

Callers == Chats \cup {Worker}

VARIABLES lock,    \* holder of engine.lock
          abort,   \* engine.abort
          gpu,     \* generations submitted to the GPU thread, the first one running
          chan,    \* caller -> what the pump has put in the queue of its generation
          at       \* caller -> its position in `with lock: generate(...)`

engineVars == <<lock, abort, gpu, chan, at>>

EngineInit ==
    /\ lock = NoOne /\ abort = FALSE /\ gpu = <<>>
    /\ chan = [x \in Callers |-> <<>>]
    /\ at = [x \in Callers |-> "off"]

Move(x, from, to) == at[x] = from /\ at' = [at EXCEPT ![x] = to]

\* Fault: the caller does not wait for the lock.
AcquireUnlocked(x) ==
    /\ Move(x, "wait", "clear")
    /\ lock' = x
    /\ UNCHANGED <<abort, gpu, chan>>

Acquire(x) ==
    /\ Move(x, "wait", "clear")
    /\ lock = NoOne /\ lock' = x
    /\ UNCHANGED <<abort, gpu, chan>>

\* generate: abort.clear, then a fresh queue and the pump for the GPU thread.
ClearAbort(x) ==
    /\ Move(x, "clear", "submit")
    /\ abort' = FALSE
    /\ UNCHANGED <<lock, gpu, chan>>

Submit(x) ==
    /\ Move(x, "submit", "drain")
    /\ gpu' = Append(gpu, [by |-> x, drained |-> TRUE, left |-> MaxPieces])
    /\ chan' = [chan EXCEPT ![x] = <<>>]
    /\ UNCHANGED <<lock, abort>>

\* _drain and the loop around it: a piece is passed on; the sentinel or an
\* exception ends the with block.
DrainPiece(x) ==
    /\ at[x] = "drain" /\ chan[x] # <<>> /\ Head(chan[x]) = "piece"
    /\ chan' = [chan EXCEPT ![x] = Tail(@)]
    /\ UNCHANGED <<lock, abort, gpu, at>>

DrainEnd(x) ==
    /\ at[x] = "drain" /\ chan[x] # <<>> /\ Head(chan[x]) \in {"end", "error"}
    /\ at' = [at EXCEPT ![x] = IF Head(chan[x]) = "end" THEN "ended" ELSE "failed"]
    /\ lock' = NoOne
    /\ chan' = [chan EXCEPT ![x] = <<>>]
    /\ UNCHANGED <<abort, gpu>>

Generating(x) == Acquire(x) \/ ClearAbort(x) \/ Submit(x) \/ DrainPiece(x) \/ DrainEnd(x)

-----------------------------------------------------------------------------
(* The GPU thread.                                                         *)

Running == Head(gpu)

\* What the pump puts for a queue nobody drains is lost.
Deliver(x) ==
    chan' = IF Running.drained THEN [chan EXCEPT ![Running.by] = Append(@, x)] ELSE chan

\* Fault: an aborted pump returns without its sentinel.
PumpPieceNoSentinel ==
    /\ gpu # <<>> /\ Running.left > 0
    /\ \/ /\ abort
          /\ UNCHANGED chan
          /\ gpu' = Tail(gpu)
       \/ /\ ~ abort
          /\ Deliver("piece")
          /\ gpu' = [gpu EXCEPT ![1].left = @ - 1]
    /\ UNCHANGED <<lock, abort, at>>

\* The next piece is there, and abort is looked at before it is put.
PumpPiece ==
    /\ gpu # <<>> /\ Running.left > 0
    /\ \/ /\ abort
          /\ Deliver("end")
          /\ gpu' = Tail(gpu)
       \/ /\ ~ abort
          /\ Deliver("piece")
          /\ gpu' = [gpu EXCEPT ![1].left = @ - 1]
    /\ UNCHANGED <<lock, abort, at>>

\* End of sequence, max_tokens or doom loop; or any exception.
PumpEnd ==
    /\ gpu # <<>>
    /\ \E x \in {"end", "error"} : Deliver(x)
    /\ gpu' = Tail(gpu)
    /\ UNCHANGED <<lock, abort, at>>

Pump == PumpPiece \/ PumpEnd

-----------------------------------------------------------------------------
(* A chat completion.                                                      *)

ChatRequest(c) ==
    /\ Move(c, "off", "wait")
    /\ UNCHANGED <<lock, abort, gpu, chan>>

\* The client is gone: writing the first event, before generate, or a piece
\* raises, the handler returns and the lock with it.  Nobody tells the pump.
\* (The events after the last piece are written under the lock as well; failing
\* there releases it like DrainEnd.)
Disconnect(c) ==
    /\ \/ Move(c, "clear", "gone")
       \/ Move(c, "drain", "gone") /\ chan[c] # <<>> /\ Head(chan[c]) = "piece"
    /\ lock' = NoOne
    /\ chan' = [chan EXCEPT ![c] = <<>>]
    /\ gpu' = [i \in DOMAIN gpu |-> [gpu[i] EXCEPT !.drained = @ /\ gpu[i].by # c]]
    /\ UNCHANGED abort

ChatStep(c) == ChatRequest(c) \/ Disconnect(c) \/ Generating(c)
-----------------------------------------------------------------------------
InLock(x) == at[x] \in {"clear", "submit", "drain", "wave"}

\* Types of the engine's state.
EngineTypeOK ==
    /\ lock \in Callers \cup {NoOne} /\ abort \in BOOLEAN
    /\ gpu \in Seq([by : Callers, drained : BOOLEAN, left : 0 .. MaxPieces])
    /\ chan \in [Callers -> Seq({"piece", "end", "error"})]
    /\ at \in [Callers -> {"off", "wait", "clear", "submit", "drain", "wave",
                           "ended", "failed", "gone"}]

\* One generation at a time: a generation whose text somebody still reads
\* belongs to the holder of the lock, there is at most one, and what it has put
\* is for that holder.  Only generations of clients that went away outlive
\* their lock.
OneGeneration ==
    /\ \A x \in Callers : InLock(x) <=> lock = x
    /\ \A i \in DOMAIN gpu : gpu[i].drained => gpu[i].by = lock /\ at[lock] = "drain"
    /\ \A i, j \in DOMAIN gpu : gpu[i].drained /\ gpu[j].drained => i = j
    /\ \A x \in Callers : chan[x] # <<>> => lock = x

\* Every chat that is waiting for the engine gets its answer's end, or has gone
\* away itself.
ChatsEnd ==
    \A c \in Chats : at[c] = "wait" ~> at[c] \in {"ended", "failed", "gone"}
=============================================================================
