----------------------------- MODULE ReadStream -----------------------------
(***************************************************************************)
(* Reading ahead in a large file of another node: the read stream of one   *)
(* open instance (common/src/read_stream/read_stream.cpp), its blocks of   *)
(* memory (buffer/mem_pool.h), and the calls of the store that use it      *)
(* (ReadFile, WriteFile and CloseTmpFiles of cuckoo_store.cpp).            *)
(*                                                                         *)
(* A ring of pipes holds one block of the file each.  Thread i fills pipe  *)
(* i with the blocks i, i + pipeNum, i + 2 pipeNum ... and the reader      *)
(* empties the pipes in turn.  A step is what a thread does under one hold *)
(* of a mutex, or between two atomic variables.                            *)
(*                                                                         *)
(* A file is counted in units.  A write changes the content everywhere and *)
(* leaves the size alone; a unit is known by its place and by the number   *)
(* of writes before it was read from the file.                             *)
(***************************************************************************)
EXTENDS Integers, Sequences, FiniteSets, SequencesExt

CONSTANTS
    Caller,        \* the threads of FUSE that use the file
    NoOne,
    QUEUE_SIZE,
    BlockSize,     \* CUCKOO_BLOCK_SIZE, in units
    PoolCapacity,  \* m_capacity of the memory pool
    Sizes,         \* bound: the sizes of the file
    ReadSizes,     \* bound: how much a call reads
    Budgets        \* bound: the calls, and the reads and allocations that fail

ASSUME CallerAssumption == NoOne \notin Caller
ASSUME BlockAssumption == {QUEUE_SIZE, BlockSize, PoolCapacity} \subseteq Nat \ {0}
ASSUME SizeAssumption == Sizes \subseteq Nat /\ ReadSizes \subseteq Nat
ASSUME BudgetAssumption == Budgets \subseteq [calls : [Caller -> Nat], faults : Nat, faulty : {FALSE}]

VARIABLES
    file,      \* currentSize, whether its node is this one, and its writes
    flags,     \* preReadStarted, preReadStopped and directReadFile
    serialReadEnd,
    fileMutex, pipeMutex,   \* who holds them
    stream,    \* stop, stopOffset, pipeNum and pipeIndex
    pipes,
    pusher,    \* the threads of StartPushThreaded
    pool,      \* the free blocks of MemPool, and m_size
    call,      \* what a caller does, or the outcome of what it did last
    seen,      \* the writes that every later read must show
    open,      \* "open", "closing" or "closed"
    budget     \* calls and faults left, and whether there was a fault

vars == <<file, flags, serialReadEnd, fileMutex, pipeMutex, stream, pipes, pusher, pool,
          call, seen, open, budget>>

Pipe == 0 .. QUEUE_SIZE - 1
Lesser(a, b) == IF a < b THEN a ELSE b
Blocks(n) == (n + BlockSize - 1) \div BlockSize
(* Bound: no offset is told apart from a larger one; stopOffset starts as -1,*)
(* the largest size_t.                                                       *)
Beyond == (CHOOSE n \in Sizes : \A m \in Sizes : m <= n) + 2 * QUEUE_SIZE * BlockSize
NoStop == Beyond + 1

EmptyPipe == [mem |-> FALSE, capacity |-> 0, size |-> 0, index |-> 0, stop |-> TRUE,
              data |-> <<>>, lock |-> "free"]
NoCall == [pc |-> "idle", op |-> "none", offset |-> 0, want |-> 0, data |-> <<>>,
           outcome |-> "none", must |-> 0, alone |-> TRUE, then |-> "none", at |-> 0]

Init ==
    /\ file \in [size : Sizes, local : BOOLEAN, writes : {0}]
    /\ flags = [started |-> FALSE, stopped |-> FALSE, direct |-> FALSE]
    /\ serialReadEnd = 0
    /\ fileMutex = NoOne /\ pipeMutex = NoOne
    /\ stream = [stop |-> TRUE, stopOffset |-> NoStop, num |-> 0, index |-> 0]
    /\ pipes = [i \in Pipe |-> EmptyPipe]
    /\ pusher = [i \in Pipe |-> [pc |-> "none", offset |-> 0, ret |-> 0]]
    /\ pool = [free |-> PoolCapacity - 1, size |-> 0]
    /\ call = [c \in Caller |-> NoCall]
    /\ seen = 0
    /\ open = "open"
    /\ budget \in Budgets

-----------------------------------------------------------------------------
Goto(c, l) == call' = [call EXCEPT ![c].pc = l]
Returns(c, data, outcome) ==
    call' = [call EXCEPT ![c] = [NoCall EXCEPT !.op = call[c].op, !.offset = call[c].offset,
                !.want = call[c].want, !.must = call[c].must, !.data = data, !.outcome = outcome]]
Fault == budget.faults > 0 /\ budget' = [budget EXCEPT !.faults = @ - 1, !.faulty = TRUE]

(* ReadFileLR: what the file holds from offset o on, unless the node and     *)
(* the storage both fail.                                                    *)
Readable(o, n) == IF o >= file.size THEN 0 ELSE Lesser(n, file.size - o)
Content(o, n) == [j \in 1 .. Readable(o, n) |-> [unit |-> o + j - 1, write |-> file.writes]]

(* A call of FUSE.  Whoever is in a call from now on is not alone in it.     *)
Enter(c, o, off, n, l, t) ==
    /\ open = "open" /\ call[c].pc = "idle" /\ budget.calls[c] > 0
    /\ budget' = [budget EXCEPT !.calls[c] = @ - 1]
    /\ call' = [d \in Caller |->
        IF d = c
        THEN [NoCall EXCEPT !.pc = l, !.op = o, !.offset = off, !.want = n, !.then = t,
                            !.must = seen, !.alone = \A e \in Caller : call[e].pc = "idle"]
        ELSE [call[d] EXCEPT !.alone = FALSE]]

(* Where a caller that reads on goes on.                                     *)
Position(c) == call[c].offset + Len(call[c].data)

(* ReadFile.  The first reader starts the stream; a file of this node is     *)
(* read directly.                                                            *)
ReadFile(c, off, n) ==
    /\ Enter(c, "read", off, n,
             IF flags.started THEN "toBuffer" ELSE IF file.local THEN "stop" ELSE "start",
             "toBuffer")
    /\ flags' = [flags EXCEPT !.started = TRUE]
    /\ UNCHANGED <<file, serialReadEnd, fileMutex, pipeMutex, stream, pipes, pusher, pool, seen,
                   open>>

(* MemPool::calloc takes what is free and allocates the rest.  If it cannot, *)
(* the free blocks it took are gone too.                                     *)
Calloc(num) == pool' = [free |-> pool.free - Lesser(pool.free, num), size |-> pool.size + num]
CallocFails(num) == pool' = [pool EXCEPT !.free = @ - Lesser(@, num)]
FreedUncounted(p) ==   \* mutant: m_size is not lowered
    IF p.mem /\ pool.size < PoolCapacity THEN [pool EXCEPT !.free = @ + 1] ELSE pool
(* MemPool::free of the block of a pipe, if it has one.                      *)
Freed(p) ==
    IF ~p.mem THEN pool
    ELSE [free |-> IF pool.size < PoolCapacity THEN pool.free + 1 ELSE pool.free,
          size |-> pool.size - 1]

(* Pipe::Init and Pipe::Destroy.                                             *)
PipeInit(p) ==
    IF p.mem THEN p
    ELSE [EmptyPipe EXCEPT !.mem = TRUE, !.capacity = BlockSize, !.size = BlockSize,
                           !.index = BlockSize, !.stop = FALSE]
Destroyed(p) == [EmptyPipe EXCEPT !.lock = p.lock]

(* ReadStream::Init, tried twice.  It has said that the stream runs when it  *)
(* finds no memory.  No pipe has a block yet.                                *)
StreamInit(c) ==
    /\ call[c].pc \in {"start", "restart"} /\ pipeMutex = NoOne
    /\ LET num == Lesser(Blocks(file.size), QUEUE_SIZE) IN
        /\ num > 0
        /\ stream' = [stream EXCEPT !.stop = FALSE, !.num = num]
        /\ Calloc(num)
        /\ pipes' = [i \in Pipe |-> IF i < num THEN PipeInit(pipes[i]) ELSE pipes[i]]
    /\ Goto(c, "launch")
    /\ UNCHANGED <<file, flags, serialReadEnd, fileMutex, pipeMutex, pusher, seen, open, budget>>
StreamInitFails(c) ==
    /\ call[c].pc \in {"start", "restart"} /\ pipeMutex = NoOne
    /\ LET num == Lesser(Blocks(file.size), QUEUE_SIZE) IN
        /\ stream' = [stream EXCEPT !.stop = FALSE, !.num = num]
        /\ CallocFails(num)
        /\ IF num = 0 THEN UNCHANGED budget ELSE Fault
    /\ Goto(c, IF call[c].pc = "start" THEN "restart" ELSE "toBuffer")
    /\ UNCHANGED <<file, flags, serialReadEnd, fileMutex, pipeMutex, pipes, pusher, seen, open>>

(* ReadStream::StartPushThreaded.                                            *)
StartPushThreaded(c) ==
    /\ call[c].pc = "launch" /\ pipeMutex = NoOne
    /\ pusher' = [i \in Pipe |-> IF i < stream.num
                                 THEN [pc |-> "loop", offset |-> i * BlockSize, ret |-> 0]
                                 ELSE pusher[i]]
    /\ Goto(c, "toBuffer")
    /\ UNCHANGED <<file, flags, serialReadEnd, fileMutex, pipeMutex, stream, pipes, pool, seen,
                   open, budget>>

-----------------------------------------------------------------------------
(* ReadToBuffer looks at the flag, and again when it has the mutex.  A read  *)
(* elsewhere than where the last one ended ends the stream.                  *)
ReadToBuffer(c) ==
    /\ call[c].pc = "toBuffer"
    /\ Goto(c, IF flags.direct THEN "random" ELSE "lockFile")
    /\ UNCHANGED <<file, flags, serialReadEnd, fileMutex, pipeMutex, stream, pipes, pusher, pool,
                   seen, open, budget>>
LockFile(c) ==
    /\ call[c].pc = "lockFile" /\ fileMutex = NoOne
    /\ fileMutex' = c
    /\ IF flags.direct \/ serialReadEnd # call[c].offset
       THEN call' = [call EXCEPT ![c].pc = "stop", ![c].then = "random"]
       ELSE Goto(c, "sequence")
    /\ UNCHANGED <<file, flags, serialReadEnd, pipeMutex, stream, pipes, pusher, pool, seen,
                   open, budget>>

(* RandomRead reads the file itself.                                         *)
RandomRead(c) ==
    /\ call[c].pc = "random"
    /\ Returns(c, Content(call[c].offset, call[c].want), "read")
    /\ UNCHANGED <<file, flags, serialReadEnd, fileMutex, pipeMutex, stream, pipes, pusher, pool,
                   seen, open, budget>>
RandomReadFails(c) ==
    /\ call[c].pc = "random" /\ Fault
    /\ Returns(c, <<>>, "failed")
    /\ UNCHANGED <<file, flags, serialReadEnd, fileMutex, pipeMutex, stream, pipes, pusher, pool,
                   seen, open>>

(* StopPreReadThreaded, and its caller goes on when it has ended.            *)
StopPreReadThreaded(c) ==
    /\ call[c].pc = "stop"
    /\ flags' = [flags EXCEPT !.stopped = TRUE, !.direct = TRUE]
    /\ Goto(c, "stopPush")
    /\ UNCHANGED <<file, serialReadEnd, fileMutex, pipeMutex, stream, pipes, pusher, pool, seen,
                   open, budget>>
Stopped(c) ==
    /\ call' = [call EXCEPT ![c].pc = call[c].then, ![c].then = "none", ![c].at = 0]
    /\ fileMutex' = IF fileMutex = c THEN NoOne ELSE fileMutex

(* ReadStream::StopPushThreaded takes the memory of one pipe after another.  *)
StopPushThreaded(c) ==
    /\ call[c].pc = "stopPush" /\ pipeMutex = NoOne
    /\ stream' = [stream EXCEPT !.stop = TRUE]
    /\ IF stream.num = 0
       THEN Stopped(c) /\ UNCHANGED pipeMutex
       ELSE /\ pipeMutex' = c
            /\ call' = [call EXCEPT ![c].pc = "destroy", ![c].at = 0]
            /\ UNCHANGED fileMutex
    /\ UNCHANGED <<file, flags, serialReadEnd, pipes, pusher, pool, seen, open, budget>>

NotifyPusherNot(i) == UNCHANGED pusher   \* mutant: nobody is woken
NotifyPusher(i) == pusher' = [pusher EXCEPT ![i].pc = IF @ = "asleep" THEN "lock" ELSE @]
Woken(i) == [c \in Caller |->
    IF call[c].pc = "asleep" /\ stream.index = i THEN [call[c] EXCEPT !.pc = "pop"] ELSE call[c]]
NotifyReader(i) == call' = Woken(i)

DestroyPipe(c) ==
    /\ call[c].pc = "destroy"
    /\ LET i == call[c].at IN
        /\ pipes[i].lock = "free"
        /\ pool' = Freed(pipes[i])
        /\ pipes' = [pipes EXCEPT ![i] = Destroyed(@)]
        /\ NotifyPusher(i)
        /\ IF i + 1 = stream.num
           THEN Stopped(c) /\ pipeMutex' = NoOne
           ELSE call' = [call EXCEPT ![c].at = @ + 1] /\ UNCHANGED <<fileMutex, pipeMutex>>
    /\ UNCHANGED <<file, flags, serialReadEnd, stream, seen, open, budget>>

-----------------------------------------------------------------------------
(* SequenceRead and ReadStream::WaitPop: pop from one pipe after another,    *)
(* until there is enough or the end.                                         *)
SequenceRead(c) ==
    /\ call[c].pc = "sequence" /\ pipeMutex = NoOne
    /\ pipeMutex' = c
    /\ Goto(c, "pop")
    /\ UNCHANGED <<file, flags, serialReadEnd, fileMutex, stream, pipes, pusher, pool, seen, open,
                   budget>>
EndSequence(c, outcome) ==
    /\ Returns(c, call[c].data, outcome)
    /\ serialReadEnd' = IF outcome = "failed" THEN serialReadEnd
                        ELSE serialReadEnd + Len(call[c].data)
    /\ pipeMutex' = NoOne /\ fileMutex' = NoOne
    /\ UNCHANGED <<file, flags, stream, pusher, seen, open, budget>>

Missing(c) == call[c].want - Len(call[c].data)
PopNoMore(c) ==
    /\ call[c].pc = "pop" /\ (stream.stop \/ Missing(c) = 0)
    /\ EndSequence(c, IF stream.stop THEN "stopped" ELSE "read")
    /\ UNCHANGED <<pipes, pool>>

(* Pipe::WaitPop, with the mutex of the pipe.                                *)
Popping(c) ==
    /\ call[c].pc = "pop" /\ ~stream.stop /\ Missing(c) > 0
    /\ pipes[stream.index].lock = "free"
AtEndWhenStopped(p) == p.size = 0 \/ (p.size > 0 /\ p.stop)   \* mutant: data is left behind
MustWait(p) == p.index = p.size /\ p.size > 0 /\ ~p.stop
AtEnd(p) == p.size = 0 \/ (p.size > 0 /\ p.index = p.size /\ p.stop)

(* The thread finds nothing ...                                              *)
PopTest(c) ==
    /\ Popping(c) /\ MustWait(pipes[stream.index])
    /\ pipes' = [pipes EXCEPT ![stream.index].lock = "reader"]
    /\ Goto(c, "block")
    /\ UNCHANGED <<file, flags, serialReadEnd, fileMutex, pipeMutex, stream, pusher, pool, seen,
                   open, budget>>
(* ... and goes to sleep, which gives the mutex up.                          *)
PopBlock(c) ==
    /\ call[c].pc = "block"
    /\ pipes' = [pipes EXCEPT ![stream.index].lock = "free"]
    /\ Goto(c, "asleep")
    /\ UNCHANGED <<file, flags, serialReadEnd, fileMutex, pipeMutex, stream, pusher, pool, seen,
                   open, budget>>

(* A read of the thread that fills the pipe has failed, or found the end, or *)
(* it fills the pipe no more.                                                *)
DestroyPopped(c) ==
    /\ pipes' = [pipes EXCEPT ![stream.index] = Destroyed(@)]
    /\ pool' = Freed(pipes[stream.index])
PopError(c) ==
    /\ Popping(c) /\ pipes[stream.index].size < 0
    /\ DestroyPopped(c)
    /\ EndSequence(c, "failed")
PopEnd(c) ==
    /\ Popping(c) /\ AtEnd(pipes[stream.index])
    /\ DestroyPopped(c)
    /\ EndSequence(c, "read")

addPipeIndex == stream' = [stream EXCEPT !.index = (@ + 1) % stream.num]

(* There is something.  A pipe that is empty now is given back to its        *)
(* thread, or destroyed if that has ended, and the next pipe's turn comes.   *)
PopData(c) ==
    /\ Popping(c)
    /\ LET i == stream.index
           p == pipes[i]
           n == Lesser(Missing(c), p.size - p.index)
           empty == p.index + n = p.size
       IN /\ p.size > 0 /\ p.index # p.size
          /\ call' = [call EXCEPT ![c].data = @ \o SubSeq(p.data, p.index + 1, p.index + n)]
          /\ IF empty /\ p.stop
             THEN DestroyPopped(c)
             ELSE /\ pipes' = [pipes EXCEPT ![i].index = @ + n, ![i].data = IF empty THEN <<>> ELSE @]
                  /\ UNCHANGED pool
          /\ IF empty
             THEN /\ addPipeIndex
                  /\ NotifyPusher(i)
             ELSE UNCHANGED <<stream, pusher>>
    /\ UNCHANGED <<file, flags, serialReadEnd, fileMutex, pipeMutex, seen, open, budget>>

-----------------------------------------------------------------------------
(* The thread of pipe i: until the stream stops or the offset is past one    *)
(* where the file has ended ...                                              *)
PushLoop(i) ==
    /\ pusher[i].pc = "loop"
    /\ pusher' = [pusher EXCEPT ![i].pc =
                    IF ~stream.stop /\ pusher[i].offset < stream.stopOffset THEN "lock" ELSE "exit"]
    /\ UNCHANGED <<file, flags, serialReadEnd, fileMutex, pipeMutex, stream, pipes, pool, call,
                   seen, open, budget>>

(* ... Pipe::WaitPush waits for the pipe to be empty ...                     *)
PushWait(i) ==
    /\ pusher[i].pc = "lock" /\ pipes[i].lock = "free"
    /\ IF pipes[i].stop
       THEN /\ NotifyReader(i)
            /\ pusher' = [pusher EXCEPT ![i].pc = "compare", ![i].ret = 0]
            /\ UNCHANGED pipes
       ELSE /\ IF pipes[i].index = pipes[i].size
               THEN /\ pusher' = [pusher EXCEPT ![i].pc = "read"]
                    /\ pipes' = [pipes EXCEPT ![i].lock = "pusher"]
               ELSE /\ pusher' = [pusher EXCEPT ![i].pc = "asleep"]
                    /\ UNCHANGED pipes
            /\ UNCHANGED call
    /\ UNCHANGED <<file, flags, serialReadEnd, fileMutex, pipeMutex, stream, pool, seen, open,
                   budget>>

(* ... and reads a block into it, with its mutex ...                         *)
Fill(i, data, n) ==
    /\ pipes' = [pipes EXCEPT ![i].index = 0, ![i].size = n, ![i].data = data, ![i].lock = "free"]
    /\ pusher' = [pusher EXCEPT ![i].pc = "compare", ![i].ret = n]
    /\ NotifyReader(i)
    /\ UNCHANGED <<file, flags, serialReadEnd, fileMutex, pipeMutex, stream, pool, seen, open>>
PushRead(i) ==
    /\ pusher[i].pc = "read"
    /\ LET data == Content(pusher[i].offset, pipes[i].capacity) IN Fill(i, data, Len(data))
    /\ UNCHANGED budget
PushReadFails(i) ==
    /\ pusher[i].pc = "read" /\ Fault
    /\ Fill(i, <<>>, -1)

PushCompareByOne(i) ==   \* mutant: the next block instead of the pipe's next one
    /\ pusher[i].pc = "compare"
    /\ IF pusher[i].ret # pipes[i].capacity
       THEN /\ stream' = [stream EXCEPT !.stopOffset = pusher[i].offset]
            /\ pusher' = [pusher EXCEPT ![i].pc = "exit", ![i].ret = 0]
       ELSE /\ pusher' = [pusher EXCEPT ![i].pc = "loop", ![i].ret = 0,
                                        ![i].offset = Lesser(@ + BlockSize, Beyond)]
            /\ UNCHANGED stream
    /\ UNCHANGED <<file, flags, serialReadEnd, fileMutex, pipeMutex, pipes, pool, call, seen, open,
                   budget>>

(* ... compares what it got with the capacity, without the mutex ...         *)
PushCompare(i) ==
    /\ pusher[i].pc = "compare"
    /\ IF pusher[i].ret # pipes[i].capacity
       THEN /\ stream' = [stream EXCEPT !.stopOffset = pusher[i].offset]
            /\ pusher' = [pusher EXCEPT ![i].pc = "exit", ![i].ret = 0]
       ELSE /\ pusher' = [pusher EXCEPT ![i].pc = "loop", ![i].ret = 0,
                                        ![i].offset = Lesser(@ + stream.num * BlockSize, Beyond)]
            /\ UNCHANGED stream
    /\ UNCHANGED <<file, flags, serialReadEnd, fileMutex, pipeMutex, pipes, pool, call, seen, open,
                   budget>>

(* ... and says so when it leaves, also without the mutex.                   *)
PushExit(i) ==
    /\ pusher[i].pc = "exit"
    /\ pipes' = [pipes EXCEPT ![i].stop = TRUE]
    /\ NotifyReader(i)
    /\ pusher' = [pusher EXCEPT ![i].pc = "done", ![i].offset = 0]
    /\ UNCHANGED <<file, flags, serialReadEnd, fileMutex, pipeMutex, stream, pool, seen, open,
                   budget>>

-----------------------------------------------------------------------------
WriteFileKeepsStream(c) ==   \* mutant: the outdated stream goes on
    /\ Enter(c, "write", 0, 0, "push", "none")
    /\ UNCHANGED <<file, flags, serialReadEnd, fileMutex, pipeMutex, stream, pipes, pusher, pool,
                   seen, open>>

(* WriteFile stops a stream that has started, once ...                       *)
WriteFile(c) ==
    /\ LET stops == flags.started /\ ~flags.stopped IN
        /\ Enter(c, "write", 0, 0, IF stops THEN "stop" ELSE "push", "push")
        /\ flags' = [flags EXCEPT !.stopped = @ \/ stops]
    /\ UNCHANGED <<file, serialReadEnd, fileMutex, pipeMutex, stream, pipes, pusher, pool, seen,
                   open>>
(* ... writes (a later read completes the write stream first) ...            *)
WritePush(c) ==
    /\ call[c].pc = "push"
    /\ file' = [file EXCEPT !.writes = @ + 1]
    /\ Goto(c, "size")
    /\ UNCHANGED <<flags, serialReadEnd, fileMutex, pipeMutex, stream, pipes, pusher, pool, seen,
                   open, budget>>
(* ... and renews the size under the mutex of the file.  No other call has   *)
(* overlapped a write that was alone.                                        *)
WriteSize(c) ==
    /\ call[c].pc = "size" /\ fileMutex = NoOne
    /\ Returns(c, <<>>, "none")
    /\ seen' = IF call[c].alone THEN file.writes ELSE seen
    /\ UNCHANGED <<file, flags, serialReadEnd, fileMutex, pipeMutex, stream, pipes, pusher, pool,
                   open, budget>>

(* CloseTmpFiles: FUSE releases a file that no call uses.  The threads are   *)
(* stopped and joined.                                                       *)
CloseTmpFiles(c) ==
    /\ open = "open" /\ \A d \in Caller : call[d].pc = "idle"
    /\ open' = "closing"
    /\ call' = [call EXCEPT ![c] = [NoCall EXCEPT !.pc = "stop", !.op = "close", !.then = "join"]]
    /\ UNCHANGED <<file, flags, serialReadEnd, fileMutex, pipeMutex, stream, pipes, pusher, pool,
                   seen, budget>>
WaitPushEnded(c) ==
    /\ call[c].pc = "join" /\ \A i \in Pipe : pusher[i].pc \in {"none", "done"}
    /\ open' = "closed"
    /\ call' = [call EXCEPT ![c] = NoCall]
    /\ UNCHANGED <<file, flags, serialReadEnd, fileMutex, pipeMutex, stream, pipes, pusher, pool,
                   seen, budget>>

-----------------------------------------------------------------------------
CallerStep(c) ==
    \/ StreamInit(c) \/ StartPushThreaded(c)
    \/ ReadToBuffer(c) \/ LockFile(c) \/ RandomRead(c)
    \/ StopPreReadThreaded(c) \/ StopPushThreaded(c) \/ DestroyPipe(c)
    \/ SequenceRead(c) \/ PopNoMore(c) \/ PopTest(c) \/ PopBlock(c)
    \/ PopError(c) \/ PopEnd(c) \/ PopData(c)
    \/ WritePush(c) \/ WriteSize(c) \/ WaitPushEnded(c)
PushStep(i) == PushLoop(i) \/ PushWait(i) \/ PushRead(i) \/ PushCompare(i) \/ PushExit(i)
Next ==
    \/ \E c \in Caller :
        \/ \E o \in {0, Position(c)}, n \in ReadSizes : ReadFile(c, o, n)
        \/ WriteFile(c) \/ CloseTmpFiles(c)
        \/ CallerStep(c) \/ StreamInitFails(c) \/ RandomReadFails(c)
    \/ \E i \in Pipe : PushStep(i) \/ PushReadFails(i)

Spec == Init /\ [][Next]_vars

(* The threads are scheduled, and a mutex that is free is obtained.  Nobody  *)
(* has to call or to fail; a file without blocks finds no memory.            *)
Fairness ==
    /\ \A c \in Caller : WF_vars(CallerStep(c) \/ (file.size = 0 /\ StreamInitFails(c)))
    /\ \A i \in Pipe : WF_vars(PushStep(i))
FairSpec == Spec /\ Fairness

-----------------------------------------------------------------------------
(* What a read returns is the file from its offset on, unit by unit, however *)
(* the threads and the pipes took turns (ReadStream::WaitPop,                *)
(* StartPushThreaded).                                                       *)
ReadsInOrder == \A c \in Caller : \A j \in DOMAIN call[c].data :
    call[c].data[j].unit = call[c].offset + j - 1

(* A read that returns less than was asked for has reached the end of the    *)
(* file, unless reading or allocating has failed before or the stream did    *)
(* not run (stopOffset, Pipe::stop and the size 0 of a pipe).                *)
ShortReadIsEnd == \A c \in Caller :
    LET r == call[c] IN
    r.pc = "idle" /\ r.outcome = "read" /\ ~budget.faulty /\ Len(r.data) < r.want
        => r.offset + Len(r.data) >= file.size

(* A read that begins after a write has returned shows the write, if no      *)
(* other call overlapped the write: WriteFile discards an outdated stream.   *)
ReadsAfterWrite == \A c \in Caller : \A j \in DOMAIN call[c].data :
    call[c].data[j].write >= call[c].must

(* When the file is closed every block is back in the pool, counted, and the *)
(* pool keeps no more free blocks than it may (MemPool::free).               *)
MemoryReturned ==
    /\ pool.free <= PoolCapacity
    /\ pool.size = Cardinality({i \in Pipe : pipes[i].mem})
    /\ open = "closed" => pool.size = 0

(* Closing a file ends: no thread of the stream sleeps through it            *)
(* (StopPushThreaded, WaitPushEnded).                                        *)
CloseReturns == open = "closing" ~> open = "closed"

(* A read returns: when a thread has nothing more to push it wakes the       *)
(* reader (StartPushThreaded).                                               *)
ReadReturns == \A c \in Caller : call[c].op = "read" ~> call[c].pc = "idle"
=============================================================================
