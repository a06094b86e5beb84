-------------------------- MODULE ConsumerController --------------------------
(***************************************************************************)
(* The pthreads pipeline (src/pthreads/main.cpp, reader.hpp, and the      *)
(* ConsumerController of src/unnamed/part_001):                           *)
(*   Reader --inputQ--> 4 Producers --workerQ--> Consumers --outputQ-->    *)
(*   Writer, with a ConsumerController thread that, every check period,   *)
(*   adds a consumer when workerQ holds more than the high threshold and  *)
(*   cancels the newest one when it holds fewer than the low threshold   *)
(*   and more than one consumer runs.  main joins the reader and the      *)
(*   writer, deletes the thread objects (the controller's among them)    *)
(*   while the producer, consumer and controller threads still run, then *)
(*   returns, which ends every thread.                                    *)
(* Items are counted, not named: the Transformer does not change which    *)
(* items flow.  TSQueue, Producer, Consumer and Writer are not in the     *)
(* repository; they are modelled as the blocking bounded queue and the    *)
(* threads main.cpp constructs: enqueue blocks on a full queue, dequeue   *)
(* on an empty one, a Consumer moves one item at a time, a cancelled     *)
(* consumer finishes the item it holds, the Writer writes `Lines` items.  *)
(* The check period is abstracted: a check may happen at any time.       *)
(***************************************************************************)
EXTENDS Integers, Sequences, SequencesExt

CONSTANTS Lines,              \* n = atoi(argv[1]), lines to read and write
          ReaderQueueSize,    \* READER_QUEUE_SIZE
          WorkerQueueSize,    \* WORKER_QUEUE_SIZE
          WriterQueueSize,    \* WRITER_QUEUE_SIZE
          LowPercentage,      \* CONSUMER_CONTROLLER_LOW_THRESHOLD_PERCENTAGE
          HighPercentage,     \* CONSUMER_CONTROLLER_HIGH_THRESHOLD_PERCENTAGE
          MaxConsumers        \* model bound on the consumers vector

ASSUME /\ Lines \in Nat /\ MaxConsumers \in Nat \ {0}
       /\ {ReaderQueueSize, WorkerQueueSize, WriterQueueSize} \subseteq Nat \ {0}

VARIABLES toRead,     \* Reader::expected_lines
          inputQ,     \* items in the reader's queue
          workerQ,    \* items in the worker queue
          consumers,  \* ConsumerController::consumers, "idle" or "busy"
          retiring,   \* cancelled consumers still holding an item
          outputQ,    \* items in the writer's queue
          written,    \* items the writer has written
          mainPc,     \* main: "join", "delete" (joined), "freed" (cc deleted),
                      \* "exited" (returned)
          ccUsed      \* the controller thread read its deleted object
vars == <<toRead, inputQ, workerQ, consumers, retiring, outputQ, written, mainPc, ccUsed>>

\* The other threads run until the process ends.
exited == mainPc = "exited"

\* main.cpp: WORKER_QUEUE_SIZE * PERCENTAGE / 100, in int arithmetic.
LowThreshold == (WorkerQueueSize * LowPercentage) \div 100
HighThreshold == (WorkerQueueSize * HighPercentage) \div 100

\* Reader::Reader(n, file, queue): expected_lines = n.
ReaderInit == toRead = Lines

\* ConsumerController::ConsumerController: an empty consumers vector.
ControllerInit == consumers = <<>> /\ retiring = 0

\* main: the queues are created empty, then the reader, the writer, the
\* controller and the producers, and every thread is started.
Init == /\ ReaderInit /\ ControllerInit
        /\ inputQ = 0 /\ workerQ = 0 /\ outputQ = 0
        /\ written = 0 /\ mainPc = "join" /\ ccUsed = FALSE

\* Faulty variant: an enqueue that does not wait for room.
ReaderStepNoWait ==
    /\ ~exited /\ toRead > 0
    /\ toRead' = toRead - 1 /\ inputQ' = inputQ + 1
    /\ UNCHANGED <<workerQ, consumers, retiring, outputQ, written, mainPc, ccUsed>>

\* Reader::process: while (expected_lines--) enqueue(item).
ReaderStep ==
    /\ ~exited /\ toRead > 0 /\ inputQ < ReaderQueueSize
    /\ toRead' = toRead - 1 /\ inputQ' = inputQ + 1
    /\ UNCHANGED <<workerQ, consumers, retiring, outputQ, written, mainPc, ccUsed>>

\* Producer: dequeue from the input queue, transform, enqueue to workers.
ProducerStep ==
    /\ ~exited /\ inputQ > 0 /\ workerQ < WorkerQueueSize
    /\ inputQ' = inputQ - 1 /\ workerQ' = workerQ + 1
    /\ UNCHANGED <<toRead, consumers, retiring, outputQ, written, mainPc, ccUsed>>

\* Consumer i takes an item from the worker queue.
ConsumerTake(i) ==
    /\ ~exited /\ consumers[i] = "idle" /\ workerQ > 0
    /\ workerQ' = workerQ - 1 /\ consumers' = [consumers EXCEPT ![i] = "busy"]
    /\ UNCHANGED <<toRead, inputQ, retiring, outputQ, written, mainPc, ccUsed>>

\* Consumer i transforms its item and enqueues it for the writer.
ConsumerPut(i) ==
    /\ ~exited /\ consumers[i] = "busy" /\ outputQ < WriterQueueSize
    /\ outputQ' = outputQ + 1 /\ consumers' = [consumers EXCEPT ![i] = "idle"]
    /\ UNCHANGED <<toRead, inputQ, workerQ, retiring, written, mainPc, ccUsed>>

\* A cancelled consumer finishes the item it held, then exits.
RetiredPut ==
    /\ ~exited /\ retiring > 0 /\ outputQ < WriterQueueSize
    /\ outputQ' = outputQ + 1 /\ retiring' = retiring - 1
    /\ UNCHANGED <<toRead, inputQ, workerQ, consumers, written, mainPc, ccUsed>>

\* Writer: dequeue and write, until its expected lines are written.
WriterStep ==
    /\ ~exited /\ outputQ > 0 /\ written < Lines
    /\ outputQ' = outputQ - 1 /\ written' = written + 1
    /\ UNCHANGED <<toRead, inputQ, workerQ, consumers, retiring, mainPc, ccUsed>>

\* main has not deleted the controller object yet.
ccAlive == mainPc \in {"join", "delete"}

\* ConsumerController::process, one elapsed check period: scale up above
\* the high threshold (no limit in the code; MaxConsumers bounds the
\* model), else scale down below the low threshold keeping one consumer.
ControllerCheck ==
    /\ ccAlive
    /\ IF workerQ > HighThreshold
       THEN /\ Len(consumers) < MaxConsumers
            /\ consumers' = Append(consumers, "idle") /\ UNCHANGED retiring
       ELSE IF workerQ < LowThreshold /\ Len(consumers) > 1
       THEN /\ consumers' = Front(consumers)
            /\ retiring' = retiring + (IF Last(consumers) = "busy" THEN 1 ELSE 0)
       ELSE UNCHANGED <<consumers, retiring>>
    /\ UNCHANGED <<toRead, inputQ, workerQ, outputQ, written, mainPc, ccUsed>>

\* The controller thread's while (true) loop after delete cc: every
\* iteration reads cc->check_period (and, once the period has elapsed,
\* cc->worker_queue and cc->consumers) through the deleted object.
ControllerAfterDelete ==
    /\ mainPc = "freed"
    /\ ccUsed' = TRUE
    /\ UNCHANGED <<toRead, inputQ, workerQ, consumers, retiring, outputQ, written, mainPc>>

\* Faulty variant: main joins the reader only, not the writer.
MainJoinEarly ==
    /\ mainPc = "join" /\ toRead = 0
    /\ mainPc' = "delete"
    /\ UNCHANGED <<toRead, inputQ, workerQ, consumers, retiring, outputQ, written, ccUsed>>

\* main: rd->join(); wr->join(): the reader has enqueued every line and
\* the writer has written n.
MainJoin ==
    /\ mainPc = "join" /\ toRead = 0 /\ written = Lines
    /\ mainPc' = "delete"
    /\ UNCHANGED <<toRead, inputQ, workerQ, consumers, retiring, outputQ, written, ccUsed>>

\* main: delete rd, wr, p1..p4, tr, cc.  The producer and consumer threads
\* are blocked on their empty input queues and touch none of these
\* objects; the controller thread still loops on cc.
MainDelete ==
    /\ mainPc = "delete"
    /\ mainPc' = "freed"
    /\ UNCHANGED <<toRead, inputQ, workerQ, consumers, retiring, outputQ, written, ccUsed>>

\* main: return 0, which ends the process and every thread in it.
MainReturn ==
    /\ mainPc = "freed"
    /\ mainPc' = "exited"
    /\ UNCHANGED <<toRead, inputQ, workerQ, consumers, retiring, outputQ, written, ccUsed>>

ConsumerIds == 1 .. MaxConsumers

Next ==
    \/ ReaderStep \/ ProducerStep \/ WriterStep \/ RetiredPut
    \/ \E i \in ConsumerIds : i \in DOMAIN consumers /\ (ConsumerTake(i) \/ ConsumerPut(i))
    \/ ControllerCheck \/ ControllerAfterDelete
    \/ MainJoin \/ MainDelete \/ MainReturn

\* Every thread is scheduled by the OS: none stops forever while it can run.
Fairness ==
    /\ WF_vars(ReaderStep) /\ WF_vars(ProducerStep) /\ WF_vars(WriterStep)
    /\ WF_vars(RetiredPut) /\ WF_vars(ControllerCheck) /\ WF_vars(ControllerAfterDelete)
    /\ WF_vars(MainJoin) /\ WF_vars(MainDelete) /\ WF_vars(MainReturn)
    /\ \A i \in ConsumerIds :
          WF_vars(i \in DOMAIN consumers /\ ConsumerTake(i))
          /\ WF_vars(i \in DOMAIN consumers /\ ConsumerPut(i))

Spec == Init /\ [][Next]_vars /\ Fairness

-----------------------------------------------------------------------------
TypeOK ==
    /\ toRead \in 0 .. Lines /\ written \in 0 .. Lines
    /\ inputQ \in 0 .. ReaderQueueSize /\ workerQ \in 0 .. WorkerQueueSize
    /\ outputQ \in 0 .. WriterQueueSize /\ retiring \in 0 .. MaxConsumers
    /\ consumers \in Seq({"idle", "busy"}) /\ Len(consumers) <= MaxConsumers
    /\ mainPc \in {"join", "delete", "freed", "exited"} /\ ccUsed \in BOOLEAN

(***************************************************************************)
(* The program finishes: every line is written and main returns.  Needs    *)
(* the controller to start a consumer, which it does only once the worker  *)
(* queue holds more than the high threshold.                              *)
(***************************************************************************)
ProgramTerminates == <>exited

(***************************************************************************)
(* No thread uses an object after main has deleted it: main's deletes come *)
(* after every thread that reads the object has stopped.  Broken when     *)
(* delete cc runs while the ConsumerController thread, which never leaves *)
(* its while (true) loop and is never joined, still reads cc.             *)
(***************************************************************************)
NoUseAfterDelete == ~ccUsed

(***************************************************************************)
(* The pipeline implements what the program promises (AbstractPipeline):  *)
(* a line counts as read once the Reader has enqueued it, as written once  *)
(* the Writer has written it, and the program ends when main returns.     *)
(* Safety: main returns only after all n lines are written, and no line is *)
(* written before it is read.  Liveness: under fair scheduling every line *)
(* is read and written and main returns.  Broken if main's joins let it    *)
(* return, and the process end, before the Writer has finished.          *)
(***************************************************************************)
PIPE == INSTANCE AbstractPipeline
            WITH read <- Lines - toRead, written <- written, done <- exited
PipelineRefinement == PIPE!Spec
=============================================================================
