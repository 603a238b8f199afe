------------------------------ MODULE MCThreads ------------------------------
(***************************************************************************)
(* What threads share, and how they are started and ended, for TLC; each   *)
(* module on its own (part says which one moves):                          *)
(*   - FrameQueue with enough frames to go round the ring twice;           *)
(*   - ThreadPool with three workers on a ring of two slots that may grow  *)
(*     to four;                                                            *)
(*   - PlayerLife: one Java object that may go through two players and two *)
(*     preparations.  Five calls are enough to prepare a player, to reset  *)
(*     it and to prepare its successor, or to use a player and release it. *)
(***************************************************************************)
EXTENDS FrameQueue, ThreadPool, PlayerLife

VARIABLE part

threadParts == <<part, vars, poolVars, lifeVars>>

ThreadsInit == part \in {"frames", "pool", "life"} /\ Init /\ PoolInit /\ LifeInit

FramesPart(A) == part = "frames" /\ A /\ UNCHANGED <<part, poolVars, lifeVars>>
PoolPart(A)   == part = "pool" /\ A /\ UNCHANGED <<part, vars, lifeVars>>
LifePart(A)   == part = "life" /\ A /\ UNCHANGED <<part, vars, poolVars>>

ThreadsNext == FramesPart(Next) \/ PoolPart(PoolNext) \/ LifePart(LifeNext)

\* The fairness of each module's own specification.
ThreadsSpec ==
    /\ ThreadsInit /\ [][ThreadsNext]_threadParts
    /\ WF_threadParts(FramesPart(DecodeAborted \/ PeekWritable \/ WritableOrNull \/ Fill \/ Push \/ Grow))
    /\ WF_threadParts(FramesPart(Poll \/ CallPeekReadable \/ PeekReadable \/ ReadableOrNull))
    /\ SF_threadParts(FramesPart(FrameQueueNext))
    /\ WF_threadParts(FramesPart(FrameQueueSignal \/ JoinDecoder))
    /\ WF_threadParts(PoolPart(CreateWorker))
    /\ \A w \in Workers : WF_threadParts(PoolPart(WorkerNext(w)))
    /\ WF_threadParts(PoolPart(Free))
    /\ WF_threadParts(LifePart(LifeWork))

\* What a producer hands over is taken on the other side, unless the queue is
\* closed first: the frames of a decoder, the tasks of a pool.
EverythingServed == EveryFrameTaken /\ EveryTaskStarts

\* What tells threads to end and joins them comes back: decoder_destroy of a
\* stream component, ijk_threadpool_destroy, and every call of the application,
\* with the joins of stop, reset and release in it.
ThreadsEnd == CloseEnds /\ DestroyReturns /\ CallsReturn
=============================================================================
