------------------------------ MODULE MCInput ------------------------------
(***************************************************************************)
(* The input side for TLC, each module on its own (part says which one     *)
(* moves):                                                                 *)
(*   - AsyncBuffer: a resource of four bytes read ahead through a ring     *)
(*     that keeps two bytes in front and one behind;                       *)
(*   - IoCache: a cache of four bytes for a resource of four, with and     *)
(*     without bytes fetched ahead;                                        *)
(*   - UrlHook: every protocol, on a resource of two bytes, with an        *)
(*     application that takes on one failure of a call.                    *)
(***************************************************************************)
EXTENDS AsyncBuffer, IoCache, UrlHook

VARIABLE part

inputVars == <<part, asyncVars, cacheVars, hookVars>>

InputInit ==
    /\ part \in {"async", "cache", "hook"}
    /\ AsyncInit /\ CacheInit /\ HookInit
    /\ part # "cache" => c.forwards = 0
    /\ part # "hook" => kind = "http" /\ ~streamed

AsyncPart(A) == part = "async" /\ A /\ UNCHANGED <<part, cacheVars, hookVars>>
CachePart(A) == part = "cache" /\ A /\ UNCHANGED <<part, asyncVars, hookVars>>
HookPart(A)  == part = "hook" /\ A /\ UNCHANGED <<part, asyncVars, cacheVars>>

InputNext == AsyncPart(AsyncNext) \/ CachePart(CacheNext) \/ HookPart(HookNext)

\* The fairness of each module's own specification.
InputSpec ==
    /\ InputInit /\ [][InputNext]_inputVars
    /\ WF_inputVars(AsyncPart(Back)) /\ WF_inputVars(AsyncPart(Reader))
    /\ WF_inputVars(CachePart(CacheTask)) /\ WF_inputVars(CachePart(CacheReader))
    /\ WF_inputVars(HookPart(HookStep))

\* A call of the input comes back, whoever it waits for: the thread that reads
\* ahead, the task that fills the cache, the application.  Two calls of the cache
\* may not, and are left out: a seek whose cache is closed under it, and a pause or
\* a close whose signal falls between the test of the task and its wait.
InputCallsReturn == AsyncCallsReturn /\ CacheCallsReturn /\ HookCallsReturn
=============================================================================
