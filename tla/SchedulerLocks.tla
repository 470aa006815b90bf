--------------------------- MODULE SchedulerLocks ---------------------------
(***************************************************************************)
(* The two mutexes of basellm, dictLocker and forwardLocker, as the main   *)
(* loop (RunNewMainLoop), LaunchResponseTokens and AddPromptCache take and *)
(* release them.  ResponseScheduler treats a section under dictLocker as   *)
(* one step; this module looks at what happens inside it when a second     *)
(* mutex is wanted.                                                        *)
(***************************************************************************)
EXTENDS Integers, FiniteSets

CONSTANTS
  Launcher,  \* threads that call LaunchResponseTokens, once each
  Warmer,    \* threads that call AddPromptCache, once each
  MainLoop,  \* the main loop thread
  Nobody,    \* the owner of an unlocked mutex
  MaxChunks  \* chunks of the longest prompt (GetChunkedPrefillSize each)

LockAssumption ==
  /\ Launcher \cap Warmer = {}
  /\ MainLoop \notin Launcher \cup Warmer
  /\ Nobody \notin Launcher \cup Warmer \cup {MainLoop}
  /\ MaxChunks \in Nat \ {0}

ASSUME LocksDistinct == LockAssumption

VARIABLES
  dictLocker, forwardLocker, \* their owners
  at,        \* where each caller is
  place,     \* where the main loop is
  chunks,    \* chunks left of the forward pass
  requests,  \* contexts waiting to be scheduled
  cached     \* pastKVCacheManager holds an entry that a prompt can hit

lockVars == <<dictLocker, forwardLocker, at, place, chunks, requests, cached>>

LockInit ==
  /\ dictLocker = Nobody /\ forwardLocker = Nobody
  /\ at = [t \in Launcher \cup Warmer |-> "idle"]
  /\ place = "top"
  /\ chunks = 0
  /\ requests = {}
  /\ cached = FALSE
-----------------------------------------------------------------------------
\* A caller enters LaunchResponseTokens or AddPromptCache.
Call(t) ==
  /\ at[t] = "idle"
  /\ at' = [at EXCEPT ![t] = "entered"]
  /\ UNCHANGED <<dictLocker, forwardLocker, place, chunks, requests, cached>>

LockDict(t) ==
  /\ at[t] = "entered"
  /\ dictLocker = Nobody
  /\ dictLocker' = t
  /\ at' = [at EXCEPT ![t] = "locked"]
  /\ UNCHANGED <<forwardLocker, place, chunks, requests, cached>>

\* LaunchResponseTokens finds an entry for its prompt in the history cache.
Hit(t) ==
  /\ at[t] = "locked" /\ t \in Launcher
  /\ cached
  /\ at' = [at EXCEPT ![t] = "hit"]
  /\ UNCHANGED <<dictLocker, forwardLocker, place, chunks, requests, cached>>

\* Mutant of LockForward: the copies are made under dictLocker alone.
LockForwardNot(t) ==
  /\ at[t] = "hit"
  /\ at' = [at EXCEPT ![t] = "copying"]
  /\ UNCHANGED <<dictLocker, forwardLocker, place, chunks, requests, cached>>

\* To copy the KV data of the entry it locks forwardLocker, with dictLocker held.
LockForward(t) ==
  /\ at[t] = "hit"
  /\ forwardLocker = Nobody
  /\ forwardLocker' = t
  /\ at' = [at EXCEPT ![t] = "copying"]
  /\ UNCHANGED <<dictLocker, place, chunks, requests, cached>>

\* The context is registered and dictLocker released, after the copies or after
\* a miss.
LaunchReturn(t) ==
  /\ t \in Launcher
  /\ at[t] \in {"locked", "copying"}
  /\ forwardLocker' = IF at[t] = "copying" THEN Nobody ELSE forwardLocker
  /\ requests' = requests \cup {t}
  /\ dictLocker' = Nobody
  /\ at' = [at EXCEPT ![t] = "returned"]
  /\ UNCHANGED <<place, chunks, cached>>

\* AddPromptCache runs a forward pass of its own under dictLocker, unless the
\* prompt is cached already.
Warm(t) ==
  /\ at[t] = "locked" /\ t \in Warmer
  /\ at' = [at EXCEPT ![t] = "warming"]
  /\ UNCHANGED <<dictLocker, forwardLocker, place, chunks, requests, cached>>

WarmReturn(t) ==
  /\ at[t] = "warming"
  /\ cached' = TRUE
  /\ dictLocker' = Nobody
  /\ at' = [at EXCEPT ![t] = "returned"]
  /\ UNCHANGED <<forwardLocker, place, chunks, requests>>
-----------------------------------------------------------------------------
\* The top of an iteration.
LoopLock ==
  /\ place = "top"
  /\ dictLocker = Nobody
  /\ dictLocker' = MainLoop
  /\ place' = "select"
  /\ UNCHANGED <<forwardLocker, at, chunks, requests, cached>>

\* Nothing to run: dictCV.wait releases dictLocker until a launch notifies.
LoopIdle ==
  /\ place = "select"
  /\ requests = {}
  /\ dictLocker' = Nobody
  /\ place' = "idle"
  /\ UNCHANGED <<forwardLocker, at, chunks, requests, cached>>

LoopNotified ==
  /\ place = "idle"
  /\ requests # {}
  /\ place' = "top"
  /\ UNCHANGED <<dictLocker, forwardLocker, at, chunks, requests, cached>>

\* A batch is selected and dictLocker released before forwardLocker is taken.
LoopSelect ==
  /\ place = "select"
  /\ requests # {}
  /\ dictLocker' = Nobody
  /\ chunks' \in 1..MaxChunks
  /\ place' = "selected"
  /\ UNCHANGED <<forwardLocker, at, requests, cached>>

\* A chunked prefill looks its context up under dictLocker before it starts.
LoopForward ==
  /\ place = "selected"
  /\ forwardLocker = Nobody
  /\ forwardLocker' = MainLoop
  /\ place' = IF chunks > 1 THEN "lookup" ELSE "forward"
  /\ UNCHANGED <<dictLocker, at, chunks, requests, cached>>

\* Mutant of LoopLookup: an early return forgets to unlock dictLocker.
LoopLookupKeeps ==
  /\ place = "lookup"
  /\ dictLocker = Nobody
  /\ dictLocker' = MainLoop
  /\ place' = "forward"
  /\ UNCHANGED <<forwardLocker, at, chunks, requests, cached>>

\* The lookup, or the record after a chunk: a short section under dictLocker
\* with forwardLocker held.
LoopLookup ==
  /\ place = "lookup"
  /\ dictLocker = Nobody
  /\ place' = "forward"
  /\ UNCHANGED <<dictLocker, forwardLocker, at, chunks, requests, cached>>

\* A chunk that is not the last: the context is looked up again to record it.
LoopChunk ==
  /\ place = "forward"
  /\ chunks > 1
  /\ chunks' = chunks - 1
  /\ place' = "lookup"
  /\ UNCHANGED <<dictLocker, forwardLocker, at, requests, cached>>

\* The forward pass is over: forwardLocker is released, then dictLocker taken.
LoopFinish ==
  /\ place = "forward"
  /\ chunks = 1
  /\ forwardLocker' = Nobody
  /\ place' = "publish"
  /\ UNCHANGED <<dictLocker, at, chunks, requests, cached>>

\* The tokens are published under dictLocker.  Passes that end no request are
\* folded into the one that does: every request ends after so many tokens.
LoopPublish ==
  /\ place = "publish"
  /\ dictLocker = Nobody
  /\ \E done \in (SUBSET requests) \ {{}} : requests' = requests \ done
  /\ chunks' = 0
  /\ place' = "top"
  /\ UNCHANGED <<dictLocker, forwardLocker, at, cached>>

Caller(t) ==
  LockDict(t) \/ Hit(t) \/ LockForward(t) \/ LaunchReturn(t) \/ Warm(t) \/ WarmReturn(t)

MainStep ==
  \/ LoopLock \/ LoopIdle \/ LoopNotified \/ LoopSelect \/ LoopForward
  \/ LoopLookup \/ LoopChunk \/ LoopFinish \/ LoopPublish

LockNext == MainStep \/ \E t \in Launcher \cup Warmer : Call(t) \/ Caller(t)

LockSpec == LockInit /\ [][LockNext]_lockVars

\* Threads run, and a thread gets a mutex that stays unlocked.  Every caller
\* calls once, so no mutex changes hands forever.
FairLockSpec ==
  /\ LockSpec
  /\ WF_lockVars(MainStep)
  /\ \A t \in Launcher \cup Warmer : WF_lockVars(Caller(t))
-----------------------------------------------------------------------------
\* The copies of a history-cache restore are never made while the forward pass
\* of the loop, or that of AddPromptCache, is running.
CopiesExcluded ==
  \A t \in Launcher : at[t] = "copying" =>
    place \notin {"forward", "lookup"} /\ \A w \in Warmer : at[w] # "warming"

\* Inside one section each of dictLocker and forwardLocker, a launch and the
\* loop want the mutex the other one holds.
Inverted ==
  /\ place = "lookup"
  /\ \E t \in Launcher : at[t] = "hit" /\ dictLocker = t

\* The inverted order of the two mutexes is the only thing that can keep
\* LaunchResponseTokens and AddPromptCache from returning.
ReturnsUnlessInverted ==
  \A t \in Launcher \cup Warmer : at[t] = "entered" ~> (at[t] = "returned" \/ Inverted)
=============================================================================
