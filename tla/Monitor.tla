-------------------------------- MODULE Monitor --------------------------------
(***************************************************************************)
(* The monitor thread of a tower: watchtower/monitor.py.  An owner thread  *)
(* calls start and stop; each start may spawn a ticking thread.  stop sets *)
(* the event and joins with a timeout of two seconds: a tick that takes    *)
(* longer outlives the join, and a start that follows clears the event the *)
(* old thread was to see.  The count of ticks is left out.                 *)
(***************************************************************************)
EXTENDS Integers, FiniteSets

CONSTANTS MaxStarts      \* bound: threads ever spawned

ASSUME MonitorAssumption == MaxStarts \in Nat

Ids == 1 .. MaxStarts

VARIABLES stopEvent,   \* Monitor._stop
          current,     \* Monitor._thread, 0 for None
          owner,       \* the owner: outside, or inside stop() at the join
          thread,      \* each spawned thread
          spawned, late   \* threads spawned; history: a join timed out

monitorVars == <<stopEvent, current, owner, thread, spawned, late>>

MonitorInit ==
    /\ stopEvent = FALSE /\ current = 0 /\ owner = "outside"
    /\ thread = [i \in Ids |-> "none"]
    /\ spawned = 0 /\ late = FALSE

Alive(i) == thread[i] \in {"check", "tick", "wait"}
IsRunning == current # 0 /\ Alive(current)

\* start(): nothing if the thread is alive.
StartsAgain ==
    /\ owner = "outside" /\ spawned < MaxStarts
    /\ stopEvent' = FALSE
    /\ spawned' = spawned + 1 /\ current' = spawned + 1
    /\ thread' = [thread EXCEPT ![spawned + 1] = "check"]
    /\ UNCHANGED <<owner, late>>
StartMonitor ==
    /\ owner = "outside" /\ ~IsRunning /\ spawned < MaxStarts
    /\ stopEvent' = FALSE
    /\ spawned' = spawned + 1 /\ current' = spawned + 1
    /\ thread' = [thread EXCEPT ![spawned + 1] = "check"]
    /\ UNCHANGED <<owner, late>>

\* stop(): set the event, join the thread if there is one, forget it.
StopMonitor ==
    /\ owner = "outside"
    /\ stopEvent' = TRUE
    /\ owner' = IF current = 0 THEN "outside" ELSE "joining"
    /\ UNCHANGED <<current, thread, spawned, late>>
JoinEnds ==
    /\ owner = "joining"
    /\ owner' = "outside" /\ current' = 0
    /\ late' = (late \/ Alive(current))
    /\ UNCHANGED <<stopEvent, thread, spawned>>

\* _run: the loop guard, the tick, and the wait that ends early on the event.
LoopsForever(i) ==
    /\ thread[i] = "check"
    /\ thread' = [thread EXCEPT ![i] = "tick"]
    /\ UNCHANGED <<stopEvent, current, owner, spawned, late>>
CheckStop(i) ==
    /\ thread[i] = "check"
    /\ thread' = [thread EXCEPT ![i] = IF stopEvent THEN "ended" ELSE "tick"]
    /\ UNCHANGED <<stopEvent, current, owner, spawned, late>>
Tick(i) ==
    /\ thread[i] = "tick"
    /\ thread' = [thread EXCEPT ![i] = "wait"]
    /\ UNCHANGED <<stopEvent, current, owner, spawned, late>>
WaitEnds(i) ==
    /\ thread[i] = "wait"
    /\ thread' = [thread EXCEPT ![i] = "check"]
    /\ UNCHANGED <<stopEvent, current, owner, spawned, late>>

RunNext(i) == CheckStop(i) \/ Tick(i) \/ WaitEnds(i)
MonitorNext == StartMonitor \/ StopMonitor \/ JoinEnds \/ \E i \in Ids : RunNext(i)

MonitorFairness == WF_monitorVars(JoinEnds) /\ \A i \in Ids : WF_monitorVars(RunNext(i))

MonitorSpec == MonitorInit /\ [][MonitorNext]_monitorVars /\ MonitorFairness

-----------------------------------------------------------------------------
\* start and stop leak no thread as long as every join ended in time: there is
\* never more than one, it is the one the monitor knows, and none is left when
\* the monitor says it is not running.
NoLeakedThread ==
    ~late => \A i \in Ids : Alive(i) => i = current /\ IsRunning

\* A stop that is not followed by a start ends every thread, also one that had
\* outlived an earlier join.
StopEndsThreads ==
    (<>[]stopEvent) => <>[](\A i \in Ids : ~Alive(i))
=============================================================================
