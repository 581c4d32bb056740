----------------------------- MODULE Services ------------------------------
(***************************************************************************)
(* init: start the services in order, then wait for any child and start    *)
(* again the service that ended if it is to be restarted.  A service that  *)
(* cannot be started is forgotten (task_id 0) and never tried again.       *)
(***************************************************************************)
EXTENDS Naturals, SequencesExt

CONSTANTS ServiceList, \* SERVICES, in order: records [name, restart]
          MaxSpawns    \* bound: children of init

ASSUME ServicesAssumption ==
  /\ ServiceList \in Seq([name : STRING, restart : BOOLEAN])
  /\ MaxSpawns \in Nat

VARIABLES started,   \* how many services start_services has been through
          taskOf,    \* task_id of each service, 0 for none
          children   \* init's children by id (1, 2, ...): [of, state]

svcVars == <<started, taskOf, children>>

ServiceIds == 1..Len(ServiceList)

ServicesInit ==
  /\ started = 0
  /\ taskOf = [s \in ServiceIds |-> 0]
  /\ children = <<>>

\* spawn(path): a new child, or an error; either way the result is stored.
SpawnService(s, kids) ==
  \/ /\ Len(kids) < MaxSpawns
     /\ children' = Append(kids, [of |-> s, state |-> "running"])
     /\ taskOf' = [taskOf EXCEPT ![s] = Len(kids) + 1]
  \/ /\ children' = kids
     /\ taskOf' = [taskOf EXCEPT ![s] = 0]

StartService ==
  /\ started < Len(ServiceList)
  /\ SpawnService(started + 1, children)
  /\ started' = started + 1

\* A service ends, by itself or killed, at any time.
ServiceEnds(c) ==
  /\ children[c].state = "running"
  /\ children' = [children EXCEPT ![c].state = "ended"]
  /\ UNCHANGED <<started, taskOf>>

\* Whether waitpid's child is the service's current task.
Matches(s, c) == taskOf[s] = c

\* waitpid(0, 0) returns the first child that has ended and not been waited for.
Supervise(c) ==
  LET reaped == [children EXCEPT ![c].state = "reaped"]
  IN /\ started = Len(ServiceList)
     /\ children[c].state = "ended"
     /\ \A d \in 1..(c - 1) : children[d].state # "ended"
     /\ \E s \in ServiceIds :
          /\ Matches(s, c)
          /\ IF ServiceList[s].restart
             THEN SpawnService(s, reaped)
             ELSE children' = reaped /\ taskOf' = [taskOf EXCEPT ![s] = 0]
     /\ UNCHANGED started

ServicesStep ==
  \/ StartService
  \/ \E c \in 1..Len(children) : ServiceEnds(c) \/ Supervise(c)

-----------------------------------------------------------------------------
\* init knows its children: a service runs at most once and under the id recorded for
\* it, and the child waitpid returns is always the recorded one (the branch for an
\* unknown child is never taken).
OneInstance ==
  \A c \in 1..Len(children) :
    children[c].state \in {"running", "ended"} => taskOf[children[c].of] = c
=============================================================================
