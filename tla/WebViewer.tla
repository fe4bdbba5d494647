------------------------------ MODULE WebViewer ------------------------------
(***************************************************************************)
(* The detached Web viewer of a workspace: internal/runtime/web.go.        *)
(* Commands open it, one of them with `--stop-all' stops it; what they     *)
(* share is its lock, which the kernel gives back when a viewer dies, and  *)
(* its record web.json, which nobody gives back.  A viewer ends when it is *)
(* told to, when it has been idle for half an hour, or when it is killed.  *)
(*                                                                         *)
(* A viewer is known by its token, which no two viewers share.             *)
(***************************************************************************)
EXTENDS Naturals, FiniteSets

CONSTANTS
  Openers,  \* commands that open the dashboard
  Viewers,  \* bound: the viewers those commands may launch
  NoOne     \* the viewer of a lock that is free and of a record that is not there

ASSUME ViewerAssumption == NoOne \notin Viewers

VARIABLES
  opener,  \* command -> what it is doing, and the viewer it found
  viewer,  \* viewer -> how far it has come
  webLock, \* web.lock: who holds it
  record,  \* web.json: the viewer it names
  stopper, \* the command that stops the viewer, and the viewer it addresses
  action,  \* viewer -> the action it was asked for: "none", "running", "done", "cut"
  told     \* viewers that were told to stop, and said they would

viewerVars == <<opener, viewer, webLock, record, stopper, action, told>>

ViewerInit ==
  /\ opener = [o \in Openers |-> [pc |-> "asked", found |-> NoOne]]
  /\ viewer = [v \in Viewers |-> "unborn"]
  /\ webLock = NoOne /\ record = NoOne
  /\ stopper = [pc |-> "idle", of |-> NoOne]
  /\ action = [v \in Viewers |-> "none"]
  /\ told = {}

Alive(v) == viewer[v] \notin {"unborn", "gone"}

\* probeWebInstance: the viewer of the record answers with its token.  One that
\* is told to stop answers as long as it has connections to finish.
Answers(v) == v # NoOne /\ viewer[v] \in {"serving", "expiring"}

\* OpenWebDashboard: a viewer that answers is used, else one is launched.
Reuse(o) ==
  /\ opener[o].pc \in {"asked", "waiting"}
  /\ Answers(record)
  /\ opener' = [opener EXCEPT ![o] = [pc |-> "open", found |-> record]]
  /\ UNCHANGED <<viewer, webLock, record, stopper, action, told>>

Launch(o) ==
  /\ opener[o].pc = "asked"
  /\ ~Answers(record)
  /\ \E v \in Viewers :
       /\ viewer[v] = "unborn"
       /\ viewer' = [viewer EXCEPT ![v] = "born"]
  /\ opener' = [opener EXCEPT ![o].pc = "waiting"]
  /\ UNCHANGED <<webLock, record, stopper, action, told>>

\* It launches one only, and gives up after ten seconds.
GiveUp(o) ==
  /\ opener[o].pc = "waiting"
  /\ opener' = [opener EXCEPT ![o].pc = "failed"]
  /\ UNCHANGED <<viewer, webLock, record, stopper, action, told>>

\* ServeWebDashboard.  A viewer that does not get the lock leaves.
Lock(v) ==
  /\ viewer[v] = "born"
  /\ IF webLock = NoOne
       THEN webLock' = v /\ viewer' = [viewer EXCEPT ![v] = "locked"]
       ELSE webLock' = webLock /\ viewer' = [viewer EXCEPT ![v] = "gone"]
  /\ UNCHANGED <<opener, record, stopper, action, told>>

\* The record is renamed into place, and the server begins to serve.
Publish(v) ==
  /\ viewer[v] = "locked"
  /\ record' = v
  /\ viewer' = [viewer EXCEPT ![v] = "serving"]
  /\ UNCHANGED <<opener, webLock, stopper, action, told>>

\* action: one at a time, and none once the viewer is stopping.
Act(v) ==
  /\ viewer[v] \in {"serving", "expiring"}
  /\ v \notin told
  /\ action[v] # "running"
  /\ action' = [action EXCEPT ![v] = "running"]
  /\ UNCHANGED <<opener, viewer, webLock, record, stopper, told>>

ActDone(v) ==
  /\ action[v] = "running"
  /\ Alive(v)
  /\ action' = [action EXCEPT ![v] = "done"]
  /\ UNCHANGED <<opener, viewer, webLock, record, stopper, told>>

\* Mutant: the viewer does not ask whether an action runs.
ShutdownBusy(v) ==
  /\ stopper = [pc |-> "asking", of |-> v]
  /\ viewer[v] \in {"serving", "expiring"}
  /\ told' = told \cup {v}
  /\ viewer' = [viewer EXCEPT ![v] = "closing"]
  /\ stopper' = [stopper EXCEPT !.pc = "waiting"]
  /\ UNCHANGED <<opener, webLock, record, action>>

\* /api/shutdown: refused while an action runs.  Otherwise the server is shut
\* down, which its caller learns before.
Shutdown(v) ==
  /\ stopper = [pc |-> "asking", of |-> v]
  /\ viewer[v] \in {"serving", "expiring"}
  /\ IF action[v] = "running" \/ v \in told
       THEN /\ stopper' = [stopper EXCEPT !.pc = "refused"]
            /\ UNCHANGED <<viewer, told>>
       ELSE /\ told' = told \cup {v}
            /\ viewer' = [viewer EXCEPT ![v] = "closing"]
            /\ stopper' = [stopper EXCEPT !.pc = "waiting"]
  /\ UNCHANGED <<opener, webLock, record, action>>

\* After half an hour without a client and with no action ...
Idle(v) ==
  /\ viewer[v] = "serving"
  /\ action[v] # "running"
  /\ viewer' = [viewer EXCEPT ![v] = "expiring"]
  /\ UNCHANGED <<opener, webLock, record, stopper, action, told>>

\* ... the server is closed, whatever was asked of it in between.
Expire(v) ==
  /\ viewer[v] = "expiring"
  /\ viewer' = [viewer EXCEPT ![v] = "closing"]
  /\ UNCHANGED <<opener, webLock, record, stopper, action, told>>

\* A signal closes it as well, without a look at its action.
Terminate(v) ==
  /\ viewer[v] \in {"serving", "expiring"}
  /\ viewer' = [viewer EXCEPT ![v] = "closing"]
  /\ UNCHANGED <<opener, webLock, record, stopper, action, told>>

\* The deferred calls: the record is removed and then the lock released.
RemoveRecord(v) ==
  /\ viewer[v] = "closing"
  /\ record' = NoOne
  /\ viewer' = [viewer EXCEPT ![v] = "removed"]
  /\ UNCHANGED <<opener, webLock, stopper, action, told>>

\* The process exits; an action that still runs is cut off.
Exit(v) ==
  /\ viewer[v] = "removed"
  /\ webLock' = NoOne
  /\ viewer' = [viewer EXCEPT ![v] = "gone"]
  /\ action' = [action EXCEPT ![v] = IF @ = "running" THEN "cut" ELSE @]
  /\ UNCHANGED <<opener, record, stopper, told>>

\* A killed viewer leaves its record behind.
Kill(v) ==
  /\ Alive(v)
  /\ viewer' = [viewer EXCEPT ![v] = "gone"]
  /\ webLock' = IF webLock = v THEN NoOne ELSE webLock
  /\ action' = [action EXCEPT ![v] = IF @ = "running" THEN "cut" ELSE @]
  /\ UNCHANGED <<opener, record, stopper, told>>

\* StopWebDashboard: no record is nothing to stop, nor is the record of a dead
\* viewer; one that lives and does not answer is an error.
Stop ==
  /\ stopper.pc = "idle"
  /\ stopper' = IF record = NoOne THEN [pc |-> "stopped", of |-> NoOne]
                ELSE IF Answers(record) THEN [pc |-> "asking", of |-> record]
                ELSE IF Alive(record) THEN [pc |-> "refused", of |-> NoOne]
                ELSE [pc |-> "stopped", of |-> NoOne]
  /\ UNCHANGED <<opener, viewer, webLock, record, action, told>>

\* The call may fail because the viewer no longer answers it.
StopCallFails ==
  /\ stopper.pc = "asking"
  /\ ~Answers(stopper.of)
  /\ stopper' = [stopper EXCEPT !.pc = "refused"]
  /\ UNCHANGED <<opener, viewer, webLock, record, action, told>>

\* It waits until the record is gone or names another viewer, or five seconds.
Stopped ==
  /\ stopper.pc = "waiting"
  /\ record # stopper.of
  /\ stopper' = [stopper EXCEPT !.pc = "stopped"]
  /\ UNCHANGED <<opener, viewer, webLock, record, action, told>>

StopTimesOut ==
  /\ stopper.pc = "waiting"
  /\ stopper' = [stopper EXCEPT !.pc = "refused"]
  /\ UNCHANGED <<opener, viewer, webLock, record, action, told>>

ViewerNext ==
  \/ \E o \in Openers : Reuse(o) \/ Launch(o) \/ GiveUp(o)
  \/ \E v \in Viewers : \/ Lock(v) \/ Publish(v) \/ Act(v) \/ ActDone(v) \/ Shutdown(v)
                        \/ Idle(v) \/ Expire(v) \/ Terminate(v) \/ RemoveRecord(v)
                        \/ Exit(v) \/ Kill(v)
  \/ Stop \/ StopCallFails \/ Stopped \/ StopTimesOut

ViewerSpec == ViewerInit /\ [][ViewerNext]_viewerVars
-----------------------------------------------------------------------------
\* However commands race to open the dashboard and to stop it, and whichever
\* viewer is killed: the viewer that serves is the one the record names, so
\* that it is found, and the only one; a command that was told the viewer has
\* stopped does not leave it serving; and a viewer that agreed to stop cuts off
\* no action.  One that expires, is terminated or killed does.
OneViewerIsFound ==
  /\ \A v \in Viewers : Answers(v) => record = v /\ webLock = v
  /\ stopper.pc = "stopped" /\ stopper.of # NoOne => ~Answers(stopper.of)
  /\ \A v \in told : action[v] # "running"
=============================================================================
